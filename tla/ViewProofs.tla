----------------------------- MODULE ViewProofs -----------------------------
(***************************************************************************)
(* Proofs about View, for any documents, groups, networks, mappings,       *)
(* directories and page size.                                              *)
(***************************************************************************)
EXTENDS View, SequenceTheorems, FiniteSetTheorems, TLAPS

-----------------------------------------------------------------------------
(* Type correctness.                                                       *)

Items == Files \cup Names \cup {Parent}

LEMMA ProcessIsUser == <<uid, gid>> \in Users /\ RunAs \subseteq Users
  BY DEF Users

LEMMA LoadTypeOK ==
  ASSUME TypeOK, (\E d \in Docs : Load(d)) \/ LoadConfig
  PROVE  TypeOK'
<1>1. CASE \E d \in Docs : Load(d)
  BY <1>1, DocsAssumption DEF Load, TypeOK, Stages, dirVars, listVars
<1>2. CASE OpenRoots
  <2>1. doc \in Doc
    BY <1>2 DEF OpenRoots, TypeOK
  <2>2. \A m \in Mapping \cup {NoMapping, Null} : Opened(m) \in Mapping \cup {NoMapping, Null}
    BY DEF Opened
  <2>3. ASSUME NEW g \in Group \cup {NoGroup} PROVE OpenGroup(g) \in Group \cup {NoGroup}
    <3>1. CASE g = NoGroup
      BY <3>1 DEF OpenGroup
    <3>2. CASE g # NoGroup
      <4>1. [n \in Names |-> Opened(g.mapping[n])] \in Table
        BY <2>2, <3>2 DEF Group, Table
      <4>2. QED
        BY <3>2, <4>1 DEF OpenGroup, Group
    <3>3. QED
      BY <3>1, <3>2
  <2>4. doc' \in Doc
    <3>1. [g \in Groups |-> OpenGroup(doc.groups[g])] \in [Groups -> Group \cup {NoGroup}]
      BY <2>1, <2>3 DEF Doc
    <3>2. QED
      BY <1>2, <2>1, <3>1 DEF OpenRoots, Doc
  <2>5. QED
    BY <1>2, <2>4 DEF OpenRoots, TypeOK, Stages, parseIPNetList, dirVars, listVars
<1>3. CASE SkipGroup
  BY <1>3 DEF SkipGroup, TypeOK, Stages, dirVars, listVars
<1>4. CASE MergeGroup
  <2> DEFINE g == doc.groups[doc.list[next]]
  <2>1. doc \in Doc /\ doc.list[next] \in Groups /\ g \in Group
    BY <1>4 DEF MergeGroup, TypeOK, Doc
  <2>2. \A n \in Names : g.mapping[n] \in Mapping \cup {NoMapping}
    BY <1>4, <2>1 DEF MergeGroup, Group, Table
  <2>3. mapping' \in [Names -> Mapping \cup {NoMapping}]
    BY <1>4, <2>2 DEF MergeGroup, Merged, TypeOK
  <2>4. QED
    BY <1>4, <2>3 DEF MergeGroup, TypeOK, Stages, parseIPNetList, dirVars, listVars
<1>5. CASE CopyOwn
  <2>1. doc \in Doc /\ stage = "groups"
    BY <1>5 DEF CopyOwn, TypeOK
  <2>2. \A n \in Names : doc.own[n] \in Mapping \cup {NoMapping}
    BY <1>5, <2>1 DEF CopyOwn, Doc, Table
  <2>3. mapping' \in [Names -> Mapping \cup {NoMapping}]
    BY <1>5, <2>2, MarksAssumption DEF CopyOwn, Opened, TypeOK
  <2>4. QED
    BY <1>5, <2>1, <2>3 DEF CopyOwn, TypeOK, Stages, loadVars, dirVars, listVars
<1>6. CASE LoadPanics
  BY <1>6, ProcessIsUser DEF LoadPanics, Reset, TypeOK, Stages, dirVars, listVars
<1>7. QED
  BY <1>1, <1>2, <1>3, <1>4, <1>5, <1>6 DEF LoadConfig

LEMMA OrdersType ==
  ASSUME NEW S \in SUBSET Names, NEW s \in Orders(S)
  PROVE  s \in Seq(S)
<1>1. Cardinality(S) \in Nat
  BY FilesAssumption, FS_Subset, FS_CardinalityType
<1>2. QED
  BY <1>1 DEF Orders

(* What holds besides the types: without a listing there is nothing to     *)
(* list, and nothing was passed on before the pages are asked for.         *)
Quiet == /\ stage \notin {"reading", "paging", "listed"} => infos = <<>>
         /\ stage \notin {"paging", "listed"} => off = 0 /\ received = <<>>

LEMMA SessionTypeOK ==
  ASSUME TypeOK, Quiet, (\E a \in Addrs : Connect(a)) \/ Leave \/ Filelist
  PROVE  TypeOK'
<1>1. CASE \E a \in Addrs : Connect(a)
  BY <1>1, ProcessIsUser DEF Connect, TypeOK, Stages, dirVars, listVars
<1>2. CASE Leave
  BY <1>2, ProcessIsUser DEF Leave, Reset, TypeOK, Stages, dirVars, listVars
<1>3. ASSUME NEW s \in Seq(Items), Answer(s), stage = "session" PROVE TypeOK'
  <2>1. Len(s) \in Nat /\ off = 0
    BY <1>3 DEF Quiet
  <2>2. QED
    BY <1>3, <2>1 DEF Answer, Items, TypeOK, Stages, loadVars, dirVars
<1>4. CASE FilelistRoot
  <2>1. PICK s \in Orders({n \in Names : Plain(n)}) : Answer(s)
    BY <1>4 DEF FilelistRoot
  <2>2. s \in Seq(Items)
    <3>1. {n \in Names : Plain(n)} \in SUBSET Names
      OBVIOUS
    <3>2. s \in Seq({n \in Names : Plain(n)})
      BY <3>1, OrdersType
    <3>3. QED
      BY <3>2, SeqMonotonic DEF Items
  <2>3. QED
    BY <1>3, <1>4, <2>1, <2>2 DEF FilelistRoot
<1>5. ASSUME NEW n \in Names, FilelistOne(n) PROVE TypeOK'
  <2>1. <<n>> \in Seq(Items) /\ \A f \in Files : <<f>> \in Seq(Items)
    BY DEF Items
  <2>2. QED
    BY <1>3, <1>5, <2>1 DEF FilelistOne
<1>6. ASSUME NEW n \in Names, FilelistDir(n) PROVE TypeOK'
  <2>1. /\ disk' \in [Files -> Inodes \cup {Absent}]
        /\ left' \subseteq Files /\ late' \subseteq Files
        /\ stayed' \subseteq Files /\ came' \subseteq Files /\ odd' \subseteq Files
    BY <1>6 DEF FilelistDir
  <2>2. infos' \in Seq(Items) /\ off' \in 0..Len(infos')
    BY <1>6 DEF FilelistDir, Items, Quiet
  <2>3. QED
    BY <1>6, <2>1, <2>2 DEF FilelistDir, TypeOK, Stages, Items, loadVars
<1>7. QED
  BY <1>1, <1>2, <1>4, <1>5, <1>6 DEF Filelist

(* One page more.                                                          *)
LEMMA PageType ==
  ASSUME TypeOK, ReadPage
  PROVE  /\ off' \in off..Len(infos)
         /\ received' = received \o SubSeq(infos, off + 1, off')
         /\ stage' = IF off = Len(infos) THEN "listed" ELSE "paging"
         /\ off = Len(infos) \/ off < off'
<1> DEFINE n == IF Len(infos) - off < Page THEN Len(infos) - off ELSE Page
<1>1. /\ infos \in Seq(Items) /\ Len(infos) \in Nat /\ off \in 0..Len(infos)
      /\ Page \in Nat /\ Page > 0
  BY PageAssumption DEF TypeOK, Items
<1>2. /\ off' = off + Len(ListAt(off).page)
      /\ received' = received \o ListAt(off).page
      /\ stage' = IF ListAt(off).page = <<>> /\ ListAt(off).eof THEN "listed" ELSE "paging"
  BY DEF ReadPage
<1>3. CASE off = Len(infos)
  <2>1. ListAt(off) = [page |-> <<>>, eof |-> TRUE]
    BY <1>1, <1>3 DEF ListAt
  <2>2. ListAt(off).page = <<>> /\ ListAt(off).eof
    BY <2>1
  <2>3. SubSeq(infos, off + 1, off) = <<>>
    BY <1>1, SubSeqEmpty
  <2>4. off' = off
    BY <1>1, <1>2, <2>2, EmptySeq
  <2>5. received' = received \o SubSeq(infos, off + 1, off')
    BY <1>2, <2>2, <2>3, <2>4
  <2>6. stage' = "listed"
    BY <1>2, <2>2
  <2>7. QED
    BY <1>1, <1>3, <2>4, <2>5, <2>6
<1>4. CASE off < Len(infos)
  <2>1. n \in 1..(Len(infos) - off)
    BY <1>1, <1>4
  <2>2. ListAt(off).page = SubSeq(infos, off + 1, off + n)
    BY <1>1, <1>4 DEF ListAt
  <2>3. Len(SubSeq(infos, off + 1, off + n)) = n
    <3>1. \A i \in (off + 1)..(off + n) : infos[i] \in Items
      BY <1>1, <2>1, ElementOfSeq
    <3>2. QED
      BY <1>1, <2>1, <3>1, SubSeqProperties
  <2>4. ListAt(off).page # <<>>
    <3>1. Len(ListAt(off).page) = n /\ n # 0
      <4> HIDE DEF n
      <4>1. QED
        BY <1>1, <2>1, <2>2, <2>3
    <3>2. QED
      BY <3>1, EmptySeq
  <2>5. off' = off + n /\ stage' = "paging"
    BY <1>2, <2>2, <2>3, <2>4
  <2>6. received' = received \o SubSeq(infos, off + 1, off')
    BY <1>2, <2>2, <2>5
  <2>7. off' \in off..Len(infos) /\ off < off' /\ off # Len(infos)
    <3> HIDE DEF n
    <3>1. QED
      BY <1>1, <1>4, <2>1, <2>5
  <2>8. QED
    BY <2>5, <2>6, <2>7
<1>5. QED
  BY <1>1, <1>3, <1>4

LEMMA ListingTypeOK ==
  ASSUME TypeOK,
         \/ Readdir \/ ReadPage \/ Close
         \/ \E f \in Files, x \in Inodes \cup {Absent} : Change(f, x)
  PROVE  TypeOK'
<1>1. CASE stage \in {"reading", "paging", "listed"} /\ CloseHandle
  <2>1. infos' \in Seq(Items) /\ received' \in Seq(Items) /\ off' \in 0..Len(infos')
    BY <1>1, EmptySeq DEF CloseHandle
  <2>2. QED
    BY <1>1, <2>1 DEF CloseHandle, TypeOK, Stages, Items, loadVars
<1>2. CASE DirectoryRead
  BY <1>2 DEF DirectoryRead, TypeOK, Stages, loadVars, listVars
<1>3. ASSUME NEW f \in Files, Lstat(f) PROVE TypeOK'
  <2>1. infos' \in Seq(Items) /\ Len(infos') \in Nat /\ Len(infos') >= Len(infos)
    BY <1>3 DEF Lstat, TypeOK, Items
  <2>2. QED
    BY <1>3, <2>1 DEF Lstat, TypeOK, Stages, Items, loadVars
<1>4. ASSUME NEW f \in Files, NEW x \in Inodes \cup {Absent}, Change(f, x) PROVE TypeOK'
  <2>1. disk' \in [Files -> Inodes \cup {Absent}]
    BY <1>4 DEF Change, TypeOK
  <2>2. left' \subseteq Files /\ late' \subseteq Files
    BY <1>4 DEF Change, TypeOK
  <2>3. stayed' \subseteq Files /\ came' \subseteq Files /\ odd' \subseteq Files
    BY <1>4 DEF Change, TypeOK
  <2>4. QED
    BY <1>4, <2>1, <2>2, <2>3 DEF Change, TypeOK, Stages, loadVars, listVars
<1>5. CASE ReadPage
  <2>1. SubSeq(infos, off + 1, off') \in Seq(Items)
    <3>1. \A i \in (off + 1)..off' : infos[i] \in Items
      BY <1>5, PageType, ElementOfSeq DEF TypeOK, Items
    <3>2. QED
      BY <1>5, <3>1, PageType, SubSeqProperties DEF TypeOK, Items
  <2>2. received' \in Seq(Items)
    <3>1. received \in Seq(Items)
      BY DEF TypeOK, Items
    <3>2. received \o SubSeq(infos, off + 1, off') \in Seq(Items)
      BY <2>1, <3>1, ConcatProperties
    <3>3. QED
      BY <1>5, <3>2, PageType
  <2>3. QED
    BY <1>5, <2>2, PageType DEF ReadPage, TypeOK, Stages, Items, loadVars, dirVars
<1>6. QED
  BY <1>1, <1>2, <1>3, <1>4, <1>5 DEF Readdir, ReaddirFails, Close

LEMMA QuietStep ==
  ASSUME TypeOK, Quiet, [Next]_vars
  PROVE  Quiet'
<1>1. ASSUME UNCHANGED listVars,
             stage \notin {"reading", "paging", "listed"},
             stage' \notin {"reading", "paging", "listed"}
      PROVE  Quiet'
  BY <1>1 DEF listVars, Quiet
<1>2. CASE (\E d \in Docs : Load(d)) \/ LoadConfig
  BY <1>1, <1>2 DEF Load, LoadConfig, OpenRoots, SkipGroup, MergeGroup, CopyOwn, LoadPanics, Reset
<1>3. CASE (\E a \in Addrs : Connect(a)) \/ Leave
  BY <1>1, <1>3 DEF Connect, Leave, Reset
<1>4. CASE Filelist
  BY <1>4 DEF Filelist, FilelistRoot, FilelistOne, FilelistDir, Answer, Quiet
<1>5. CASE CloseHandle
  BY <1>5 DEF CloseHandle, Quiet
<1>6. CASE DirectoryRead \/ (\E f \in Files : Lstat(f))
  BY <1>6 DEF DirectoryRead, Lstat, Quiet, listVars
<1>7. CASE ReadPage
  BY <1>7 DEF ReadPage, Quiet
<1>8. CASE \E f \in Files, x \in Inodes \cup {Absent} : Change(f, x)
  BY <1>8 DEF Change, Quiet, listVars
<1>9. CASE UNCHANGED vars
  BY <1>9 DEF vars, listVars, Quiet
<1>10. QED
  BY <1>2, <1>3, <1>4, <1>5, <1>6, <1>7, <1>8, <1>9 DEF Next, Readdir, ReaddirFails, Close

Sound == TypeOK /\ Quiet

LEMMA SoundAlways == Spec => []Sound
<1>1. Init => Sound
  <2> SUFFICES ASSUME Init PROVE Sound
    OBVIOUS
  <2>1. infos \in Seq(Items) /\ received \in Seq(Items) /\ off \in 0..Len(infos)
    BY EmptySeq DEF Init
  <2>2. QED
    BY <2>1, ProcessIsUser DEF Init, Sound, Quiet, TypeOK, Stages, Items
<1>2. Sound /\ [Next]_vars => Sound'
  <2> SUFFICES ASSUME Sound, [Next]_vars PROVE Sound'
    OBVIOUS
  <2>1. CASE UNCHANGED vars
    BY <2>1, QuietStep DEF Sound, TypeOK, vars, loadVars, dirVars, listVars
  <2>2. CASE Next
    BY <2>2, QuietStep, LoadTypeOK, SessionTypeOK, ListingTypeOK DEF Sound, Next
  <2>3. QED
    BY <2>1, <2>2
<1>3. QED
  BY <1>1, <1>2, PTL DEF Spec

(* Types hold; a load has a document, and the offset stays in the listing. *)
THEOREM TypeCorrect == Spec => []TypeOK
<1>1. Sound => TypeOK
  BY DEF Sound
<1>2. QED
  BY <1>1, SoundAlways, PTL

-----------------------------------------------------------------------------
(* Pages.                                                                  *)

LEMMA PageStep ==
  ASSUME Sound, PagesAreTheListing, [Next]_vars
  PROVE  PagesAreTheListing'
<1>1. /\ infos \in Seq(Items) /\ Len(infos) \in Nat /\ off \in 0..Len(infos)
  BY DEF Sound, TypeOK, Items
<1>2. ASSUME off' = 0, received' = <<>>, stage' # "listed" PROVE PagesAreTheListing'
  <2>1. SubSeq(infos', 1, 0) = <<>>
    BY SubSeqEmpty
  <2>2. QED
    BY <1>2, <2>1 DEF PagesAreTheListing
<1>3. CASE (\E d \in Docs : Load(d)) \/ LoadConfig
  <2>1. UNCHANGED listVars /\ stage \notin {"paging", "listed"} /\ stage' # "listed"
    BY <1>3 DEF Load, LoadConfig, OpenRoots, SkipGroup, MergeGroup, CopyOwn, LoadPanics, Reset
  <2>2. QED
    BY <1>2, <2>1 DEF Sound, Quiet, listVars
<1>4. CASE (\E a \in Addrs : Connect(a)) \/ Leave
  <2>1. UNCHANGED listVars /\ stage \notin {"paging", "listed"} /\ stage' # "listed"
    BY <1>4 DEF Connect, Leave, Reset
  <2>2. QED
    BY <1>2, <2>1 DEF Sound, Quiet, listVars
<1>5. CASE Filelist \/ DirectoryRead \/ (\E f \in Files : Lstat(f))
  <2>1. /\ UNCHANGED <<off, received>> /\ stage \notin {"paging", "listed"}
        /\ stage' # "listed"
    BY <1>5 DEF Filelist, FilelistRoot, FilelistOne, FilelistDir, Answer, DirectoryRead,
                Lstat, listVars
  <2>2. QED
    BY <1>2, <2>1 DEF Sound, Quiet
<1>6. CASE CloseHandle
  BY <1>2, <1>6 DEF CloseHandle
<1>7. CASE \E f \in Files, x \in Inodes \cup {Absent} : Change(f, x)
  BY <1>7 DEF Change, listVars, PagesAreTheListing
<1>8. CASE ReadPage
  <2>1. SubSeq(infos, 1, off) \o SubSeq(infos, off + 1, off') = SubSeq(infos, 1, off')
    <3>1. off' \in off..Len(infos)
      BY <1>8, PageType DEF Sound
    <3>2. 1 \in 1..(Len(infos) + 1) /\ off \in (1 - 1)..Len(infos)
      BY <1>1
    <3>3. QED
      BY <1>1, <3>1, <3>2, ConcatAdjacentSubSeq
  <2>2. /\ off' \in off..Len(infos)
        /\ received' = received \o SubSeq(infos, off + 1, off')
        /\ stage' = IF off = Len(infos) THEN "listed" ELSE "paging"
        /\ infos' = infos
    BY <1>8, PageType DEF Sound, ReadPage
  <2>3. received' = SubSeq(infos', 1, off')
    BY <2>1, <2>2 DEF PagesAreTheListing
  <2>4. stage' = "listed" => off' = Len(infos')
    BY <1>1, <2>2
  <2>5. QED
    BY <2>3, <2>4 DEF PagesAreTheListing
<1>9. CASE UNCHANGED vars
  BY <1>9 DEF vars, listVars, PagesAreTheListing
<1>10. QED
  BY <1>3, <1>4, <1>5, <1>6, <1>7, <1>8, <1>9 DEF Next, Readdir, ReaddirFails, Close

(* The pages of any size put together are the listing.                     *)
THEOREM PagesAreWhole == Spec => []PagesAreTheListing
<1>1. Init => PagesAreTheListing
  BY SubSeqEmpty DEF Init, PagesAreTheListing
<1>2. QED
  BY <1>1, PageStep, SoundAlways, PTL DEF Spec

-----------------------------------------------------------------------------
(* The safety half of ListingEnds, for any directory and any page: while a *)
(* listing is under way no step takes it back, not even a change of the    *)
(* directory, and what the server and the client do to it leaves fewer     *)
(* names to look at, or fewer entries to send (handlers.go:271,            *)
(* types.go:86).  Both are finite, and a name adds to them once at most.   *)

Nearer ==
  \/ stage' \in {"listed", "session"}
  \/ stage = "reading" /\ stage' = "paging" /\ off' \in 0..Len(infos')
  \/ /\ stage = "reading" /\ stage' = "reading"
     /\ left' \subseteq left \cup (late' \ late) /\ late \subseteq late'
     /\ Readdir => late' = late /\ Cardinality(left') < Cardinality(left)
  \/ /\ stage = "paging" /\ stage' = "paging"
     /\ infos' = infos /\ off' \in (off + 1)..Len(infos)

ListingAdvances == [][(stage \in {"reading", "paging"}) => Nearer]_vars

LEMMA ReaddirAdvances ==
  ASSUME TypeOK, Readdir
  PROVE  Nearer
<1>1. CASE DirectoryRead
  BY <1>1 DEF DirectoryRead, listVars, TypeOK, Nearer
<1>2. CASE ReaddirFails
  BY <1>2 DEF ReaddirFails, CloseHandle, Nearer
<1>3. ASSUME NEW f \in Files, Lstat(f) PROVE Nearer
  <2>1. /\ f \in left /\ left' = left \ {f} /\ late' = late
        /\ stage = "reading" /\ stage' = "reading"
    BY <1>3 DEF Lstat
  <2>2. IsFiniteSet(left)
    BY FilesAssumption, FS_Subset DEF TypeOK
  <2>3. Cardinality(left') = Cardinality(left) - 1 /\ Cardinality(left) \in Nat
    BY <2>1, <2>2, FS_RemoveElement, FS_CardinalityType
  <2>4. QED
    BY <2>1, <2>3 DEF Nearer
<1>4. QED
  BY <1>1, <1>2, <1>3 DEF Readdir

(* Nothing undoes a listing, and each step at it brings its end nearer.    *)
THEOREM ListingsAdvance == Spec => ListingAdvances
<1>1. TypeOK /\ [Next]_vars => [(stage \in {"reading", "paging"}) => Nearer]_vars
  <2> SUFFICES ASSUME TypeOK, Next, stage \in {"reading", "paging"} PROVE Nearer
    OBVIOUS
  <2>1. CASE Readdir
    BY <2>1, ReaddirAdvances
  <2>2. CASE ReadPage
    <3>1. off \in Nat /\ Len(infos) \in Nat /\ infos' = infos /\ stage = "paging"
      BY <2>2 DEF ReadPage, TypeOK
    <3>2. QED
      BY <2>2, <3>1, PageType DEF Nearer
  <2>3. CASE Close
    BY <2>3 DEF Close, CloseHandle, Nearer
  <2>4. ASSUME NEW f \in Files, NEW x \in Inodes \cup {Absent}, Change(f, x), ~Readdir
        PROVE  Nearer
    BY <2>4 DEF Change, Nearer
  <2>5. CASE (\E d \in Docs : Load(d)) \/ LoadConfig
    BY <2>5 DEF Load, LoadConfig, OpenRoots, SkipGroup, MergeGroup, CopyOwn, LoadPanics
  <2>6. CASE (\E a \in Addrs : Connect(a)) \/ Leave \/ Filelist
    BY <2>6 DEF Connect, Leave, Filelist, FilelistRoot, FilelistOne, FilelistDir
  <2>7. QED
    BY <2>1, <2>2, <2>3, <2>4, <2>5, <2>6 DEF Next
<1>2. QED
  BY <1>1, TypeCorrect, PTL DEF Spec, ListingAdvances

-----------------------------------------------------------------------------
(* Directories.  Of what stayed, the listing and the names still to be met *)
(* have each name once.                                                    *)

Directory ==
  /\ stage # "reading" => left = {}
  /\ stage = "reading" =>
       /\ infos # <<>> /\ infos[1] = Parent
       /\ \A f \in stayed : Readable(disk[f])
       /\ \A f \in Files : /\ Readable(disk[f]) => f \in came
                           /\ Odd(disk[f]) => f \in odd
  /\ infos # <<>> /\ infos[1] = Parent =>
       \A i \in 2..Len(infos) : infos[i] \in stayed => infos[i] \notin left
  /\ ListsTheDirectory

(* What the code lets through is readable, or its mode is odd.             *)
LEMMA ListedIsReadable ==
  ASSUME NEW x, Ordinary(x)
  PROVE  /\ Readable(x) => checkReadableStat(x)
         /\ checkReadableStat(x) => Readable(x) \/ Odd(x)
<1>1. Readable(x) => checkReadableStat(x)
  BY DEF Readable, CanRead, checkReadableStat
<1>2. ASSUME checkReadableStat(x), ~CanRead(ids[1], ids[2], x) PROVE Odd(x)
  BY <1>2 DEF CanRead, checkReadableStat, Odd
<1>3. QED
  BY <1>1, <1>2 DEF Readable

LEMMA DirectoryStep ==
  ASSUME Sound, Directory, [Next]_vars
  PROVE  Directory'
<1>1. ASSUME infos' = <<>>, left' = {}, stage' # "reading" PROVE Directory'
  BY <1>1 DEF Directory, ListsTheDirectory
<1>2. CASE (\E d \in Docs : Load(d)) \/ LoadConfig
  <2>1. /\ UNCHANGED <<dirVars, listVars>> /\ stage \notin {"reading", "paging", "listed"}
        /\ stage' # "reading"
    BY <1>2 DEF Load, LoadConfig, OpenRoots, SkipGroup, MergeGroup, CopyOwn, LoadPanics, Reset
  <2>2. QED
    BY <1>1, <2>1 DEF Sound, Quiet, Directory, dirVars, listVars
<1>3. CASE (\E a \in Addrs : Connect(a)) \/ Leave
  <2>1. /\ UNCHANGED <<dirVars, listVars>> /\ stage \notin {"reading", "paging", "listed"}
        /\ stage' # "reading"
    BY <1>3 DEF Connect, Leave, Reset
  <2>2. QED
    BY <1>1, <2>1 DEF Sound, Quiet, Directory, dirVars, listVars
<1>4. ASSUME NEW s, Answer(s), s = <<>> \/ s[1] # Parent, stage = "session" PROVE Directory'
  BY <1>4 DEF Answer, dirVars, Directory, ListsTheDirectory
<1>5. CASE FilelistRoot
  <2> DEFINE S == {n \in Names : Plain(n)}
  <2>1. PICK s \in Orders(S) : Answer(s)
    BY <1>5 DEF FilelistRoot
  <2>2. s \in Seq(S)
    <3>1. S \in SUBSET Names
      OBVIOUS
    <3>2. QED
      BY <3>1, OrdersType
  <2>3. s = <<>> \/ s[1] # Parent
    <3>1. CASE s # <<>>
      <4>1. s[1] \in S
        BY <2>2, <3>1, ElementOfSeq, EmptySeq
      <4>2. QED
        BY <4>1, MarksAssumption
    <3>2. QED
      BY <3>1
  <2>4. QED
    BY <1>4, <1>5, <2>1, <2>3 DEF FilelistRoot
<1>6. ASSUME NEW n \in Names, FilelistOne(n) PROVE Directory'
  BY <1>4, <1>6, MarksAssumption DEF FilelistOne
<1>7. ASSUME NEW n \in Names, FilelistDir(n) PROVE Directory'
  <2>1. PICK d \in [Files -> Inodes \cup {Absent}] :
          /\ disk' = d
          /\ left' = {f \in Files : d[f] # Absent}
          /\ stayed' = {f \in Files : Readable(d[f])}
          /\ came' = {f \in Files : Readable(d[f])}
          /\ odd' = {f \in Files : Odd(d[f])}
    BY <1>7 DEF FilelistDir
  <2>2. infos' = <<Parent>> /\ stage' = "reading" /\ ids' = ids
    BY <1>7 DEF FilelistDir, loadVars
  <2>3. ListsTheDirectory'
    BY <2>1, <2>2 DEF ListsTheDirectory, Readable, Ordinary
  <2>4. \A f \in stayed' : Readable(disk[f])'
    BY <2>1, <2>2 DEF Readable
  <2>5. \A f \in Files : (Readable(disk[f])' => f \in came') /\ (Odd(disk[f])' => f \in odd')
    BY <2>1, <2>2 DEF Readable, Odd, Ordinary
  <2>6. \A i \in 2..Len(infos') : infos'[i] \notin left'
    BY <2>2
  <2>7. QED
    BY <2>2, <2>3, <2>4, <2>5, <2>6 DEF Directory
<1>8. CASE CloseHandle
  BY <1>1, <1>8 DEF CloseHandle
<1>9. CASE DirectoryRead
  BY <1>9 DEF DirectoryRead, listVars, Directory, ListsTheDirectory, Lists
<1>10. ASSUME NEW f \in Files, Lstat(f) PROVE Directory'
  <2>1. /\ stage = "reading" /\ stage' = "reading" /\ f \in left /\ left' = left \ {f}
        /\ UNCHANGED <<disk, stayed, came, odd, ids>>
        /\ infos # <<>> /\ infos[1] = Parent /\ infos \in Seq(Items) /\ Len(infos) \in Nat \ {0}
    BY <1>10, EmptySeq DEF Lstat, loadVars, Directory, Sound, TypeOK, Items
  <2>2. /\ \A g \in stayed : Readable(disk[g])'
        /\ \A g \in Files : (Readable(disk[g])' => g \in came') /\ (Odd(disk[g])' => g \in odd')
    BY <2>1 DEF Directory, Readable, Odd, Ordinary
  <2>3. CASE Ordinary(disk[f]) /\ checkReadableStat(disk[f])
    <3>1. /\ Len(infos') = Len(infos) + 1
          /\ infos'[Len(infos) + 1] = f
          /\ \A i \in 1..Len(infos) : infos'[i] = infos[i]
          /\ DOMAIN infos = 1..Len(infos) /\ DOMAIN infos' = 1..(Len(infos) + 1)
      BY <1>10, <2>1, <2>3 DEF Lstat
    <3>2. f \in came \cup odd
      BY <2>1, <2>3, ListedIsReadable DEF Directory
    <3>3. f \in stayed => \A i \in 2..Len(infos) : infos[i] # f
      BY <2>1 DEF Directory
    <3>4. ListsTheDirectory'
      <4>1. \A g \in stayed : g \in left' \/ Lists(g)'
        BY <2>1, <3>1 DEF Directory, ListsTheDirectory, Lists
      <4>2. \A i \in 2..Len(infos') : infos'[i] \in (came \cup odd)'
        BY <2>1, <3>1, <3>2 DEF Directory, ListsTheDirectory
      <4>3. \A i, j \in 2..Len(infos') : infos'[i] \in stayed /\ infos'[i] = infos'[j] => i = j
        BY <2>1, <3>1, <3>3 DEF Directory, ListsTheDirectory
      <4>4. QED
        BY <2>1, <4>1, <4>2, <4>3 DEF ListsTheDirectory
    <3>5. infos'[1] = Parent /\ infos' # <<>>
      BY <2>1, <3>1, EmptySeq
    <3>6. \A i \in 2..Len(infos') : infos'[i] \in stayed' => infos'[i] \notin left'
      BY <2>1, <3>1 DEF Directory
    <3>7. QED
      BY <2>1, <2>2, <3>4, <3>5, <3>6 DEF Directory
  <2>4. CASE ~(Ordinary(disk[f]) /\ checkReadableStat(disk[f]))
    <3>1. f \notin stayed
      BY <2>1, <2>4, ListedIsReadable DEF Directory, Readable
    <3>2. infos' = infos
      BY <1>10, <2>4 DEF Lstat
    <3>3. ListsTheDirectory'
      BY <2>1, <3>1, <3>2 DEF Directory, ListsTheDirectory, Lists
    <3>4. QED
      BY <2>1, <2>2, <3>2, <3>3 DEF Directory
  <2>5. QED
    BY <2>3, <2>4
<1>11. ASSUME NEW f \in Files, NEW x \in Inodes \cup {Absent}, Change(f, x) PROVE Directory'
  <2>1. /\ stage = "reading" /\ UNCHANGED <<stage, infos, ids>>
        /\ disk' = [disk EXCEPT ![f] = x] /\ disk' \in [Files -> Inodes \cup {Absent}]
        /\ stayed' = {g \in stayed : Readable(disk'[g])}
        /\ came' = came \cup {g \in Files : Readable(disk'[g])}
        /\ odd' = odd \cup {g \in Files : Odd(disk'[g])}
    BY <1>11 DEF Change, listVars, loadVars, Sound, TypeOK
  <2>2. /\ \A g \in stayed' : Readable(disk[g])'
        /\ \A g \in Files : (Readable(disk[g])' => g \in came') /\ (Odd(disk[g])' => g \in odd')
    BY <2>1 DEF Readable, Odd, Ordinary
  <2>3. ASSUME NEW g \in stayed' PROVE g \in left' <=> g \in left
    <3>1. g \in stayed /\ g \in Files /\ disk[g] # Absent /\ disk'[g] # Absent
      BY <2>1, <2>2 DEF Directory, Readable, Ordinary, Sound, TypeOK
    <3>2. g = f => x # Absent /\ disk[f] # Absent
      BY <2>1, <3>1 DEF Sound, TypeOK
    <3>3. QED
      BY <1>11, <3>2 DEF Change
  <2>4. ListsTheDirectory'
    BY <2>1, <2>3 DEF Directory, ListsTheDirectory, Lists
  <2>5. QED
    BY <2>1, <2>2, <2>3, <2>4 DEF Directory
<1>12. CASE ReadPage
  <2>1. UNCHANGED <<dirVars, infos>> /\ stage # "reading" /\ stage' # "reading"
    BY <1>12 DEF ReadPage
  <2>2. QED
    BY <2>1 DEF dirVars, Directory, ListsTheDirectory, Lists
<1>13. CASE UNCHANGED vars
  <2>1. UNCHANGED <<stage, ids, dirVars, infos>>
    BY <1>13 DEF vars, loadVars, listVars
  <2>2. \A x : (Readable(x)' <=> Readable(x)) /\ (Odd(x)' <=> Odd(x))
    BY <2>1 DEF Readable, Odd, Ordinary
  <2>3. QED
    BY <2>1, <2>2 DEF dirVars, Directory, ListsTheDirectory, Lists
<1>14. QED
  BY <1>2, <1>3, <1>5, <1>6, <1>7, <1>8, <1>9, <1>10, <1>11, <1>12, <1>13
  DEF Next, Filelist, Readdir, ReaddirFails, Close

(* A listing has what stayed readable while it was made, once, and but for *)
(* odd modes nothing that was never a file or directory its user may read. *)
THEOREM DirectoryIsListed == Spec => []ListsTheDirectory
<1>1. Init => Directory
  BY DEF Init, Directory, ListsTheDirectory
<1>2. Directory => ListsTheDirectory
  BY DEF Directory
<1>3. QED
  BY <1>1, <1>2, DirectoryStep, SoundAlways, PTL DEF Spec

-----------------------------------------------------------------------------
(* The merge.  The loop over the groups keeps, for the groups before its   *)
(* position, what the properties say of all of them.                       *)

LEMMA FromGroupsPass ==
  ASSUME NEW n, NEW k \in Nat \ {0}, NEW m, ~Counts(k), FromGroups(n, k, m)
  PROVE  FromGroups(n, k + 1, m)
<1>1. \A i \in 1..(k + 1 - 1) : i \in 1..(k - 1) \/ i = k
  OBVIOUS
<1>2. \A i \in 1..(k - 1) : i \in 1..(k + 1 - 1)
  OBVIOUS
<1>3. ~Maps(k, n) /\ ~Execs(k, n)
  BY DEF Maps, Execs
<1>4. QED
  BY <1>1, <1>2, <1>3 DEF FromGroups

LEMMA FromGroupsMerge ==
  ASSUME NEW n, NEW k \in Nat \ {0}, NEW m, Counts(k), FromGroups(n, k, m)
  PROVE  FromGroups(n, k + 1, Merged(m, GroupAt(k).mapping[n]))
<1> DEFINE new == GroupAt(k).mapping[n]
<1>1. /\ \A i \in 1..(k + 1 - 1) : i \in 1..(k - 1) \/ i = k
      /\ \A i \in 1..(k - 1) : i \in 1..(k + 1 - 1) /\ i <= k
      /\ k \in 1..(k + 1 - 1) /\ k <= k
  OBVIOUS
<1>2. CASE Execs(k, n)
  <2>1. Merged(m, new) = new
    BY <1>2 DEF Execs, Maps, Merged
  <2>2. \A j \in 1..(k + 1 - 1) : j <= k
    BY <1>1
  <2>3. QED
    BY <1>1, <1>2, <2>1, <2>2 DEF FromGroups
<1>3. CASE Maps(k, n) /\ ~Execs(k, n)
  <2>1. CASE m = NoMapping
    <3>1. Merged(m, new) = new
      BY <1>3, <2>1 DEF Maps, Merged
    <3>2. \A i \in 1..(k - 1) : ~Maps(i, n)
      BY <2>1 DEF FromGroups, Execs, Maps
    <3>3. QED
      BY <1>1, <1>3, <3>1, <3>2 DEF FromGroups, Execs
  <2>2. CASE m # NoMapping
    <3>1. Merged(m, new) = m
      BY <1>3, <2>2 DEF Execs, Merged
    <3>2. QED
      BY <1>1, <1>3, <2>2, <3>1 DEF FromGroups
  <2>3. QED
    BY <2>1, <2>2
<1>4. CASE ~Maps(k, n)
  <2>1. Merged(m, new) = m /\ ~Execs(k, n)
    BY <1>4 DEF Maps, Execs, Merged
  <2>2. QED
    BY <1>1, <1>4, <2>1 DEF FromGroups
<1>5. QED
  BY <1>2, <1>3, <1>4

(* What the lists of the user and of the groups before k have.             *)
WhiteBefore(k) ==
  {e \in Nets : e \in doc.white \/ \E i \in Known : i < k /\ e \in GroupAt(i).white}
BlackBefore(k) ==
  {e \in Nets : e \in doc.black \/ \E i \in Known : i < k /\ e \in GroupAt(i).black}

Merging ==
  /\ stage \in {"idle", "roots"} => next = 1 /\ \A n \in Names : mapping[n] = NoMapping
  /\ stage \in {"groups", "loaded"} =>
       /\ next \in 1..(Len(doc.list) + 1)
       /\ white = WhiteBefore(next) /\ black = BlackBefore(next)
  /\ stage = "groups" => \A n \in Names : FromGroups(n, next, mapping[n])
  /\ stage = "loaded" => next = Len(doc.list) + 1
  /\ MappingIsMerged

LEMMA DocType ==
  ASSUME TypeOK, stage \in {"roots", "groups", "loaded"}
  PROVE  /\ doc \in Doc /\ Len(doc.list) \in Nat /\ DOMAIN doc.list = 1..Len(doc.list)
         /\ Known \subseteq 1..Len(doc.list)
BY DEF TypeOK, Doc, Known

(* The merge only depends on the document.                                 *)
LEMMA SameDoc ==
  ASSUME doc' = doc
  PROVE  /\ Known' = Known
         /\ \A i : GroupAt(i)' = GroupAt(i)
         /\ \A i, n : (Maps(i, n)' <=> Maps(i, n)) /\ (Execs(i, n)' <=> Execs(i, n))
<1>1. Known' = Known /\ \A i : GroupAt(i)' = GroupAt(i) /\ (Counts(i)' <=> Counts(i))
  BY DEF Known, GroupAt, Counts, Seen
<1>2. QED
  BY <1>1 DEF Maps, Execs

LEMMA RootsMerge ==
  ASSUME TypeOK, Merging, OpenRoots
  PROVE  Merging'
<1>1. /\ stage' = "groups" /\ next' = 1 /\ \A n \in Names : mapping'[n] = NoMapping
      /\ doc'.list = doc.list /\ doc'.white = doc.white /\ doc'.black = doc.black
      /\ white' = doc.white \cap Nets /\ black' = doc.black \cap Nets
  BY DocType DEF OpenRoots, Merging, parseIPNetList, Doc
<1>2. Len(doc'.list) \in Nat /\ Known' \subseteq Nat \ {0}
  BY <1>1, DocType DEF OpenRoots, Known
<1>3. \A n \in Names : FromGroups(n, 1, NoMapping)'
  BY DEF FromGroups
<1>4. white' = WhiteBefore(1)' /\ black' = BlackBefore(1)'
  <2>1. \A i \in Known' : ~(i < 1)
    BY <1>2
  <2>2. white' = WhiteBefore(1)'
    BY <1>1, <2>1 DEF WhiteBefore
  <2>3. black' = BlackBefore(1)'
    BY <1>1, <2>1 DEF BlackBefore
  <2>4. QED
    BY <2>2, <2>3
<1>5. \A n \in Names : FromGroups(n, next, mapping[n])'
  BY <1>1, <1>3
<1>6. QED
  BY <1>1, <1>2, <1>4, <1>5 DEF Merging, MappingIsMerged

LEMMA SkipMerge ==
  ASSUME TypeOK, Merging, SkipGroup
  PROVE  Merging'
<1>1. /\ stage = "groups" /\ stage' = "groups" /\ next' = next + 1
      /\ UNCHANGED <<doc, white, black, mapping>>
      /\ next \in 1..Len(doc.list) /\ Len(doc.list) \in Nat
      /\ Known \subseteq 1..Len(doc.list)
  BY DocType DEF SkipGroup
<1>2. ~Counts(next)
  BY DEF SkipGroup, Counts
<1>3. \A n \in Names : FromGroups(n, next + 1, mapping[n])
  BY <1>1, <1>2, FromGroupsPass DEF Merging
<1>4. ASSUME next \in Known
      PROVE  \E j \in Known : j < next /\ GroupAt(j) = GroupAt(next)
  <2>1. PICK j \in 1..(next - 1) : doc.list[j] = doc.list[next]
    BY <1>4 DEF SkipGroup, Known, Seen
  <2>2. QED
    BY <1>1, <1>4, <2>1, DocType DEF Known, GroupAt
<1>5. \A i \in Known : i < next + 1 <=> i < next \/ i = next
  BY <1>1
<1>6. WhiteBefore(next + 1) = WhiteBefore(next) /\ BlackBefore(next + 1) = BlackBefore(next)
  BY <1>1, <1>4, <1>5 DEF WhiteBefore, BlackBefore
<1>7. white' = WhiteBefore(next + 1) /\ black' = BlackBefore(next + 1)
  BY <1>1, <1>6 DEF Merging
<1>8. /\ WhiteBefore(next)' = WhiteBefore(next + 1)
      /\ BlackBefore(next)' = BlackBefore(next + 1)
  BY <1>1 DEF WhiteBefore, BlackBefore, Known, GroupAt
<1>9. \A n \in Names : FromGroups(n, next, mapping[n])'
  BY <1>1, <1>3, SameDoc DEF FromGroups
<1>10. QED
  BY <1>1, <1>7, <1>8, <1>9 DEF Merging, MappingIsMerged

LEMMA GroupMerge ==
  ASSUME TypeOK, Merging, MergeGroup
  PROVE  Merging'
<1>1. /\ stage = "groups" /\ stage' = "groups" /\ next' = next + 1 /\ doc' = doc
      /\ next \in 1..Len(doc.list) /\ Len(doc.list) \in Nat
      /\ Known \subseteq 1..Len(doc.list)
      /\ white' = white \cup (GroupAt(next).white \cap Nets)
      /\ black' = black \cup (GroupAt(next).black \cap Nets)
      /\ mapping' = [n \in Names |-> Merged(mapping[n], GroupAt(next).mapping[n])]
  BY DocType DEF MergeGroup, parseIPNetList, GroupAt
<1>2. Counts(next) /\ next \in Known
  BY DEF MergeGroup, Counts, Known
<1>3. \A n \in Names : FromGroups(n, next + 1, mapping'[n])
  BY <1>1, <1>2, FromGroupsMerge DEF Merging
<1>4. \A i \in Known : i < next + 1 <=> i < next \/ i = next
  BY <1>1
<1>5. /\ WhiteBefore(next + 1) = WhiteBefore(next) \cup (GroupAt(next).white \cap Nets)
      /\ BlackBefore(next + 1) = BlackBefore(next) \cup (GroupAt(next).black \cap Nets)
  BY <1>2, <1>4 DEF WhiteBefore, BlackBefore
<1>6. white' = WhiteBefore(next + 1) /\ black' = BlackBefore(next + 1)
  BY <1>1, <1>5 DEF Merging
<1>7. /\ WhiteBefore(next)' = WhiteBefore(next + 1)
      /\ BlackBefore(next)' = BlackBefore(next + 1)
  BY <1>1 DEF WhiteBefore, BlackBefore, Known, GroupAt
<1>8. \A n \in Names : FromGroups(n, next, mapping[n])'
  BY <1>1, <1>3, SameDoc DEF FromGroups
<1>9. QED
  BY <1>1, <1>6, <1>7, <1>8 DEF Merging, MappingIsMerged

LEMMA OwnMerge ==
  ASSUME TypeOK, Merging, CopyOwn
  PROVE  Merging'
<1>1. /\ stage = "groups" /\ stage' = "loaded" /\ UNCHANGED <<doc, next, white, black>>
      /\ next = Len(doc.list) + 1 /\ Len(doc.list) \in Nat
  BY DocType DEF CopyOwn, loadVars, Merging
<1>2. ASSUME NEW n \in Names
      PROVE  IF OwnOpens(n) THEN mapping'[n] = doc.own[n]
             ELSE FromGroups(n, next, mapping'[n])
  <2>1. doc.own[n] \in Mapping \cup {NoMapping}
    BY <1>1, DocType DEF CopyOwn, Doc, Table
  <2>2. CASE OwnOpens(n)
    BY <2>1, <2>2, MarksAssumption DEF CopyOwn, OwnOpens, Opened
  <2>3. CASE ~OwnOpens(n)
    <3>1. mapping'[n] = mapping[n]
      BY <2>1, <2>3, MarksAssumption DEF CopyOwn, OwnOpens, Opened
    <3>2. QED
      BY <1>1, <2>3, <3>1 DEF Merging
  <2>4. QED
    BY <2>2, <2>3
<1>3. MappingIsMerged'
  BY <1>1, <1>2 DEF MappingIsMerged, OwnOpens, FromGroups, Maps, Execs, Counts, GroupAt, Seen
<1>4. /\ WhiteBefore(next)' = WhiteBefore(next)
      /\ BlackBefore(next)' = BlackBefore(next)
  BY <1>1 DEF WhiteBefore, BlackBefore, Known, GroupAt
<1>5. QED
  BY <1>1, <1>3, <1>4 DEF Merging

LEMMA MergingStep ==
  ASSUME Sound, Merging, [Next]_vars
  PROVE  Merging'
<1>1. ASSUME stage' \notin {"idle", "roots", "groups", "loaded"} PROVE Merging'
  BY <1>1 DEF Merging, MappingIsMerged
<1>2. CASE Reset
  BY <1>2 DEF Reset, Merging, MappingIsMerged
<1>3. CASE \E d \in Docs : Load(d)
  BY <1>3 DEF Load, Merging, MappingIsMerged
<1>4. CASE (\E a \in Addrs : Connect(a)) \/ Filelist \/ Readdir \/ ReadPage \/ Close
             \/ \E f \in Files, x \in Inodes \cup {Absent} : Change(f, x)
  BY <1>1, <1>4 DEF Connect, Filelist, FilelistRoot, FilelistOne, FilelistDir, Answer,
                    Readdir, DirectoryRead, ReaddirFails, Lstat, ReadPage, Close,
                    CloseHandle, Change
<1>5. CASE UNCHANGED vars
  <2>1. UNCHANGED <<stage, doc, next, white, black, mapping>>
    BY <1>5 DEF vars, loadVars
  <2>2. WhiteBefore(next)' = WhiteBefore(next) /\ BlackBefore(next)' = BlackBefore(next)
    BY <2>1 DEF WhiteBefore, BlackBefore, Known, GroupAt
  <2>3. stage' = "groups" => \A n \in Names : FromGroups(n, next, mapping[n])'
    BY <2>1, SameDoc DEF Merging, FromGroups
  <2>4. MappingIsMerged'
    BY <2>1, SameDoc DEF Merging, MappingIsMerged, OwnOpens, FromGroups
  <2>5. QED
    BY <2>1, <2>2, <2>3, <2>4 DEF Merging
<1>6. QED
  BY <1>2, <1>3, <1>4, <1>5, RootsMerge, SkipMerge, GroupMerge, OwnMerge
  DEF Sound, Next, LoadConfig, LoadPanics, Leave

LEMMA MergingAlways == Spec => []Merging
<1>1. Init => Merging
  BY DEF Init, Merging, MappingIsMerged
<1>2. QED
  BY <1>1, MergingStep, SoundAlways, PTL DEF Spec

(* A user's mappings are what its document and its groups say, in whatever *)
(* order Go walks them.                                                    *)
THEOREM MappingsMerge == Spec => []MappingIsMerged
<1>1. Merging => MappingIsMerged
  BY DEF Merging
<1>2. QED
  BY <1>1, MergingAlways, PTL

(* The addresses that are admitted are those that the filters of the user  *)
(* and of its groups admit together.                                       *)
THEOREM FiltersMerge == Spec => []AdmitsAsConfigured
<1>1. ASSUME Sound, Merging PROVE AdmitsAsConfigured
  <2> SUFFICES ASSUME stage = "loaded" PROVE AdmitsAsConfigured
    BY DEF AdmitsAsConfigured
  <2>1. \A i \in Known : i < next
    BY <1>1, DocType DEF Sound, Merging
  <2> DEFINE own   == [white |-> doc.white, black |-> doc.black]
             of(i) == [white |-> GroupAt(i).white, black |-> GroupAt(i).black]
  <2>2. /\ own \in Filters /\ \A i \in Known : of(i) \in Filters
        /\ \A t \in Filters : t = own \/ \E i \in Known : t = of(i)
        /\ own.white = doc.white /\ own.black = doc.black
        /\ \A i \in Known : of(i).white = GroupAt(i).white /\ of(i).black = GroupAt(i).black
    BY DEF Filters
  <2> HIDE DEF own, of
  <2>3. /\ \A e \in Nets : e \in white <=> \E t \in Filters : e \in t.white
        /\ \A e \in Nets : e \in black <=> \E t \in Filters : e \in t.black
    <3>1. \A e \in Nets : e \in white <=>
            e \in doc.white \/ \E i \in Known : e \in GroupAt(i).white
      BY <1>1, <2>1 DEF Merging, WhiteBefore
    <3>2. \A e \in Nets : e \in black <=>
            e \in doc.black \/ \E i \in Known : e \in GroupAt(i).black
      BY <1>1, <2>1 DEF Merging, BlackBefore
    <3>3. \A e \in Nets : (\E t \in Filters : e \in t.white) <=>
            e \in doc.white \/ \E i \in Known : e \in GroupAt(i).white
      BY <2>2
    <3>4. \A e \in Nets : (\E t \in Filters : e \in t.black) <=>
            e \in doc.black \/ \E i \in Known : e \in GroupAt(i).black
      BY <2>2
    <3>5. QED
      BY <3>1, <3>2, <3>3, <3>4
  <2>4. white \subseteq Nets /\ black \subseteq Nets
    BY <1>1 DEF Sound, TypeOK
  <2>5. QED
    BY <2>3, <2>4 DEF AdmitsAsConfigured, Allowed, Holds
<1>2. QED
  BY <1>1, SoundAlways, MergingAlways, PTL
=============================================================================
