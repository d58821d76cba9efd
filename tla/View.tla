-------------------------------- MODULE View --------------------------------
(***************************************************************************)
(* What a user gets to see: LoadConfig merges the filters and mappings of  *)
(* the user's groups with its own, a connection is admitted by the result, *)
(* and its session lists the root, the exec mappings and the directories.  *)
(*                                                                         *)
(* One user, who has a credential.  Lists of networks are sets: nothing    *)
(* but the length depends on their order.  The loop that splits the CSV of *)
(* group names and the one that merges the groups are one here.  A session *)
(* keeps its record; what a load does to open sessions is in Sessions.     *)
(***************************************************************************)
EXTENDS Naturals, Sequences, FiniteSets

CONSTANTS
  Names,     \* names of mappings
  Groups,    \* names of groups, those that no document defines included
  Entries,   \* what a CSV of addresses may hold
  Nets,      \* the entries that parse as an address or a network
  addrsOf,   \* the addresses of a network
  Addrs,     \* client addresses
  Paths,     \* paths of mappings
  openable,  \* those that os.OpenRoot opens
  Docs,      \* documents, as far as the user is concerned
  NoGroup, NoMapping, NoDoc,
  Null,      \* a nil *Mapping
  Files,     \* names in a directory
  Inodes,    \* what a name may stand for
  Absent,    \* the name is not there
  Parent,    \* ".."
  uid, gid,  \* of the process
  RunAs,     \* the <<UID, GID>> of the configurations that may be in force
  Page       \* how many entries are asked for at a time

Mapping == [mode : {"ro", "rw", "exec"}, path : Paths]
Table   == [Names -> Mapping \cup {NoMapping, Null}]
Group   == [white : SUBSET Entries, black : SUBSET Entries, mapping : Table]
Doc     == [list : Seq(Groups), groups : [Groups -> Group \cup {NoGroup}],
            white : SUBSET Entries, black : SUBSET Entries, own : Table]
Inode   == [kind : {"file", "dir", "other"}, owner : Nat, group : Nat,
            bits : SUBSET {"owner", "group", "others"}]

ASSUME NetsAssumption  == Nets \subseteq Entries /\ addrsOf \in [Nets -> SUBSET Addrs]
ASSUME DocsAssumption  == Docs \subseteq Doc
ASSUME InodeAssumption == Inodes \subseteq Inode
ASSUME RunAsAssumption == <<uid, gid>> \in Nat \X Nat /\ RunAs \subseteq Nat \X Nat
ASSUME PageAssumption  == Page \in Nat \ {0}
ASSUME FilesAssumption == IsFiniteSet(Files) /\ IsFiniteSet(Names)
ASSUME MarksAssumption == /\ {NoMapping, Null} \cap Mapping = {} /\ NoMapping # Null
                          /\ NoGroup \notin Group /\ NoDoc \notin Doc /\ Absent \notin Inode
                          /\ Parent \notin Files \cup Names

VARIABLES
  stage,     \* how far the load, the session or its listing is
  doc,       \* the document of the load
  next,      \* the position in user.Groups that is merged next
  white,     \* user.Filter.whitelist
  black,     \* user.Filter.blacklist
  ids,       \* uid and gid of the handler
  mapping,   \* user.mapping
  disk,      \* the directory that is read
  left,      \* the names that Readdir is going to meet
  infos,     \* the listing that the ListerAt closes over
  off,       \* the offset of the next page
  received,  \* what the client got
  late,      \* the names that appeared where Readdir had yet to come
  stayed,    \* history: entries that were there, and readable, all the time
  came,      \* history: entries that were readable at some time
  odd        \* history: entries of an odd mode, at some time

loadVars == <<doc, next, white, black, ids>>
dirVars  == <<disk, left, late, stayed, came, odd>>
listVars == <<infos, off, received>>
vars     == <<stage, loadVars, mapping, dirVars, listVars>>

-----------------------------------------------------------------------------
(* LoadConfig.                                                             *)

parseIPNetList(csv) == csv \cap Nets

(* Whatever ends a load or a session leaves nothing for the next one.      *)
Reset ==
  /\ stage' = "idle" /\ doc' = NoDoc /\ next' = 1 /\ white' = {} /\ black' = {}
  /\ ids' = <<uid, gid>>
  /\ mapping' = [n \in Names |-> NoMapping]

Load(d) ==
  /\ stage = "idle"
  /\ stage' = "roots"
  /\ doc' = d
  /\ UNCHANGED <<next, white, black, ids, mapping, dirVars, listVars>>

Holes(g) == doc.groups[g] # NoGroup /\ \E n \in Names : doc.groups[g].mapping[n] = Null

Opened(m) ==
  IF m \in Mapping /\ m.mode # "exec" /\ m.path \notin openable THEN Null ELSE m

OpenGroup(g) ==
  IF g = NoGroup THEN g
  ELSE [g EXCEPT !.mapping = [n \in Names |-> Opened(g.mapping[n])]]

(* The roots of all groups are opened, whoever is in them; the user's own  *)
(* filters are parsed.                                                     *)
OpenRoots ==
  /\ stage = "roots"
  /\ \A g \in Groups : ~Holes(g)
  /\ doc' = [doc EXCEPT !.groups = [g \in Groups |-> OpenGroup(doc.groups[g])]]
  /\ white' = parseIPNetList(doc.white)
  /\ black' = parseIPNetList(doc.black)
  /\ stage' = "groups"
  /\ UNCHANGED <<next, ids, mapping, dirVars, listVars>>

Seen(i) == \E j \in 1..(i - 1) : doc.list[j] = doc.list[i]

(* A name that was seen before, or that no group has, is passed over.      *)
SkipGroup ==
  /\ stage = "groups" /\ next \in DOMAIN doc.list
  /\ Seen(next) \/ doc.groups[doc.list[next]] = NoGroup
  /\ next' = next + 1
  /\ UNCHANGED <<stage, doc, white, black, ids, mapping, dirVars, listVars>>

(* Defect: no group overrides the ones before it.                          *)
MergedFirst(old, m) == IF m # NoMapping /\ old = NoMapping THEN m ELSE old

(* An exec mapping takes the name from whatever had it, another mapping    *)
(* only takes a name that is free.                                         *)
Merged(old, m) == IF m # NoMapping /\ (m.mode = "exec" \/ old = NoMapping) THEN m ELSE old

(* Defect: the filters of the groups only count for users without own.     *)
MergeGroupDefaults ==
  /\ stage = "groups" /\ next \in DOMAIN doc.list
  /\ ~Seen(next)
  /\ LET g == doc.groups[doc.list[next]]
     IN  /\ g # NoGroup
         /\ \A n \in Names : g.mapping[n] # Null
         /\ white' = IF white = {} THEN parseIPNetList(g.white) ELSE white
         /\ black' = IF black = {} THEN parseIPNetList(g.black) ELSE black
         /\ mapping' = [n \in Names |-> Merged(mapping[n], g.mapping[n])]
  /\ next' = next + 1
  /\ UNCHANGED <<stage, doc, ids, dirVars, listVars>>

MergeGroup ==
  /\ stage = "groups" /\ next \in DOMAIN doc.list
  /\ ~Seen(next)
  /\ LET g == doc.groups[doc.list[next]]
     IN  /\ g # NoGroup
         /\ \A n \in Names : g.mapping[n] # Null
         /\ white' = white \cup parseIPNetList(g.white)
         /\ black' = black \cup parseIPNetList(g.black)
         /\ mapping' = [n \in Names |-> Merged(mapping[n], g.mapping[n])]
  /\ next' = next + 1
  /\ UNCHANGED <<stage, doc, ids, dirVars, listVars>>

(* Defect: a mapping that cannot be opened is put there all the same.      *)
CopyOwnUnopened ==
  /\ stage = "groups" /\ next \notin DOMAIN doc.list
  /\ \A n \in Names : doc.own[n] # Null
  /\ mapping' = [n \in Names |-> IF doc.own[n] = NoMapping THEN mapping[n]
                                 ELSE Opened(doc.own[n])]
  /\ stage' = "loaded"
  /\ UNCHANGED <<loadVars, dirVars, listVars>>

(* The user's own mappings come last; one that cannot be opened is left    *)
(* out, so that a group's of that name stays.                              *)
CopyOwn ==
  /\ stage = "groups" /\ next \notin DOMAIN doc.list
  /\ \A n \in Names : doc.own[n] # Null
  /\ mapping' = [n \in Names |-> IF Opened(doc.own[n]) \in {NoMapping, Null} THEN mapping[n]
                                 ELSE doc.own[n]]
  /\ stage' = "loaded"
  /\ UNCHANGED <<loadVars, dirVars, listVars>>

(* A nil mapping is dereferenced: one that the document has, or one of a   *)
(* group of the user that could not be opened.                             *)
LoadPanics ==
  /\ \/ stage = "roots" /\ \E g \in Groups : Holes(g)
     \/ stage = "groups" /\ IF next \in DOMAIN doc.list
                            THEN ~Seen(next) /\ Holes(doc.list[next])
                            ELSE \E n \in Names : doc.own[n] = Null
  /\ Reset
  /\ UNCHANGED <<dirVars, listVars>>

-----------------------------------------------------------------------------
(* The session.                                                            *)

Allowed(a) ==
  /\ \A e \in black : a \notin addrsOf[e]
  /\ white = {} \/ \E e \in white : a \in addrsOf[e]

(* The filter and the document are not looked at again.  The handler runs  *)
(* as the configuration says that is in force when the channel is opened:  *)
(* a load may have come since, or the process was started with another.    *)
Connect(a) ==
  /\ stage = "loaded"
  /\ Allowed(a)
  /\ stage' = "session" /\ doc' = NoDoc /\ next' = 1 /\ white' = {} /\ black' = {}
  /\ ids' \in RunAs
  /\ UNCHANGED <<mapping, dirVars, listVars>>

(* The session ends, or nobody comes before the next load.                 *)
Leave ==
  /\ stage \in {"loaded", "session"}
  /\ Reset
  /\ UNCHANGED <<dirVars, listVars>>

Plain(n) == mapping[n] # NoMapping /\ mapping[n].mode # "exec"

Orders(S) == {s \in [1..Cardinality(S) -> S] : \A x \in S : \E i \in DOMAIN s : s[i] = x}

Answer(listing) ==
  /\ stage' = "paging"
  /\ infos' = listing
  /\ UNCHANGED <<loadVars, mapping, dirVars, off, received>>

(* "/": the mappings but the exec ones, in the order of a Go map.          *)
FilelistRoot ==
  /\ stage = "session"
  /\ \E s \in Orders({n \in Names : Plain(n)}) : Answer(s)

(* An exec mapping, or a file in a directory.                              *)
FilelistOne(n) ==
  /\ stage = "session"
  /\ mapping[n] # NoMapping
  /\ IF mapping[n].mode = "exec" THEN Answer(<<n>>) ELSE \E f \in Files : Answer(<<f>>)

checkReadableStat(x) ==
  \/ ids[1] = 0
  \/ ids[1] = x.owner /\ "owner" \in x.bits
  \/ ids[2] = x.group /\ "group" \in x.bits
  \/ "others" \in x.bits

(* What the kernel lets a process read by its user and group.              *)
CanRead(u, g, x) ==
  u = 0 \/ IF u = x.owner THEN "owner" \in x.bits
           ELSE IF g = x.group THEN "group" \in x.bits ELSE "others" \in x.bits

Ordinary(x) == x # Absent /\ x.kind \in {"file", "dir"}

(* For the user that the configuration names.                              *)
Readable(x) == Ordinary(x) /\ CanRead(ids[1], ids[2], x)

(* Others may read what the group may not, or the group what its owner may *)
(* not: the kernel only asks the first class that a user is in.            *)
Odd(x) == /\ Ordinary(x)
          /\ \/ "group" \in x.bits /\ "owner" \notin x.bits
             \/ "others" \in x.bits /\ ~({"owner", "group"} \subseteq x.bits)

(* Readdir gets the names in batches, in no order; stat and open before    *)
(* that change nothing, nor does their failure.                            *)
FilelistDir(n) ==
  /\ stage = "session" /\ Plain(n)
  /\ \E d \in [Files -> Inodes \cup {Absent}] :
       /\ disk' = d
       /\ left' = {f \in Files : d[f] # Absent}
       /\ stayed' = {f \in Files : Readable(d[f])}
       /\ came' = {f \in Files : Readable(d[f])}
       /\ odd' = {f \in Files : Odd(d[f])}
  /\ late' = {}
  /\ infos' = <<Parent>>
  /\ stage' = "reading"
  /\ UNCHANGED <<loadVars, mapping, off, received>>

(* Defect: a name that is gone ends the reading.                           *)
LstatStops(f) ==
  /\ stage = "reading" /\ f \in left
  /\ left' = IF disk[f] = Absent THEN {} ELSE left \ {f}
  /\ infos' = IF Ordinary(disk[f]) /\ checkReadableStat(disk[f]) THEN Append(infos, f) ELSE infos
  /\ UNCHANGED <<stage, loadVars, mapping, disk, late, stayed, came, odd, off, received>>

(* Readdir looks at one name after the other; one that is gone is passed   *)
(* over, and so is what is not a file, not a directory or not readable.    *)
Lstat(f) ==
  /\ stage = "reading" /\ f \in left
  /\ left' = left \ {f}
  /\ infos' = IF Ordinary(disk[f]) /\ checkReadableStat(disk[f]) THEN Append(infos, f) ELSE infos
  /\ UNCHANGED <<stage, loadVars, mapping, disk, late, stayed, came, odd, off, received>>

(* Another client, or a script, changes the directory: a name goes, comes  *)
(* or changes its mode or owner; one that is replaced goes and comes.  One *)
(* that goes is met all the same if it is in the batch at hand, and one    *)
(* that comes is met or not: it may be met again.  Bound: each name is met *)
(* once more at most.                                                      *)
Change(f, x) ==
  /\ stage = "reading"
  /\ x # disk[f]
  /\ {x, disk[f]} \subseteq Inodes => x.kind = disk[f].kind
  /\ disk' = [disk EXCEPT ![f] = x]
  /\ stayed' = {g \in stayed : Readable(disk'[g])}
  /\ came' = came \cup {g \in Files : Readable(disk'[g])}
  /\ odd' = odd \cup {g \in Files : Odd(disk'[g])}
  /\ \/ UNCHANGED <<left, late>>
     \/ x = Absent /\ left' = left \ {f} /\ late' = late
     \/ /\ disk[f] = Absent /\ f \notin left \cup late
        /\ left' = left \cup {f} /\ late' = late \cup {f}
  /\ UNCHANGED <<stage, loadVars, mapping, listVars>>

DirectoryRead ==
  /\ stage = "reading" /\ left = {}
  /\ stage' = "paging"
  /\ disk' = [f \in Files |-> Absent] /\ late' = {}
  /\ UNCHANGED <<loadVars, mapping, left, listVars, stayed, came, odd>>

CloseHandle ==
  /\ stage' = "session"
  /\ disk' = [f \in Files |-> Absent]
  /\ left' = {} /\ late' = {} /\ stayed' = {} /\ came' = {} /\ odd' = {}
  /\ infos' = <<>> /\ off' = 0 /\ received' = <<>>
  /\ UNCHANGED <<loadVars, mapping>>

(* An lstat fails for another reason than that the name is gone.           *)
ReaddirFails == stage = "reading" /\ CloseHandle

(* Defects: the end is reported one entry early; it is not reported.       *)
ListAtShort(o) ==
  LET n == IF Len(infos) - o < Page THEN Len(infos) - o ELSE Page
  IN  IF o + 1 >= Len(infos) THEN [page |-> <<>>, eof |-> TRUE]
      ELSE [page |-> SubSeq(infos, o + 1, o + n), eof |-> o + n >= Len(infos)]

ListAtOpen(o) ==
  LET n == IF Len(infos) - o < Page THEN Len(infos) - o ELSE Page
  IN  [page |-> SubSeq(infos, o + 1, o + n), eof |-> FALSE]

ListAt(o) ==
  LET n == IF Len(infos) - o < Page THEN Len(infos) - o ELSE Page
  IN  IF o >= Len(infos) THEN [page |-> <<>>, eof |-> TRUE]
      ELSE [page |-> SubSeq(infos, o + 1, o + n), eof |-> o + n >= Len(infos)]

(* The client asks until a page is empty and the end is reported; pkg/sftp *)
(* counts what it passed on.                                               *)
ReadPage ==
  /\ stage = "paging"
  /\ LET r == ListAt(off)
     IN  /\ off' = off + Len(r.page)
         /\ received' = received \o r.page
         /\ stage' = IF r.page = <<>> /\ r.eof THEN "listed" ELSE "paging"
  /\ UNCHANGED <<loadVars, mapping, dirVars, infos>>

Close == stage \in {"paging", "listed"} /\ CloseHandle

-----------------------------------------------------------------------------
Init ==
  /\ stage = "idle" /\ doc = NoDoc /\ next = 1 /\ white = {} /\ black = {}
  /\ ids = <<uid, gid>>
  /\ mapping = [n \in Names |-> NoMapping]
  /\ disk = [f \in Files |-> Absent]
  /\ left = {} /\ late = {} /\ stayed = {} /\ came = {} /\ odd = {}
  /\ infos = <<>> /\ off = 0 /\ received = <<>>

LoadConfig == OpenRoots \/ SkipGroup \/ MergeGroup \/ CopyOwn \/ LoadPanics

Filelist == FilelistRoot \/ \E n \in Names : FilelistOne(n) \/ FilelistDir(n)

Readdir == DirectoryRead \/ ReaddirFails \/ \E f \in Files : Lstat(f)

Next ==
  \/ \E d \in Docs : Load(d)
  \/ LoadConfig
  \/ \E a \in Addrs : Connect(a)
  \/ Leave
  \/ Filelist \/ Readdir
  \/ \E f \in Files, x \in Inodes \cup {Absent} : Change(f, x)
  \/ ReadPage \/ Close

(* The server works on, and a client that lists a directory asks on until  *)
(* the end or closes.                                                      *)
Spec == Init /\ [][Next]_vars /\ WF_vars(Readdir) /\ WF_vars(ReadPage)

-----------------------------------------------------------------------------
(* Correctness.                                                            *)

Stages == {"idle", "roots", "groups", "loaded", "session", "reading", "paging", "listed"}

Users == RunAs \cup {<<uid, gid>>}

TypeOK ==
  /\ stage \in Stages
  /\ doc \in IF stage \in {"roots", "groups", "loaded"} THEN Doc ELSE {NoDoc}
  /\ next \in Nat \ {0}
  /\ white \subseteq Nets /\ black \subseteq Nets
  /\ ids \in Users
  /\ mapping \in [Names -> Mapping \cup {NoMapping}]
  /\ disk \in [Files -> Inodes \cup {Absent}]
  /\ left \subseteq Files /\ late \subseteq Files
  /\ stayed \subseteq Files /\ came \subseteq Files /\ odd \subseteq Files
  /\ infos \in Seq(Files \cup Names \cup {Parent})
  /\ off \in 0..Len(infos)
  /\ received \in Seq(Files \cup Names \cup {Parent})

(* The groups that count, by the place of their first mention.             *)
Counts(i) == i \in DOMAIN doc.list /\ ~Seen(i) /\ doc.groups[doc.list[i]] # NoGroup
GroupAt(i) == doc.groups[doc.list[i]]

Maps(i, n)  == Counts(i) /\ GroupAt(i).mapping[n] # NoMapping
Execs(i, n) == Maps(i, n) /\ GroupAt(i).mapping[n].mode = "exec"

(* m is what the groups before position k make of the name n: the last     *)
(* exec mapping if there is one, the first mapping otherwise.              *)
FromGroups(n, k, m) ==
  \/ \E i \in 1..(k - 1) : /\ Execs(i, n) /\ m = GroupAt(i).mapping[n]
                           /\ \A j \in 1..(k - 1) : Execs(j, n) => j <= i
  \/ /\ \A i \in 1..(k - 1) : ~Execs(i, n)
     /\ \E i \in 1..(k - 1) : /\ Maps(i, n) /\ m = GroupAt(i).mapping[n]
                              /\ \A j \in 1..(k - 1) : Maps(j, n) => i <= j
  \/ (\A i \in 1..(k - 1) : ~Maps(i, n)) /\ m = NoMapping

OwnOpens(n) == doc.own[n] \in Mapping /\ (doc.own[n].mode = "exec" \/ doc.own[n].path \in openable)

(* The mapping a user gets under each name does not depend on the order in *)
(* which Go walks its maps: its own if that can be opened, else the last   *)
(* exec mapping of its groups, else the first of them.                     *)
MappingIsMerged ==
  stage = "loaded" =>
    \A n \in Names : IF OwnOpens(n) THEN mapping[n] = doc.own[n]
                     ELSE FromGroups(n, Len(doc.list) + 1, mapping[n])

(* The filters that a user is under: its own and those of its groups.      *)
Known   == {i \in DOMAIN doc.list : doc.groups[doc.list[i]] # NoGroup}
Filters == {[white |-> doc.white, black |-> doc.black]}
             \cup {[white |-> GroupAt(i).white, black |-> GroupAt(i).black] : i \in Known}

Holds(csv, a) == \E e \in csv \cap Nets : a \in addrsOf[e]

(* An address is admitted if no filter has it on its blacklist and, should *)
(* any of them have a whitelist with an entry that parses, one of those    *)
(* lists it.  A group without a whitelist opens nothing, and lists of      *)
(* which nothing parses are no lists (config.go:345).                      *)
AdmitsAsConfigured ==
  stage = "loaded" =>
    \A a \in Addrs :
      Allowed(a) <=> /\ \A s \in Filters : ~Holds(s.black, a)
                     /\ \/ \A s \in Filters : s.white \cap Nets = {}
                        \/ \E s \in Filters : Holds(s.white, a)

(* The pages are the listing, every entry once and in order, and the end   *)
(* is reported after the last entry, be the last page full, short or the   *)
(* listing empty.                                                          *)
PagesAreTheListing ==
  /\ received = SubSeq(infos, 1, off)
  /\ stage = "listed" => off = Len(infos)

Lists(f) == \E i \in DOMAIN infos : infos[i] = f

(* Whatever changes in a directory while it is listed: an entry that is    *)
(* there and readable all the time is listed, once; and what is listed was *)
(* a file or directory there at some time that the user of the handler may *)
(* read, or one of an odd mode: handlers.go:311 asks all classes.          *)
ListsTheDirectory ==
  infos # <<>> /\ infos[1] = Parent =>
    /\ \A f \in stayed : f \in left \/ Lists(f)
    /\ \A i \in 2..Len(infos) :
         /\ infos[i] \in came \cup odd
         /\ infos[i] \in stayed => \A j \in 2..Len(infos) : infos[i] = infos[j] => i = j

(* README.md:10: unreadable files are filtered out, and the comment at     *)
(* handlers.go:306.  An odd mode lists what the user cannot read.          *)
OnlyReadableIsListed ==
  infos # <<>> /\ infos[1] = Parent => \A i \in 2..Len(infos) : infos[i] \in came

(* A client that asks on gets to the end of its listing.                   *)
ListingEnds == stage \in {"reading", "paging"} ~> stage \in {"listed", "session"}
=============================================================================
