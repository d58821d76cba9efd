# Verification of sftpd

TLA+ models of this SFTP server, the TLC configurations that check them and the
TLAPS proofs about them. Paths are relative to the repository; `config.go` is
`internal/config.go`, and so on.

## The system

| Part | State | Operations | Talks to |
|---|---|---|---|
| SSH sessions (`sftp.go`, `init.go`) | `sessions` (login -> connections), one goroutine per connection with its `*User` | accept, handshake and credential callbacks, `getUserByLogin`, `AddSession`, channel loop, `DeleteSession` | configuration (lookups), reloads (which close connections) |
| Configuration (`config.go`) | `config`, `userPubKeyMap`, the file | `LoadConfig`, `saveConfig`, `ExportConfig`, the three `getUserBy...` | everybody: `config` is replaced under `SFTPD.mutex` and read with and without it |
| Administration (`http.go`) | `config.HTTP.token`, `.username`, `.password` | `handleLogin`, `handleLogout`, `authWrapper`, `handleConfig` (GET, POST), `handleWeb` | configuration |
| Exec mappings (`handlers.go`) | `Mapping.output` of each user's record, the scripts that run | `Filewrite`, `Fileread` | the `*User` of its session, reloads (which replace it) |
| Directory mappings (`handlers.go`, `types.go`) | open files, the host's directories | `Fileread`, `Filewrite`, `Filecmd`, `Filelist` | the `*User` of its session |
| Process (`cmd/main.go`, `init.go`) | the process, its pid file, its privileges | fork, `New`, `Start`, the signal loop | configuration (SIGHUP) |
| Cipher (`pkg/cipher/aead.go`) | none | `Encrypt`, `Decrypt`, `IsEncrypted` | configuration |
| Filters (`config.go`, `types.go`, `http.go`) | none | `parseIPNetList`, `mergeIPNetLists`, `Allowed`, `isIPAllowed` | sessions, administration |
| Web page (`internal/web`) | a draft of the configuration in the browser | fetch, edit, post | administration |
| Logger, TLS certificate, random tokens, Makefile | none that matters here | | |

What is hard here is that one mutex guards every map but most operations take
it several times: each connection looks its user up and registers itself in two
sections, an update of the configuration preserves the token in one and puts it
back in another, and some reads take no lock at all. A reload may run in every
gap. It closes registered connections, replaces the configuration, and can
panic half-way; net/http recovers the panic, the signal loop does not. The file
is rewritten in place, and a document is completed from the configuration in
force, so that what a restart finds depends on what was exported and kept before.

What makes each part correct:

- sessions: the registry is what the handlers serve; limits hold whatever
  reloads do to them; a removed user is cut off; closed sessions give their
  slot back;
- configuration: blank credentials are kept, a dash removes a password, a
  restart restores what was in use, nothing secret is written in clear, the
  fingerprint map agrees with the users;
- administration: an update keeps the session, a logout ends it;
- exec mappings: a read returns what one's own run printed or a later one of
  another session, never an older output; a script cannot hold its client for ever;
- directory mappings: modes are enforced, an upload is stored whole, nothing
  is changed in a directory that is mapped read-only;
- mappings and filters: what a user gets does not depend on the order in which Go
  walks a map; an address is admitted as all the lists together say;
- listings: what can be read is listed, what cannot is not, and the pages are the
  listing;
- process: one start, one daemon, as the user it was told; the pid file names it; it
  can reload its file; no signal is lost for good, and nobody waits for ever;
- cipher: a text opens to itself.

## Modules

| Module | Models |
|---|---|
| `SessionLimit` | abstract: sessions open one by one under a limit, close, and all close when the limits are replaced |
| `Sessions` | `handleConn`, the registry, `LoadConfig` as sessions see it, on both paths and with its panics; implements `SessionLimit` |
| `AdminToken` | the administrator's token: logins, logouts, updates, SIGHUP |
| `Credentials` | abstract: the texts in use come from the document that is loaded, completed from those before; the file holds what was written there, the texts in use, or nothing |
| `ConfigStore` | documents, completion and sealing of credentials, the save, the export, restarts; implements `Credentials` |
| `ExecFiles` | exec mappings of one user: scripts, their output, the sessions that share it, reloads |
| `Uploads` | directory mappings: uploads in pieces, remove, rename, rmdir and mkdir, in directories that several mappings share |
| `Server` | one process: the mutex and who holds it, exports that clients read slowly, the signal loop and its channel, the file; connections and requests as the sections they are made of |
| `Daemon` | the processes on a host: the fork, the start and its failures, the pid file, the drop of privileges, the owner of the file |
| `View` | what a user sees: the merge of mappings and filters, admission by address, listings and their pages |
| `Framing` | the frame of a text under the cipher: length, padding, 16-bit arithmetic |
| `MC...` | small instances of each for TLC |
| `...Proofs` | theorems about each (`ConfigStoreProofs` has those about `Framing` too) |

`Server` is where the components of one process meet: it keeps, of `Sessions`,
`AdminToken` and `ConfigStore`, only where each goroutine is and which section it
asks for next, and adds what they leave out, the mutex as a thing that somebody
holds. `Daemon` contains that process as a few stages of one of several.

Definitions carry the names of the functions they model. A definition whose
comment begins with "Defect" is not part of a specification: it is a version
of the definition after it with a plausible bug, used to show that a property
notices that bug.

### Sessions

Every section that holds `SFTPD.mutex` is one action; everything between two
sections of one goroutine can interleave. `pc[c]` walks `idle` (not running),
`handshake` (in `NewServerConn`), `authed` (a callback put a login in
`Permissions`), `admitted` (`getUserByLogin` and `Allowed` passed) and `serving`
(registered, in the channel loop). The filter is evaluated on the record that
was looked up, and `AddSession` looks the login up again, as in the code. A
load closes what is registered at that moment; a handler notices when its loop
ends (`DeleteSession`). `badRoot` marks a user with a group whose mapping has a
root that cannot be opened: such a load panics (`Faulty`), which ends the
process on the signal path and leaves a partial fingerprint map on the web path.
Loads take a configuration as completed; `ConfigStore` is about the completion.
`Disconnect` and `Client` are the peers. Nothing is said here of what must happen: all
steps of a handler need the mutex, and who holds it and for how long is in `Server`.

Two things follow the Go semantics closely. A user with no credentials is
skipped before its filters are parsed, so that its record admits every address
(nobody can authenticate as that user, except in the window of a reload). Of
two users with one key, the iteration order of a Go map picks the owner, so
`KeyMaps` is a set.

### AdminToken

A request is a goroutine of net/http. The reads of `config.HTTP.username`,
`.password` and `.token` that the code makes without the mutex are steps of
their own. The token is a string, two words: `TornReaders` lets a read that
overlaps an assignment between no token and a token return the nil pointer with
the length of the token (`Torn`), the one mixture that is not an old or a new
value. `expected`, `overlapped` and `loggedOut` are history.

### ConfigStore

A secret is a pair of the JSON string (`Password`; blank, clear or sealed) and
the text in use (`password`). `Loaded` is what `LoadConfig` makes of a document
and of the configuration in force; `phase` goes through `saveConfig`, which
truncates and then writes. Because `LoadConfig` keeps the mutex until its save
ends, only `Exit` (a signal, a crash, a power cut) comes between. The cipher is
a frame of `Framing`: a sealed text opens to itself if its length fits (`Opened`), and
`SizeAssumption` says that it does, which excludes texts of 65534 bytes or more. The edits of the file by an
operator are taken not to overlap a save. One group stands for the groups; its
mapping is `open`, `missing` (its root cannot be opened) or `null`.

`Credentials` is the same without the cipher, the export and the mappings. The
texts in use are those of `conf` while a process runs (`inUseMap`), and the file
stands for what it says (`durableMap`, `Wanted`): a clear dash is the mark that
drops a password, anything else the text it opens to. A text that is a dash is
sealed like any other and comes back as a text, not as the mark. An export, a
failed save and a panic on the web are then invisible, and `ImplementsCredentials`
says that they are: only loads change what is in use, to what the document says.

### ExecFiles

The channels of one user's sessions share the `Mapping` of that user's record
(`LoadConfig` copies each mapping for each user), and a load makes a new record
without outputs, so `output` is indexed by record. A channel keeps the record it
was admitted with; as in `Sessions`, a load between the lookup and `AddSession`
leaves it on an old one. pkg/sftp hands the opens of one channel to the handler
one at a time and goes on with those it has queued when the connection closes;
`v.Mutex` belongs to one channel and orders nothing between two. `Filewrite`
covers the whole run: the process (`script`, which ends by itself or hangs until
`ExecTimeout`), a child of it that keeps its standard output (`forked`, for which
`CombinedOutput` waits although the script was killed), and the assignment. An
output is a slice; `Torn` is what a reader gets, or two writers leave, when the
words of two slices mix. The buffer of a command that was started is never nil
(`CombinedOutput`), so that a script that prints nothing leaves an empty text; only a
command that could not be started (`failed`) leaves the nil that `Fileread` answers
with "does not exist". `due` is history: what a channel that ran the script may read.

### Uploads

A client uploads one file or sends one command at a time. `Filewrite` makes the
directory of the file and `OpenFile` opens and truncates the file: two calls into
the host, between which other clients may act (`OpenFails`). The pieces are
written by pkg/sftp, in any order (`WriteAt`), and `Close` waits for them. A file
is an inode, so that an upload follows its file through a rename and outlives its
removal. `dirOf` says where mappings lead: two of them may share a directory, and
each has an `os.Root` of its own, which is what `Filecmd` compares before a rename.
`modeOf` may be a word that is neither `ro` nor `rw`, which `LoadConfig` accepts,
`Filewrite` lets through and `Filecmd` does not. All files are in one subdirectory
of the mapped directory, which may be missing; a piece counts as one write.
`disturbed` is history: another client opened, removed, renamed or wrote the file.

### Server

A section of `SFTPD.mutex` that cannot block is one action, enabled while nobody
holds the mutex. Two sections can block and take two steps with `holder` set:
`ExportConfig`, which encodes to the client's connection (config.go:289), and
`LoadConfig`, which saves (config.go:220) while the file is written by others.
`pc` says where each goroutine is: `handshake`, `credential`, `lookup`, `add`,
`serving`, `closed`, `jammed`, `delete` for a connection; `filter`, `token`, `settoken`, `export`, `writing`,
`load`, `saving` for a request; `receive`, `load`, `saving` for main. A signal is
`pending` in the kernel (equal ones merge), is handed to main's channel, and is
dropped if that is full. `edit`, `signalled` and `lost` are history: what an
operator wrote last and no load has read, whether SIGHUP was sent since, and
whether it was overwritten. `handleLogin` and `handleLogout` share `SetToken`;
what the token then is, is in `AdminToken`. A load that panics is in `Sessions`.
After a channel has asked for sftp, nobody reads its further requests (sftp.go:84-105):
a client that sends more than the SSH library buffers stops the multiplexer of its
connection, so that the loop over the channels does not end when the connection does.
Such a connection is `jammed` and stays so.

### Daemon

`pc` walks through `main`: `forking` and `exiting` until `Getppid` said 1, then
`read`, `save`, `pid`, `key`, `listen`, `drop`, `accept`, `notify`, `ready`. A
process can end at every one of them (`Kill`, which before `Notify` includes
SIGHUP) and its children then belong to init. Of a document three things count:
the user it names (`uidOf`), whether its key parses (`keyed`), and who can open
its directories (`dirOf`): root could at the start, the daemon on SIGHUP perhaps
not, and then the load dereferences nil (`HangupPanics`). `owner` is who can
open the file, whose mode is 0600. Group ids are taken to follow user ids, and
all documents to have one listen address. A document may name root, which is also what
an omitted `uid` decodes to. What the code goes on after may fail: opening, writing and
giving away the configuration file (`saveConfig`, `Save`), and writing the pid file
(`WritePid`). `named`, `crowded`, `strange` and `unwritten` are history. The last three
name the exemptions: a start that saved while another daemon lived, a file whose owner
is not the one that the start of a live daemon gave it, and a pid file that the last
start could not write.

### View

One user and its groups. `LoadConfig` is taken apart into the steps whose order
matters: all roots are opened (`OpenRoots`), the groups are merged in the order of
the user's CSV (`SkipGroup`, `MergeGroup`), the user's own mappings come last
(`CopyOwn`). No step reads what another goroutine could change meanwhile. A list
of addresses is a set of entries, some of which do not parse, and a network is the
set of its addresses. `Orders` is the iteration order of a Go map. `Readdir` gets the
names of a directory in batches and looks at each, while others change the directory
(`Change`): `left` are the names it is going to meet, one of which may be gone by then,
and one that appears may be met or not (`late`, once for each name). A name that is
replaced goes and comes, so that a changing name can be listed twice, which the code
does not prevent; one that stays cannot. `stayed`, `came` and `odd` are history. A
handler filters by the user of the configuration in force when its channel was opened
(`ids`, one of `RunAs`), which need not be that of the process (`uid`, `gid`); what is
promised is about the former. `Odd` is a mode in which a class may read what one before
it may not; `checkReadableStat` asks all classes, the kernel only the first that a user
is in (`CanRead`). Users and groups that the document has as
`null`, which stop every load, are left out.

### Framing

The lengths only, for `ConfigStore`, which extends it. In the code `Width` is 65536 and
`Align` is 128; the runs take 16 and 4. `OpensToItself` and `SizeTellsBlocks` speak of
no state: TLC evaluates them for all lengths up to 40, which wrap twice, as an
assumption of `MCConfigStore`, and they are theorems.

## Runs

| Run | Checks | Shows |
|---|---|---|
| `sessions` (`Sessions.cfg`) | `TypeOK`, `RegistryMatchesHandlers`, `LiveWithinLimit`, `RemovedUserHasNoSession`, `KeysOpenTheirLogin`, `StaleOnlyByAdmission`, `ImplementsSessionLimit` | three connections, two users, five configurations; the refinement; 295,952 states |
| `admin` (`AdminToken.cfg`) | `TypeOK`, `QuietUpdateKeepsToken` | three requests, two logins, 420,898 states |
| `config` (`ConfigStore.cfg`) | `TypeOK`, `RestartRestores`, `SecretsSealed`, `LoadsAsWritten`, `ImplementsCredentials` | seven documents, two users, three texts, the longest of which just fits its frame, 37,202 states |
| `exec` (`ExecFiles.cfg`) | `TypeOK`, `ReadsOwnOrLater`, `RunEnds` | two channels, one script that prints a text, prints nothing or cannot be started, one reload, 463,628 states |
| `uploads` (`Uploads.cfg`) | `TypeOK`, `QuietUploadIsWhole`, `ReadOnlyIsUntouched` | two clients, two directories, three mappings, two names, three files of up to two pieces, 1,214,829 states |
| `server` (`Server.cfg`) | `TypeOK`, `FileIsConfig`, `HangupNotLost`, `NobodyWaitsForEver`, `HandlersGoOn`, `HangupTakesEffect`, `TermIsHonoured` | a connection, a request, main with a channel of one signal, two documents, 109,456 states |
| `daemon` (`Daemon.cfg`) | `TypeOK`, `OneDaemonPerLaunch`, `ServesAsNamed`, `PidFileNamesServer`, `ServerCanReload` | three processes (interchangeable), two users and root, four documents, 567,185 states |
| `view` (`View.cfg`) | `TypeOK`, `MappingIsMerged`, `AdmitsAsConfigured`, `PagesAreTheListing`, `ListsTheDirectory`, `ListingEnds` | two groups and an unknown one, two names of mappings, two files that may be five things, pages of two, handlers of two users, 385,698 states |

Three connections are enough to have one session open, one being admitted and
one being refused under a limit of one, and two under a limit of two. The five
configurations change each thing a load can change: a user removed, a limit
lowered, a password or key moved to another user, credentials lost, a shared
key, a root missing. Three requests allow two updates that overlap with a login
or a logout between them. The seven documents cover each field clear, sealed,
blank and dashed, a user removed and brought back, and each state of a mapping.
Two channels meet in every overlap of `ExecFiles` (two runs, a run and a read)
and one reload gives two records; scripts of different names share nothing, and two
texts, one of them empty, tell an output from an older one.
Two clients, two names and three files let one client remove, replace or rename
what the other one uploads, over an older and longer file; of the two
directories one is mapped both ways and the other one only for reading.
In `server` the three actors are one of each kind; a channel of one signal is full
as soon as one waits in it, which sixteen would take many steps to reach; the
theorem about it is for every size. Three processes are enough for a start that
forks twice, for two starts that overlap and for a start beside a daemon; the four
documents name two users and root, one lacks a key and has directories that only the
other user can open. In `view` a user lists up to three names of groups, one of them twice or
unknown, and every combination of `ro`, `rw`, `exec`, missing and null mappings
meets the user's own; a listing has one to five entries: a short, a full and two full pages.

These runs show a disagreement between the code and what the repository says;
TLC finds the property violated:

| Run | Statement | What happens |
|---|---|---|
| `sessions_admission` | README.md:236 "reload the configuration without restarting" | the login is removed between lookup and `AddSession`, which dereferences nil (sftp.go:152) |
| `admin_logout` | http.go:332 "Invalidate the token in the server state" | an update in flight puts the token back |
| `config_null` | README.md:13 "Graceful config reload (SIGHUP)" | a missing root is saved as `null`, and the file panics the next load |
| `view_unreadable` | README.md:10 "Filters out symlinks, sockets, and unreadable files", handlers.go:306 | a file that others may read and its owner may not is listed to its owner (handlers.go:311-316) |

Behaviours that the models have, that nothing in the repository rules out, and
that an operator should know: a group's mapping whose root is missing stops the
server on SIGHUP (config.go:158) and only fails the request on the web; two
overlapping updates can leave the administrator without a session; a client that
asks for the configuration and does not read it stops the whole process, SIGTERM
included; a web update overwrites an edit of the file although SIGHUP was sent;
a second start that fails for its listener has already overwritten the pid file
and may have given the configuration file to another user; a daemon that cannot write
its pid file serves all the same, with no pid there or an old one; one whose start could
not open or give away its configuration file cannot read it after it dropped its rights,
which is only logged; a document that names no user, or 0, is served as root; a client
that jams its connection keeps its slot until the process ends; what a script printed is
lost at a reload, although README.md:197 speaks of "any subsequent read"; a name that
goes and comes while its directory is listed may be listed twice; a text of 65534 bytes
or more does not come back from the cipher.

## Fairness

Three modules have some. In `Server` it is strong fairness of each connection's handler
(`handleConn`), of each request's own steps and of main's: the sections of the mutex are
enabled again and again and not all the time, and `sync.Mutex` goes into its starvation
mode when a waiter has waited for a millisecond and then hands itself to the one that
waited longest. The rest of these steps needs no more than a scheduler that runs what
can run, deadlines that pass (`HandshakeFails`, sftp.go:14) and writes of the file that
end. The delivery of a signal is weakly fair. Clients and operators owe nothing, so that
the four liveness properties there carry the assumption they need: `ClientsRead`, each
client that asks for the configuration reads it sooner or later or goes away. The web
server sets no timeout, so that the code does not enforce it, and `ExportConfig` holds
the mutex that long. `HandlersGoOn` also exempts connections that their own client has
jammed: the end of their loop is not the server's to bring about.

In `ExecFiles` it is weak fairness of each channel's own next step. It covers the end of
a script, because the context kills it at `ExecTimeout`, but not the end of a child of
it: `RunEnds` exempts a run whose output a child holds; without the exemption TLC finds
one that never ends. `Sessions`, where a handler's steps need a mutex that the module
does not have, has no fairness.

In `View` the server's reading of a directory is weakly fair, and so is the client's
next question: `ListingEnds` is about a client that asks on. That a directory cannot
grow for ever while it is read is the bound `late`.

## Proofs

For any connections, users, configurations, requests, tokens, documents, channels,
scripts, mappings, groups, networks, directories, files, processes, sizes of main's
channel and of pages, users of handlers, and numbers of reloads, from the named
assumptions on the constants (finitely many connections; the marks for "none" differ
from the values they stand beside; the documents have their type):

- `SessionsProofs`: `TypeCorrect`; `RegistryExact`, `LimitHolds` and
  `RemovalHolds` from one invariant, `IInv`; `KeysAgree`; `StaleByAdmission`;
  `ImplementsLimit`; `AdmissionsSurvive` and `ClosedOnlyLeave`, which are below.
  Neither the limit nor the removal is inductive alone. `AddSession` compares
  the limit with what is registered and a load closes what is registered, so
  both need the registry to be exact; a new process may bring any limit because
  the old one left no handler behind (`Stopped`). The refinement maps a
  registration of an open connection to `Open`, the disconnection of a served
  one to `Close`, loads, crashes and starts to `Reconfigure`, and everything
  else to a stutter: by the time a handler deletes its session, the session was
  no longer live.
- `AdminTokenProofs`: `TypeCorrect`; `QuietUpdates`; `LogoutsHold`. The invariant
  adds what the first property does not say: a pending update holds the expected token, or another
  update is between its load and its restoration, and then whichever moves next
  is an overlap.
- `ConfigStoreProofs`: `TypeCorrect`, `RestartIsFaithful`, `FileIsSealed`,
  `LoadsFaithfully`, `ImplementsTexts`, `OpenRootsLoad`. The invariant says
  that the configuration in force is coherent (each string that is there opens to the text in use) and, while it
  is being saved, fresh (sealed, and blank only without a text). An export
  destroys freshness but keeps coherence, which is what the next load needs.
  The refinement is the same argument step by step. A load maps to `Start`,
  `Hangup` or `Update` because a coherent old credential is the text in use
  (`LoadGives`: keeping a string and keeping its text come to the same); a save maps
  to `Tear` and `Persist` because a fresh configuration, written out, says the texts
  in use (`SavedSays`: here a sealed dash must not read as a mark); an export keeps
  the texts (`ExportKeeps`), so it stutters.
- `ExecFilesProofs`: `TypeCorrect`, `OwnOrLaterIsRead`, `RunsAreAwaited`.
  The invariant says that what a record stores is due to each of its channels that ran
  the script (`DueStored`), and that a channel has no answer while it waits for a
  script. `SetOutputEffect` states once what an assignment does to its channel, to torn
  readers and to everybody else.
- `UploadsProofs`: `TypeCorrect`, `QuietUploadsAreWhole`, `ReadOnlyHolds`. The
  first invariant (`QuietIsHeld`) follows an undisturbed upload from its open: its
  name leads to the file it opened, which holds the pieces written and nothing
  else; that one file has one name keeps the other clients out of it. The second
  (`HandlesElsewhere`) says that nobody has a file of a read-only directory open,
  which a step needs as much as the mode of its mapping.
- `ServerProofs`: `TypeCorrect`, `FileFollowsConfig`, `HangupsAreKept`. The file can
  only differ from the configuration while somebody saves, and whoever saves holds
  the mutex; that a process that has ended leaves no holder behind is part of the
  invariant. A SIGHUP that finds the channel full is not lost, because a channel
  that holds anything holds a SIGHUP or a SIGTERM. `TermsKeepTheirPlace` is below.
- `DaemonProofs`: `TypeCorrect`, `OneDaemon`, `ServiceAsNamed`, `PidFileIsRight`,
  `ReloadIsPossible`. For `OneDaemon`, a start has at most one process that can
  still become a daemon: a parent that has spawned can only exit. For the last two,
  an exemption that does not hold yet means that no other process has saved.
- `ViewProofs`: `TypeCorrect`, `MappingsMerge`, `FiltersMerge`, `PagesAreWhole`,
  `DirectoryIsListed`, `ListingsAdvance`. The merge is proved by what it is after k groups
  (`FromGroups`), for each k; the filters by the same walk; the listing by what it
  holds of the names that stayed, whichever user a handler filters for. What the kernel
  lets a user read satisfies `checkReadableStat`, and what that lets through beside it
  has an odd mode (`ListedIsReadable`).
- `ConfigStoreProofs` also has `FramesOpen` and `SizesAreBlocks`, for any width and
  alignment: a text of length n opens to itself if and only if n < Width - 2, and a
  frame is the smallest number of blocks that holds the text and its length. What
  `ConfigStore` says of secrets rests on the first.

Four of these say how far each disagreement reaches that the runs show, and that
nothing else leads to it. `AdmissionsSurvive`: if all configurations have the same
logins (`SameLogins`), `AddSession` never dereferences nil, whatever loads, panics
and handlers interleave; TLC's counterexample removes a login. `LogoutsHold`: a
token that was logged out is in force again only after an update overlapped another
change of the token. `OpenRootsLoad`: if no document has a null mapping or a missing
root (`RootsOpen`), no load panics in any order of loads, saves and edits.
`DirectoryIsListed`: what a listing has and its user cannot read is of an odd mode.
The two hypotheses are about the documents an operator uses, not about schedules:
they hold where passwords and limits are edited and nothing else. `LogoutsHold` has
none, and says instead what must have happened.

The temporal properties `HandlersGoOn`, `RunEnds`, `NobodyWaitsForEver`, `HangupTakesEffect`, `TermIsHonoured` and `ListingEnds` are
checked by TLC only: liveness under fairness is out of the prover's reach, and so is
ENABLED, which says that the step that makes progress can be taken. Of four of them the
safety half is proved, that nothing takes away what was reached on the way:

- `ClosedOnlyLeave` (`HandlersGoOn`, in `Sessions`): a closed session keeps its slot until its
  own handler returns, and nothing opens it again;
- `RunsAreAwaited` (`RunEnds`): a run is left only when the script and its children
  have ended, and waits with the record it was started on through disconnections,
  reloads and runs of other sessions;
- `ListingsAdvance` (`ListingEnds`): what is left to look at, and then what is left to
  send, shrinks with each step of `Readdir` and `ReadPage`, and each name adds to it once;
- `TermsKeepTheirPlace` (`TermIsHonoured`): in a channel of any size a SIGTERM only
  moves towards the head, and only the end of the process removes it.

Every safety property of the runs that pass has a theorem. The halves above, and the
complements of the disagreements, are stated in the proof modules only; they speak of
the same `Spec`.

## Not modelled

- The web page (`internal/web`): the drafts of the Vue application. It is not Go, what
  it posts is what `Update` takes from `Docs`, and templates and styles are layout.
- `handleWeb` beyond its two sections of the mutex: it serves embedded files.
- `DropLogin` and `updateActivity`, which nothing calls.
- Downloads from directories and the stat of a path: one read of the host each.
- The logger, the TLS certificate, the token generator and the Makefile: no state
  that another part depends on.
- Cryptography, SSH, SFTP packets, HTTP and JSON: libraries. A file that holds the
  JSON text `null`, and users or groups that are `null`, panic every load, as the
  null mappings do that are modelled.

## Plan

1. `Sessions`, `SessionLimit`, `AdminToken`, `ConfigStore`, `ExecFiles`, `Uploads`,
   `Server`, `Daemon`, `View` and `Framing`, with their proofs: done.
2. `Credentials`, which `ConfigStore` implements; the complements of the
   disagreements; a UID in `View` that differs from that of the process: done.
3. To add: downloads that race with uploads, and renames of directories, in
   `Uploads`.
4. To prove: the step properties that lead to `HandlersGoOn`, `NobodyWaitsForEver`
   and `HangupTakesEffect`, as is done for the other four temporal ones.
