# A TLA+ model of the torrent-based file sharing system

The system is a pair of trackers that keep accounts, groups and shares in text
files, and peers that exchange files in chunks. This directory models it in
TLA+, checks the models with TLC and proves most of their safety properties with
TLAPS. `PROJECT.json` ties every definition to the lines it models, every
property to a run, and every hazard to the properties that would notice it.

## The system

| Component | State | Operations | Where it is hard |
|---|---|---|---|
| Tracker registry, `tracker/tracker.cpp` | files under `.all_files`; global maps copied from four of them | 21 commands, one thread each (`TrackerKernel`) | some handlers decide from maps that only other handlers reload; a share is recorded in two files; `add_file` and `complete` have no reply |
| Replication, `tracker/trackersync.cpp` | the same files on both trackers | `Sync` after every write, `SyncRecv`, `SyncAll` at startup | concurrent pushes of one file, crashes in a push, the accept loop that joins its threads, startup order |
| Download, `peer/peerdownload.cpp` | the file, `filechunks_map`, one thread per chunk | `DownloadFile`, `CalcChunk`, `GetChunks`, `DownloadKernel` | retries, seeders that come and go or are downloading themselves, threads writing next to each other |
| Peer server, `peer/peerserver.cpp` | `filechunks_map`, open files | `chunk_numbers`, `send_chunk` | answers about a file while it is being downloaded; a tracker looked for and asked for every chunk |
| Peer command line, `peer/peer.cpp` | `login_flag`, `username`, the tracker in use | the user's commands | a tracker chosen before each command, gone before it is used; lost replies; sockets never closed |
| Handler threads and `file_lock` | one mutex, shared globals, `.temp.txt` | every handler | unlocked reads, check-then-write in two critical sections, a stray unlock, a crash in a rewrite |
| TLS framing, `common/tls.cpp` | - | length-prefixed and raw messages | messages and blocks of several records, connections cut or reset |

Peers and trackers interact by one request per TLS connection; trackers push
files to each other over the same port; peers ask each other for chunks over
plain TCP. A peer blocks in a command until it is over, while its server thread
goes on answering other peers.

What makes each component correct: the registry's files agree with each other
and with the maps, and nobody enters a group without being accepted; the two
trackers' files become equal and no answered request is lost; a download gets
every chunk as long as a seeder is there, records only chunks that match, ends,
and reports what is true; handlers that run together lose nothing of each other's
and all end; a peer tells its user the truth, finds a tracker that is up and does
not end without a cause; a message arrives whole or not at all.

## Modules

| Module | What it is |
|---|---|
| `Membership` | abstract specification of groups: create, ask, admit, leave |
| `Tracker` | one tracker and the peers' sessions and downloads |
| `TrackerProofs` | theorems about `Tracker` |
| `MCTracker` | instances of `Tracker` |
| `TrackerSync` | the two trackers' files and pushes |
| `TrackerSyncProofs` | theorems about `TrackerSync` |
| `MCTrackerSync` | instances of `TrackerSync` |
| `Download` | a file spreading among peers |
| `DownloadProofs` | theorems about `Download` |
| `NaturalSets` | induction for sets of naturals, for the proofs |
| `MCDownload` | instances of `Download` |
| `Handlers` | the handler threads of one tracker, split at `file_lock` |
| `HandlersProofs` | theorems about `Handlers` |
| `MCHandlers` | an instance of `Handlers` |
| `Session` | a peer's command loop and chunk server between two trackers |
| `SessionProofs` | theorems about `Session` |
| `Transfer` | abstract specification of a push: whole request, prefix, whole file |
| `Stream` | one TLS connection with its records, blocks and acknowledgements |
| `StreamProofs` | theorems about `Stream` |

The modules look at the same code at different grains. `Tracker` has what every
request means, one at a time; `Handlers` has the same handlers step by step, with
less meaning; `TrackerSync` has only the pushes they cause; `Session` has two
trackers that handle a request and its pushes in one step; `Stream` is one
connection of a push.

Definitions called *Variant* are deliberately wrong forms of an operation; each
is paired in `PROJECT.json` with the property it breaks.

### Tracker

The files are functions or sets of lines, the maps separate variables.
`FetchDetails` copies files to maps; whether a handler does it first, last or
never is kept as in the code. A handler is one action: requests are served one
at a time, and the sibling is down, so that `Sync` does nothing. A file is a set
of lines: the order of lines and the number of equal ones matter to none of the
handlers, which look for the first match, delete all matches, or collect a set;
where "the first" could differ the action chooses any. Commands that are refused
change nothing and are not actions, unless the refusing handler reloads the maps.

The peer's side is its session and how far `DownloadFile` has got with the
tracker: `located` after `give_sha`, `fetching` after `give_seeders`. `notices`
holds the `add_file` and `complete` messages that were sent and not yet handled;
a tracker restart loses them. Two equal notices under way are kept as one:
handling the second of two would change nothing.

### TrackerSync

What the requests mean is gone; a file is a sequence of bytes, and a byte is the
number of the request that wrote its line, with its place in the line. Lines have
lengths of their own (`Width`), so that a shorter content written over a longer one
leaves the tail of the longer one behind it, which may begin inside a line. A push is followed through `fopen` and probe,
connect, the receiver's truncation, the exchange, "Sync Over", and the receiver's
`close`, with other threads running in between. The accept loops count
connections and join after `Batch` of them (51 in the code). `DeleteLine` puts a
new file in place of the old one: who had the old one open keeps reading or
writing it (`replaced`, `linked`). `Stop` is the end of a process seen from both
sides; `stuck` marks a `SyncRecv` whose sender is gone. `SyncAllLost` is a starting
tracker's request for the dump that the reset of its own early close has discarded.

Assumed: files fit one exchange (65535 bytes).

### Download

One file. A chunk on a disk is two booleans: whether its first 1024 bytes and
whether the rest are right. The seeder sends 1024 bytes more than a chunk and the
receiver writes what the last `recv` returns, so a thread may write a part of the
next chunk's first block; the model lets it happen or not. Seeders are polled one
after the other, sorted and chosen as `my_comp`, `populate` and `Decide` do it,
with `std::sort` as the insertion sort it is for 16 elements or fewer. A seeder
number of -1 is read out of bounds: the process dies or connects to nobody. The
tracker appears only as the set `listed` and the path it knows of each sharer. A
seeder that dies after it was asked for its chunks leaves an empty answer, which
`split2` and `atoi` turn into chunk 0. Any user among `Leechers` may download at any
time and to any of `Paths`, also what he shares or has: `SendSeeders` does not leave
the requester out, so a peer can be its own seeder, and the file it is to send may be
the one it has just filled with placeholders.

### Handlers

A handler is a sequence of steps (`UserLogin(u)`, `GroupJoin(g, u)`, ...) and a
thread a position in one. What a handler does between lock and unlock is one step
unless it replaces a file: copy to `.temp.txt`, remove and rename are three, since
`Sync`, `send_full_path`, `add_file` and `CheckGroupFiles` open files without the
lock. Looking into a map is a step of its own, because nothing protects the maps.
Two threads at a map at once, one of them writing, may end the process (`Race`),
as may following an iterator into a map that was cleared, whose comparison
otherwise goes either way. `intact` is true as long as no `add_file` has touched a
file that is being rewritten or released another thread's lock, and no process has
ended between copy and rename; the safety properties say what holds until then. A
section of the lock that is one step here may be the one that `add_file`'s stray
unlock opens, so that unlock ends `intact` as soon as another thread may be in one
(`UnderLock`). `NothingElseIsLost` has one more exception, `StartsAfresh`: a
`create_user` or `create_group` that is granted for a name that is taken truncates
files of the name, which nobody asked for. The run `shared_state` shows it.
`group_members` is the shared global it is in the code, and handlers do decide with
the members of another group.

### Session

The peer's two threads take one step per probe, connect, handshake and reply. Fields
that only properties read are named in the module: which trackers were up all
through a command (`steady`) and which went down in it (`gone`). `CheckTracker`
keeps the last tracker that answers; the peer server's takes the first, and asks it
for the path of the file. A tracker that does not list the file (`stop_share`, files
lost by a crash or torn for want of a descriptor) answers with an empty path, and the
peer ends when it uses the null `FILE`.

A tracker's handler is one step, with the files it pushes; that step is only taken
when the sibling accepts the pushes. A tracker that is `up` has a backlog that takes
connections and probes, but serves none while it is `joining`: `TrackerServer` waits
for its threads, and a thread may wait for a sibling that is joining as well. A join
may begin at any time (51 connections is more than an instance has) and ends when the
tracker has no request under way, if it ends at all. Its maps are separate from its
files, and `fresh` says that the files could be read when they were last loaded and
that nothing was received since. `count.trouble` says that a tracker has gone down or
was short of a descriptor.

Descriptors are counted on both sides: `tracker_info.txt` while it is read, probes
that fail, logins and files served at the peer; a `FILE` and a socket for each push to
a sibling that is down at the tracker. `UserCreate` and what rewrites a file need two
at a time: with one, the account is not written, or the file is removed and nothing
takes its place (`Torn`), and the push of the missing file ends the tracker
(`HandleDies`). Without any a tracker reads no files, writes none, and answers as
usual; one that cannot accept exits. The partial effects of a kill inside a handler
are in `Handlers` and `TrackerSync`, not here, and another thread that frees a
descriptor in the middle of a handler is left out.

### Stream and Transfer

A unit of data is some bytes; what is written goes out in records of at most
`RecordMax`, and a read returns one record. `Sync` sends blocks of up to four
records and waits for one acknowledgement for each; `SyncRecv` sends one for each
record it reads. When acknowledgements reach a socket that was closed, the
connection is reset and what has not arrived is lost. `Transfer` is what the
receiver may rely on, and `Stream` implements it. The file does not change during a
push here; that is in `TrackerSync`.

## Runs

Deadlock is checked in `registry` and `sync_push`. It is not in `sync_crash`, where
two trackers that wait for each other really stop, nor in the runs of `Download`,
`Handlers`, `Session` and `Stream`, which end when what was asked for is done.

| Run | Bounds | Result |
|---|---|---|
| `registry` | 2 users, 2 peers, 1 group, 2 names, 2 hashes, 1 download, 2 notices under way | maps and files agree as far as decisions need; requests can be decided; both records of a share stay in step; one hash per name; sharers were admitted; history is kept; `Membership` is implemented |
| `sync_push` | 2 writes and deletes, 2 pushing threads, joins after 2 | copies agree after concurrent pushes if nothing was deleted; every push ends |
| `sync_crash` | 3 writes, 2 files, 1 kill, from both trackers down | a byte is only found in the file and at the place where it was written, though lines of lengths 3 and 2 are spliced |
| `handlers` | 2 threads, 2 requests out of 18 that cover every command, 1 kill, files of a system in use | nothing is lost but what was asked for and what a `create_` of a taken name truncates, files do not mix, maps catch up, handlers end |
| `session` | 1 peer, 1 group that may be registered with a shared file, 4 events (commands, chunks, joins, kills), 2 kills, 5 descriptors each | answers are true, a tracker that stays up is found, exits have a cause, maps follow files unless the sibling has pushed, commands end if joins do |
| `stream` | requests of up to 3 records, files of up to 3 blocks of 4 records | `Transfer` is implemented; only files longer than a record are reset; transfers end |
| `download` | 2 uploaders, 1 downloader, 2 downloads to either of 2 paths, 3 chunks in batches of 2, 1 kill, 1 restart, 1 stop_share | threads give up only without a reachable seeder; seeders are chosen as documented; of a download from uploaders alone: recorded chunks match; what is reported complete is whole unless a chunk was given up; it ends |

The bounds are the smallest with which the cases meet: a user to be admitted while
another changes the maps, a user logged in at two peers; two contents competing for
a name; a push overtaken by another one; a tracker killed in a push and restarted, with a
push of its earlier life still open at the other; joins that happen while pushes wait; every two commands at once; both
trackers down, or one down and back with older maps, within three commands; a peer
and a tracker without a descriptor left (`ServedBefore` lets a peer start with four
of five used by chunks it has sent; a tracker loses two with every push to a sibling
that is down, so that three pushes use up its five); a block of several records before the last one;
a peer that downloads again and is among its own seeders; a batch of threads waiting
for the one before. Several downloaders, which serve each other while they download,
are in `spill` and in the theorems of `DownloadProofs`, which hold for any number.

Runs that are expected to fail state what a document or comment of the
repository says and show where the code does otherwise; the findings in
`PROJECT.json` quote both.

| Run | What the counterexample shows |
|---|---|
| `sync_keeps_accepting` | both trackers serve writes: both accept loops wait in `pthread_join` for each other |
| `sync_survivor` | a kill during a push empties the survivor's file |
| `spill` | a verified chunk is overwritten with placeholder bytes, when the seeder is itself downloading |
| `shared_state` | `create_user` for a name that is taken is granted while another thread has emptied the maps, and truncates the user's files; without it among the requests, the same of `create_group`, which truncates the group's members and list of files |
| `endless` | a peer that shares the file downloads it again when the uploader has stopped sharing: it is its own only seeder, has only placeholders, and asks itself for ever |

`spill` and `endless` refute of any download what `download` checks of a download
from uploaders that do not download themselves (`FromOriginals`), whose files are
whole: they say how far `OriginalsChunksMatch` and `OriginalsDownloadsEnd` go. A peer
restarted in the middle of a download is another such seeder: it claims every chunk,
and is asked for one it lacks for ever.

Other places where the models do less than a reader of the code's documents may
expect, for which no run is kept (the hazards in `PROJECT.json` give the lines):

- between `give_sha` and `give_seeders` a file can be replaced by another content
  of the same name;
- an `add_file` handled after the last sharer has gone lists a file without a hash;
- `give_sha` for a file that does not exist, or a download that is given up, stays
  listed as in progress;
- a `SyncRecv` whose sender dies never ends; a tracker whose sibling dies between
  the probe and the connect of a push exits; trackers started together exchange no
  dump; a push of a file that `DeleteLine` has replaced can be received last;
- lines can be reordered or spliced: a push that outlives its killed sender and one
  of the sender's next life are closed together, each over a part of the file;
- a tracker that waits in its joins for ever still has a backlog: a peer's command
  connects to it and never ends;
- a peer that is asked for a file its tracker does not list ends;
- a push of a file longer than a TLS record may be reset at its end, and the
  `SyncRecv` then never ends;
- a process that ends between `DeleteLine`'s copy and rename leaves lines that get
  into the next file that is rewritten; `add_file` can lose lines of others;
- a tracker whose descriptors are used up answers "1" to what it has not written;
- a peer that gets no reply believes that its command was carried out;
- a peer that gave up a chunk reports completion and answers that it has
  everything.

## Fairness

`TrackerSync`: threads of a running process are scheduled (weak fairness of their
steps and of the joins). A connection in the listen queue is taken after finitely
many others because the queue is first-in first-out; the model has no queue, and
strong fairness of the two accept steps of pushes says the same. Nobody is obliged
to start a tracker or to send a request. `Download`: the main thread and the chunk
threads of a running peer are scheduled; kills, restarts and commands are not
fair, and finitely many of them happen. `Handlers`: weak fairness of each thread;
the mutex need not be fair, since finitely many requests compete for it. `Session`:
weak fairness of what a peer is doing already. The backlog of a tracker is a queue,
which the model does not have, so the steps of a tracker for one peer, and the `accept`
that finds no descriptor, are strongly fair: a tracker that accepts time and again
comes to everyone who waits. None for typing, asking, killing, starting, or the end of
a join: `CommandsEnd` has as its hypothesis that no tracker is joining for ever, which
the code does not guarantee (`sync_keeps_accepting`, and a `SyncRecv` whose sender has
died). `Stream`: weak fairness of both processes; the network
need not break anything.

## What is proved

`TrackerProofs` proves for all sets of users, peers, groups, names and hashes,
from the assumptions that `None` and `NoHash` are not among the values they are
told apart from: `TypeOK`, `MapsAgreeWithFiles`, `RequestsAreOpen`,
`OneHashPerName`, `SeedersHavePath`, `SharersWereAdmitted`, the action property
`DownloadsAreKept`, and that `Tracker` implements `Membership`.

They rest on one inductive invariant, `IInv`, which adds three facts that no run
asks for by themselves:

- `Registered`: only accounts leave traces. Without it `create_user`, which
  truncates the user's three files, could lose shares and history.
- `GroupsAreOwned`: a group without an owner has no members and no files, which
  is why `create_group` may truncate the files list; and an owner is a member.
- `DownloadsAreRecorded`: a download under way, at the peer or in a notice, is in
  one of the user's two download files, and its group exists. It is what
  `SharersWereAdmitted` has to say about a notice that arrives after the user has
  left the group.

There is one lemma per action, and frame lemmas for the conjuncts that an action
does not touch. The step from the maps to `Membership` is
`MapsAgreeWithFiles`: a request that is in the map and not in the file belongs to
a member, and `accept_request` reads the members file afresh.

`TrackerSyncProofs`, for any numbers of files, threads, writes, deletions, kills and
starts: `TypeOK`, which says that no copy outgrows the requests; `BytesKeepTheirPlace`,
for lines of any lengths and as long as they are only added (`~Deletes`, a hypothesis; a
deletion moves what comes after it), by the invariant that a byte has one place
wherever it is, in a copy, in what a thread has read or in a push about to be closed
(`OnePlace`); and
`ReplicasAgree`, with the hypotheses that one tracker serves the writes and none is
killed. `AgreeInv` says there that only that tracker pushes (`OnlyPushes`), that what
was read, sent or received is the beginning of what it has now (`Behind`), and that a
copy that differs is caught up by a push that is still under way (`CatchesUp`). It
holds until the first deletion, from which on the deleted line is one that is neither
answered nor will be (`Gone`), so that `ReplicasAgree` claims nothing more.

`StreamProofs`, for any sizes of records, blocks, requests and files: `TypeOK`,
`OnlyLongFilesAreReset`, and the refinement of `Transfer`. The invariant has a part
for each phase of the exchange: the receiver's data, followed by what is on the wire
and what `SSL_write` has yet to send, is the part of the file that was read
(`Sending`), the number of acknowledgements matches the records read
(`Acknowledging`), and both sides are in step until the connection breaks (`InStep`).

`SessionProofs`, for any finite set of peers: `TypeOK`, `MapsFollowFiles`,
`DescriptorsAreReturned`, `AnswersAreTrue`, `NoTrackerMeansNone` and
`ExitsOnlyOnFailure`. Each peer's main thread is resting, probing or answering, its
server serving or not; the invariant says for each of these what `steady`, `gone` and
the probes made so far have to do with the trackers, and counts the descriptors; an
empty path has a cause (`excused`, or `unlisted` when the tracker does not have the
line). A tracker's maps are those of its files while it is fresh, for which the file
that `GroupStopShare` writes does not matter and the others are reloaded or updated.

`HandlersProofs`, for any threads, users, groups, names and requests and any files
that earlier runs left: `TypeOK`, `FilesDoNotMix`, `MapsCatchUp` and
`NothingElseIsLost`. It first proves what every handler looks like (`Sound`), from its
pieces: a rewrite goes on to its end and is never jumped into, the maps are loaded
after they were cleared and after an account or a group was added, a request to join
is inserted into the map that its file got. The invariant is then about positions
only: one thread at a time is where it holds the lock (`Locked`), `.temp.txt` holds
what is to be kept of the file being rewritten (`Kept`), and what a map lacks will be
loaded or inserted by a thread at work (`Followup`).

`DownloadProofs`, for any finite set of peers and any numbers of chunks, threads in a
batch, downloads, paths, kills, restarts and stops: `TypeOK`, `GivesUpOnlyIfNoneReachable`,
`SeedersAreChosenFairly`, `OriginalsChunksMatch` and `CompleteUnlessGivenUp`. The last
two are about the downloads whose seeders are uploaders that do not download
themselves; of others the run `spill` refutes them. The invariant has three parts. A thread's (`ThreadOK`): the seeders it has tried lie
behind its seeder number, cyclically and as many as it has failed (`Tried`), and none
of them was there all the time, so that as many failures as there are seeders cover
the list. A download's (`JobOK`): the answers are those of the seeders polled so far,
and one that was there all the time said that it has everything (`Honest`), so that a
chunk's first seeder is never -1 while there is such a one. And `Steadfast`: an
original that was there all the time is up, listed and not downloading. `Contents`
adds that originals that do not download keep whole files at the path the tracker has
(`Pristine`), from which a spill does no harm, and that a chunk got from them is right
(`Recorded`). That the sort lists all seeders by
number of chunks is proved by induction on the number of answers (`Sorted`), and that
round robin is even by injections between the shares (`SharesAreEven`). The sort is
the insertion sort of the model; that `std::sort` with `my_comp` is that sort only up
to 16 seeders is a limit of the model that no theorem lifts.

The library's induction theorems take a predicate, which the provers cannot
instantiate. `NaturalSets` states induction for a *set* of naturals instead
(`Induction`), from the least element that every non-empty one has; `DownloadProofs`
uses it for the sort, `TrackerSyncProofs` for the lines `DeleteLine` copies.

The assumptions are those of the modules: constants that mark "nothing" differ from
what they are told apart from, bounds are natural numbers, peers in `Download` are
finitely many numbers, and the files a `Handlers` tracker starts with hold lines of
their own kind.

What the attempts taught. That lines keep their order is false after a crash: a push
that outlives its sender and one of the sender's next life are closed together, and, since
lines differ in length, leave the tail of one in the middle of another, which is why the
property is now that bytes keep their *place*. That maps follow files in
`Session` is false when two requests use up the descriptors between them, so `fresh`
says that the files could be read. A tracker can go down without a kill, for want of a
descriptor, so the properties ask whether one went down. A first version of `Download`
kept a peer from downloading what it shares, which the code does not; without that
guard downloads need not end, and what holds is said of downloads from uploaders only.

Only model-checked: liveness everywhere (`RequestsAreAnswered`,
`OriginalsDownloadsEnd`, `HandlersEnd`, `CommandsEnd`, `TransferEnds`), which is out of the prover's reach.

## Not modelled

The peer server's joins after 51 connections and several chunks served at once by
one peer in `Session`; the other commands of the peer there, whose functions have
the same steps; more than 16 seeders; several files or groups with equal names in
one `filechunks_map`; offsets and sizes beyond 2 GiB; equal lines in a file, which
the handlers treat alike; a host that goes silent without closing its connections;
`quit`, which is an end of the process like another; hashing; build, containers and
certificates.

## Plan

Every invariant and action property that a passing run checks is now a theorem; the
liveness properties stay with TLC. The hypotheses that remain are needed: with
deletions, `BytesKeepTheirPlace` fails; `OriginalsChunksMatch` and
`CompleteUnlessGivenUp` fail of downloads from peers that download themselves; with two trackers that serve writes, or a kill, copies
differ when the last push has ended. What could still be added to the model is listed
above as not modelled.
