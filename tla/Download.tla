------------------------------ MODULE Download ------------------------------
(***************************************************************************)
(* One shared file spreading among peers: peerdownload.cpp, the requester, *)
(* and peerserver.cpp, the seeder's side of the same exchange.             *)
(*                                                                         *)
(* A chunk on a disk is told apart by two facts only: whether its first    *)
(* small block and whether the rest of it are the original's bytes.  The   *)
(* first block matters on its own: a seeder sends one small block past the *)
(* chunk, and the receiver may write a part of it.                         *)
(***************************************************************************)
EXTENDS Naturals, FiniteSets, Sequences, SequencesExt

CONSTANTS
  Peers,      \* numbers: the tracker lists seeders in the order of their names
  Originals,  \* the peers that uploaded the file
  Leechers,   \* the peers whose users download it
  Paths,      \* the paths a user may have the file at
  Upload,     \* the one of them at which the originals have it
  NChunks,
  Batch,      \* threads that run at the same time, 51 in the code
  MaxDownloads, \* download_file commands, in all
  MaxKills,   \* peers killed from outside, in all
  MaxStarts,  \* restarts of peers, in all
  MaxStops    \* stop_share commands, in all

ASSUME PeersAssumption  == /\ Peers \subseteq Nat /\ IsFiniteSet(Peers)
                           /\ Originals \subseteq Peers
                           /\ Leechers \subseteq Peers
ASSUME PathsAssumption  == Upload \in Paths
ASSUME BoundsAssumption == /\ NChunks \in Nat \ {0}
                           /\ Batch \in Nat \ {0}
                           /\ MaxDownloads \in Nat
                           /\ MaxKills \in Nat
                           /\ MaxStarts \in Nat
                           /\ MaxStops \in Nat

Chunks == 0..(NChunks - 1)

VARIABLES
  up,              \* the peers that run and listen on their port
  listed,          \* the online sharers of the file, as the tracker has them
  path,            \* the path at which the tracker knows each of them to have it
  file,            \* what each peer has at each path
  target,          \* the path its download writes to
  filechunks_map,  \* its entry for the file: the chunks got so far, or NoEntry
  phase,           \* how far DownloadFile has got
  seeders,         \* its list of seeders
  answers,         \* the answers of the seeders polled so far
  thread,          \* its thread for each chunk
  completed,       \* the peers that have sent "complete" for their last download
  steady,          \* the originals that were up, shared and did not download it
  downloads,
  kills,
  starts,
  stops

bounds == <<downloads, kills, starts, stops>>
shares == <<listed, path>>
job  == <<phase, target, seeders, answers, thread>>
history == <<completed, steady>>
vars == <<up, shares, file, filechunks_map, job, history, bounds>>

NoEntry == Chunks \cup {NChunks}   \* differs from every set of chunks

Answer  == (SUBSET Chunks) \cup {NoEntry}
Phase   == {"idle", "poll", "asked", "cut", "fetch"}
Thread  == [pc : {"none", "connect", "recv", "cut", "verify", "got", "gaveup"},
            seeder : Nat, attempts : Nat]
Chunk   == [head : BOOLEAN, rest : BOOLEAN]
Good    == [head |-> TRUE, rest |-> TRUE]
Fives   == [head |-> FALSE, rest |-> FALSE]
NoThread == [pc |-> "none", seeder |-> 0, attempts |-> 0]

TypeOK ==
  /\ up \subseteq Peers /\ listed \subseteq Peers /\ completed \subseteq Peers
  /\ steady \subseteq Originals
  /\ path \in [Peers -> Paths] /\ target \in [Peers -> Paths]
  /\ file \in [Peers -> [Paths -> [Chunks -> Chunk]]]
  /\ filechunks_map \in [Peers -> Answer]
  /\ phase \in [Peers -> Phase]
  /\ seeders \in [Peers -> Seq(Peers)]
  /\ answers \in [Peers -> Seq(Answer)]
  /\ thread \in [Peers -> [Chunks -> Thread]]
  /\ \A p \in Peers :
       /\ Len(answers[p]) <= Len(seeders[p])
       /\ \A c \in Chunks : /\ thread[p][c].seeder <= Len(seeders[p])
                            /\ thread[p][c].attempts <= Len(seeders[p])
  /\ downloads \in 0..MaxDownloads
  /\ kills \in 0..MaxKills
  /\ starts \in 0..MaxStarts
  /\ stops \in 0..MaxStops

Shared(u) == file[u][path[u]]     \* what the seeder u sends from
Copy(p)   == file[p][target[p]]   \* what the download of p writes
Whole(copy) == \A c \in Chunks : copy[c] = Good

----------------------------------------------------------------------------
(* Who is asked for which chunk.                                           *)

\* What a seeder answers to chunk_numbers: NoEntry is "-1", {} is "-2".
GetChunkInfo(u) == filechunks_map[u]

Holds(answer) == IF answer = NoEntry THEN Chunks ELSE answer

\* Variant: the seeders with the most chunks come first.
InsertReversed(v, x) ==
  LET larger == {i \in DOMAIN v : Cardinality(v[i].holds) > Cardinality(x.holds)}
  IN  InsertAt(v, Max(larger \cup {0}) + 1, x)

\* sort with my_comp, which puts the later of two equals first.  It is not a
\* strict order; with the 16 seeders or fewer for which std::sort inserts one
\* element after the other, behind the last that is smaller, it computes this.
InsertSorted(v, x) ==
  LET smaller == {i \in DOMAIN v : Cardinality(v[i].holds) < Cardinality(x.holds)}
  IN  InsertAt(v, Max(smaller \cup {0}) + 1, x)

SortSeeders(ans) ==
  LET sorted[n \in 0..Len(ans)] ==
        IF n = 0 THEN <<>>
        ELSE InsertSorted(sorted[n - 1], [num |-> n, holds |-> Holds(ans[n])])
  IN  sorted[Len(ans)]

\* The first of the sorted seeders that holds chunk c, or 0 for -1.
Decide(v, c) ==
  LET rows == {i \in DOMAIN v : c \in v[i].holds}
  IN  IF rows = {} THEN 0 ELSE v[Min(rows)].num

\* The seeder number GetChunks gives to the thread of chunk c: round robin if
\* every seeder has everything.
FirstSeeder(ans, c) ==
  IF \A i \in DOMAIN ans : ans[i] = NoEntry
  THEN (c % Len(ans)) + 1
  ELSE Decide(SortSeeders(ans), c)

----------------------------------------------------------------------------
(* The end of a process.                                                   *)

\* The seeder whose turn it is to be asked for its chunks.
Polled(p) == seeders[p][Len(answers[p]) + 1]

\* The requests its server was answering are cut short.
Stop(u) ==
  /\ up' = up \ {u}
  /\ steady' = steady \ {u}
  /\ filechunks_map' = [filechunks_map EXCEPT ![u] = NoEntry]
  /\ phase' = [p \in Peers |->
       CASE p = u -> "idle"
         [] p # u /\ phase[p] = "asked" /\ Polled(p) = u -> "cut"
         [] OTHER -> phase[p]]
  /\ seeders' = [seeders EXCEPT ![u] = <<>>]
  /\ answers' = [answers EXCEPT ![u] = <<>>]
  /\ thread' = [p \in Peers |-> [c \in Chunks |->
       CASE p = u -> NoThread
         [] p # u /\ thread[p][c].pc = "recv"
              /\ seeders[p][thread[p][c].seeder] = u
              -> [thread[p][c] EXCEPT !.pc = "cut"]
         [] OTHER -> thread[p][c]]]
  /\ UNCHANGED <<shares, file, target, completed>>

Kill(u) ==
  /\ u \in up
  /\ kills < MaxKills
  /\ kills' = kills + 1
  /\ Stop(u)
  /\ UNCHANGED <<downloads, starts, stops>>

\* The process is started again, on its old port.
Restart(u) ==
  /\ u \notin up
  /\ starts < MaxStarts
  /\ starts' = starts + 1
  /\ up' = up \cup {u}
  /\ UNCHANGED <<shares, file, filechunks_map, job, history, downloads, kills, stops>>

\* The user's stop_share, answered by the tracker.
GroupStopShare(u) ==
  /\ u \in up /\ u \in listed /\ phase[u] = "idle"
  /\ stops < MaxStops
  /\ stops' = stops + 1
  /\ listed' = listed \ {u}
  /\ steady' = steady \ {u}
  /\ UNCHANGED <<up, path, file, filechunks_map, job, completed,
                 downloads, kills, starts>>

----------------------------------------------------------------------------
(* DownloadFile and GetChunks.                                             *)

\* give_sha, give_seeders and give_details have been answered; the file at the
\* path the user names is filled with the digit 5 and the entry for the file is
\* emptied.  Nothing keeps a peer that has or shares the file from downloading it
\* again, over its old copy or elsewhere: it is then among its own seeders.
DownloadFile(p) ==
  /\ p \in up /\ p \in Leechers /\ phase[p] = "idle"
  /\ listed # {}
  /\ downloads < MaxDownloads
  /\ downloads' = downloads + 1
  /\ phase' = [phase EXCEPT ![p] = "poll"]
  /\ \E s \in [1..Cardinality(listed) -> listed] :
       /\ \A i, j \in DOMAIN s : i < j => s[i] < s[j]
       /\ seeders' = [seeders EXCEPT ![p] = s]
  /\ \E d \in Paths :
       /\ target' = [target EXCEPT ![p] = d]
       /\ file' = [file EXCEPT ![p][d] = [c \in Chunks |-> Fives]]
  /\ filechunks_map' = [filechunks_map EXCEPT ![p] = {}]
  /\ completed' = completed \ {p}
  /\ steady' = steady \ {p}
  /\ UNCHANGED <<up, shares, answers, thread, kills, starts, stops>>

\* One turn of the loop of CalcChunk: the seeder is connected to and asked.
AskChunks(p) ==
  /\ phase[p] = "poll"
  /\ Polled(p) \in up
  /\ phase' = [phase EXCEPT ![p] = "asked"]
  /\ UNCHANGED <<up, shares, file, filechunks_map, target, seeders, answers, thread,
                 history, bounds>>

\* The turn ends with an answer; after the last, the threads' seeders are decided.
Answered(p, answer) ==
  LET ans == Append(answers[p], answer) IN
  /\ answers' = [answers EXCEPT ![p] = ans]
  /\ IF Len(ans) < Len(seeders[p])
     THEN /\ phase' = [phase EXCEPT ![p] = "poll"]
          /\ UNCHANGED thread
     ELSE /\ phase' = [phase EXCEPT ![p] = "fetch"]
          /\ thread' = [thread EXCEPT ![p] = [c \in Chunks |->
               [pc |-> "connect", seeder |-> FirstSeeder(ans, c), attempts |-> 0]]]
  /\ UNCHANGED <<up, shares, file, filechunks_map, target, seeders, history, bounds>>

CalcChunk(p) ==
  /\ phase[p] = "asked"
  /\ Answered(p, GetChunkInfo(Polled(p)))

\* The seeder has died before it answered: of the empty string, split2 makes one
\* word and atoi the chunk 0.
CalcChunkCut(p) ==
  /\ phase[p] = "cut"
  /\ Answered(p, {0})

\* The seeder cannot be reached: exit(-1), of the requester.
CalcChunkFails(p) ==
  /\ phase[p] = "poll"
  /\ Polled(p) \notin up
  /\ Stop(p)
  /\ UNCHANGED bounds

\* GetChunks starts the threads of a batch when those of the last have ended.
Running(p, c) ==
  \A d \in Chunks :
    d \div Batch < c \div Batch => thread[p][d].pc \in {"got", "gaveup"}

\* Variant: the threads of the last batch, which may be short, are not joined.
FinishUnjoined(p) ==
  /\ phase[p] = "fetch"
  /\ \A c \in Chunks : c \div Batch < (NChunks - 1) \div Batch =>
                        thread[p][c].pc \in {"got", "gaveup"}
  /\ completed' = completed \cup {p}
  /\ filechunks_map' = [filechunks_map EXCEPT ![p] = NoEntry]
  /\ phase' = [phase EXCEPT ![p] = "idle"]
  /\ seeders' = [seeders EXCEPT ![p] = <<>>]
  /\ answers' = [answers EXCEPT ![p] = <<>>]
  /\ thread' = [thread EXCEPT ![p] = [c \in Chunks |-> NoThread]]
  /\ UNCHANGED <<up, shares, file, target, steady, bounds>>

\* Every thread was joined: "complete" is sent, MatchSHA prints its verdict,
\* and the entry for the file is erased.
Finish(p) ==
  /\ phase[p] = "fetch"
  /\ \A c \in Chunks : thread[p][c].pc \in {"got", "gaveup"}
  /\ completed' = completed \cup {p}
  /\ filechunks_map' = [filechunks_map EXCEPT ![p] = NoEntry]
  /\ phase' = [phase EXCEPT ![p] = "idle"]
  /\ seeders' = [seeders EXCEPT ![p] = <<>>]
  /\ answers' = [answers EXCEPT ![p] = <<>>]
  /\ thread' = [thread EXCEPT ![p] = [c \in Chunks |-> NoThread]]
  /\ UNCHANGED <<up, shares, file, target, steady, bounds>>

----------------------------------------------------------------------------
(* DownloadKernel, the thread of one chunk.                                *)

Goto(p, c, fields) == thread' = [thread EXCEPT ![p][c] = fields]

Connect(p, c) ==
  LET me == thread[p][c] IN
  /\ me.pc = "connect" /\ Running(p, c)
  /\ me.seeder # 0 /\ seeders[p][me.seeder] \in up
  /\ Goto(p, c, [me EXCEPT !.pc = "recv"])
  /\ UNCHANGED <<up, shares, file, filechunks_map, phase, target, seeders, answers,
                 history, bounds>>

\* Variant: the thread gives up one failure too early.
NextSeederEarly(p, c) ==
  LET me == thread[p][c]
      n  == Len(seeders[p])
  IN  IF me.attempts + 2 >= n
      THEN [me EXCEPT !.pc = "gaveup", !.attempts = @ + 1]
      ELSE [me EXCEPT !.seeder = (@ % n) + 1, !.attempts = @ + 1]

\* Variant: the number of the next seeder is not taken modulo nseeders.
NextSeederNoWrap(p, c) ==
  LET me == thread[p][c] IN
  IF me.attempts + 1 >= Len(seeders[p])
  THEN [me EXCEPT !.pc = "gaveup", !.attempts = @ + 1]
  ELSE [me EXCEPT !.seeder = @ + 1, !.attempts = @ + 1]

\* Variant: after the last of them it starts again with the first.
NextSeederForEver(p, c) ==
  LET n == Len(seeders[p]) IN
  [thread[p][c] EXCEPT !.seeder = (@ % n) + 1,
                       !.attempts = IF @ + 1 < n THEN @ + 1 ELSE @]

\* The next seeder, or none after as many failures as there are seeders.
NextSeeder(p, c) ==
  LET me == thread[p][c]
      n  == Len(seeders[p])
  IN  IF me.attempts + 1 >= n
      THEN [me EXCEPT !.pc = "gaveup", !.attempts = @ + 1]
      ELSE [me EXCEPT !.seeder = (@ % n) + 1, !.attempts = @ + 1]

\* connect fails.  seeders[-1] is no string of the vector: if it can be read
\* at all, it names nobody, and connecting to nobody fails.
ConnectFails(p, c) ==
  LET me == thread[p][c] IN
  /\ me.pc = "connect" /\ Running(p, c)
  /\ me.seeder # 0 => seeders[p][me.seeder] \notin up
  /\ Goto(p, c, NextSeeder(p, c))
  /\ UNCHANGED <<up, shares, file, filechunks_map, phase, target, seeders, answers,
                 history, bounds>>

\* Reading seeders[-1] ends the process.
ReadsOutOfBounds(p, c) ==
  /\ thread[p][c].pc = "connect" /\ Running(p, c)
  /\ thread[p][c].seeder = 0
  /\ Stop(p)
  /\ UNCHANGED bounds

\* The first chunk's thread sends add_file, whatever it has received; the tracker
\* leaves a peer that it lists already at the path it has.
UpdateServer(p, c) ==
  IF c = 0 /\ p \notin listed
  THEN /\ listed' = listed \cup {p}
       /\ path' = [path EXCEPT ![p] = target[p]]
  ELSE UNCHANGED shares

\* A copy after chunk c was received into it: the chunk from the seeder's file, and
\* if the pieces in which it arrives do not end where the chunk ends, a part of the
\* first block of the next one.
Received(old, sent, c, spill) ==
  [d \in Chunks |->
     CASE d = c -> sent[c]
       [] d = c + 1 /\ spill /\ ~sent[d].head -> [old[d] EXCEPT !.head = FALSE]
       [] OTHER -> old[d]]

RecvChunk(p, c) ==
  LET me == thread[p][c]
      u  == seeders[p][me.seeder]
  IN
  /\ me.pc = "recv" /\ u \in listed
  /\ \E spill \in BOOLEAN :
       file' = [file EXCEPT ![p][target[p]] = Received(@, Shared(u), c, spill)]
  /\ UpdateServer(p, c)
  /\ Goto(p, c, [me EXCEPT !.pc = "verify"])
  /\ UNCHANGED <<up, filechunks_map, phase, target, seeders, answers, history, bounds>>

\* The seeder has died: some or none of the chunk has arrived.
RecvCut(p, c) ==
  LET me == thread[p][c]
      old == Copy(p)[c]
      new == Shared(seeders[p][me.seeder])[c]
  IN
  /\ me.pc = "cut"
  /\ \E part \in {old, [old EXCEPT !.head = new.head],
                   [head |-> new.head, rest |-> old.rest /\ new.rest]} :
       file' = [file EXCEPT ![p][target[p]][c] = part]
  /\ UpdateServer(p, c)
  /\ Goto(p, c, [me EXCEPT !.pc = "verify"])
  /\ UNCHANGED <<up, filechunks_map, phase, target, seeders, answers, history, bounds>>

\* The seeder no longer shares the file: the tracker gives TransferFunction no
\* path, fopen fails, and the seeder dies using what it returned.
TransferFails(p, c) ==
  LET u == seeders[p][thread[p][c].seeder] IN
  /\ thread[p][c].pc = "recv" /\ u \notin listed
  /\ Stop(u)
  /\ UNCHANGED bounds

\* Variant: the chunk is recorded without looking at its hash.
VerifyNothing(p, c) ==
  /\ thread[p][c].pc = "verify"
  /\ filechunks_map' = [filechunks_map EXCEPT ![p] = @ \cup {c}]
  /\ Goto(p, c, [thread[p][c] EXCEPT !.pc = "got"])
  /\ UNCHANGED <<up, shares, file, phase, target, seeders, answers, history, bounds>>

\* GetFileHashsmall: the chunk is recorded if it matches, and requested again
\* from the same seeder if not.
Verify(p, c) ==
  LET me == thread[p][c]
      matches == Copy(p)[c] = Good
  IN
  /\ me.pc = "verify"
  /\ filechunks_map' = IF matches THEN [filechunks_map EXCEPT ![p] = @ \cup {c}]
                       ELSE filechunks_map
  /\ Goto(p, c, [me EXCEPT !.pc = IF matches THEN "got" ELSE "connect"])
  /\ UNCHANGED <<up, shares, file, phase, target, seeders, answers, history, bounds>>

----------------------------------------------------------------------------

Init ==
  /\ up = Peers
  /\ listed = Originals
  /\ path = [p \in Peers |-> Upload]
  /\ file = [p \in Peers |-> [d \in Paths |-> [c \in Chunks |->
               IF p \in Originals /\ d = Upload THEN Good ELSE Fives]]]
  /\ target = [p \in Peers |-> Upload]
  /\ filechunks_map = [p \in Peers |-> NoEntry]
  /\ phase = [p \in Peers |-> "idle"]
  /\ seeders = [p \in Peers |-> <<>>]
  /\ answers = [p \in Peers |-> <<>>]
  /\ thread = [p \in Peers |-> [c \in Chunks |-> NoThread]]
  /\ completed = {}
  /\ steady = Originals
  /\ downloads = 0
  /\ kills = 0
  /\ starts = 0
  /\ stops = 0

DownloadKernel(p, c) ==
  \/ Connect(p, c)
  \/ ConnectFails(p, c)
  \/ ReadsOutOfBounds(p, c)
  \/ RecvChunk(p, c)
  \/ RecvCut(p, c)
  \/ TransferFails(p, c)
  \/ Verify(p, c)

GetChunks(p) ==
  \/ AskChunks(p)
  \/ CalcChunk(p)
  \/ CalcChunkCut(p)
  \/ CalcChunkFails(p)
  \/ Finish(p)

Next ==
  \/ \E p \in Peers : \/ DownloadFile(p) \/ GetChunks(p)
                      \/ Kill(p) \/ Restart(p) \/ GroupStopShare(p)
  \/ \E p \in Peers, c \in Chunks : DownloadKernel(p, c)

\* The main thread and the chunks' threads of a process that runs go on; no one
\* has to start, stop or restart anything.
Fairness ==
  /\ \A p \in Peers : WF_vars(GetChunks(p))
  /\ \A p \in Peers, c \in Chunks : WF_vars(DownloadKernel(p, c))

Spec == Init /\ [][Next]_vars /\ Fairness

----------------------------------------------------------------------------
(* What a download promises.                                               *)

\* peerdownload.cpp:399, "no reachable seeder, giving up": a thread that gave up
\* had no seeder that was there all the time, however the seeders around it came
\* and went between its attempts, its hash mismatches and its retries.
GivesUpOnlyIfNoneReachable ==
  \A p \in Peers, c \in Chunks :
    thread[p][c].pc = "gaveup" =>
      \A i \in DOMAIN seeders[p] : seeders[p][i] \notin steady

\* README.md:94-97: a chunk's thread starts with a seeder that has the chunk and
\* of those one with the fewest chunks; when every seeder has everything no two
\* of them get numbers of chunks that differ by more than one.
SeedersAreChosenFairly ==
  \A p \in Peers :
    LET first   == {c \in Chunks : thread[p][c].attempts = 0}
        seat(c) == thread[p][c].seeder
        size(i) == Cardinality(Holds(answers[p][i]))
        load(i) == Cardinality({c \in Chunks : seat(c) = i})
        all     == \A i \in DOMAIN answers[p] : answers[p][i] = NoEntry
    IN
    phase[p] = "fetch" =>
      /\ \A c \in first : \A i \in DOMAIN answers[p] :
           c \in Holds(answers[p][i]) =>
             /\ seat(c) # 0
             /\ c \in Holds(answers[p][seat(c)])
             /\ size(seat(c)) <= size(i)
      /\ all /\ first = Chunks =>
           \A i, j \in DOMAIN answers[p] : load(i) <= load(j) + 1

\* README.md:5-7, "verifying each chunk's integrity with SHA-1 as it arrives": the
\* chunks recorded as got match their hashes, in whatever order the threads
\* write, spill over and check.
RecordedChunksMatch ==
  \A p \in Peers, c \in Chunks :
    filechunks_map[p] # NoEntry /\ c \in filechunks_map[p] => Copy(p)[c] = Good

\* The seeders of p are originals that do not download the file themselves.
FromOriginals(p) ==
  \A i \in DOMAIN seeders[p] : seeders[p][i] \in Originals \ Leechers

\* The same of the downloads from originals alone, which send whole files: however
\* many peers download, from whom and to which path, and whoever dies.
OriginalsChunksMatch ==
  \A p \in Peers, c \in Chunks :
    FromOriginals(p) /\ filechunks_map[p] # NoEntry /\ c \in filechunks_map[p] =>
      Copy(p)[c] = Good

\* README.md:98-99: the peer "reports completion" after every chunk was fetched and
\* checked.  DownloadFile does not ask how the threads ended; what it reports of a
\* download from originals is whole all the same, unless a chunk was given up: no
\* thread still writes, and no other thread's writing has undone what one has
\* checked.
CompleteUnlessGivenUp ==
  [][\A p \in Peers : p \in completed' \ completed /\ FromOriginals(p) =>
       Whole(Copy(p)) \/ \E c \in Chunks : thread[p][c].pc = "gaveup"]_vars

\* README.md:98-99, "re-requesting it if the received bytes don't hash-match, then
\* reports completion": a download ends, no thread asks for a chunk for ever.
DownloadsEnd == \A p \in Peers : phase[p] # "idle" ~> phase[p] = "idle"

\* The same of the downloads from originals alone.
OriginalsDownloadsEnd ==
  \A p \in Peers : phase[p] # "idle" /\ FromOriginals(p) ~> phase[p] = "idle"
=============================================================================
