---------------------------- MODULE TrackerSync ----------------------------
(***************************************************************************)
(* Two trackers that replicate their files to each other, trackersync.cpp. *)
(*                                                                         *)
(* A handler changes a file under file_lock and then calls Sync, which     *)
(* sends the whole file over a new connection; the sibling's SyncRecv      *)
(* truncates its copy, acknowledges, and writes what it got when it reads  *)
(* "Sync Over".  A starting tracker asks for everything with SyncAll.      *)
(*                                                                         *)
(* A file is a sequence of bytes, small enough for one round of the lock-  *)
(* step exchange.  A request writes one line; a line is the number of the  *)
(* request, a byte is its line and its place in it, and lines have any     *)
(* length.  What the requests mean is left to Tracker.                     *)
(***************************************************************************)
EXTENDS Naturals, Sequences

CONSTANTS
  Trackers,    \* the two trackers
  Writers,     \* those to which the peers send requests that write
  Slots,       \* handler threads of a tracker that push at the same time
  Files,
  NoFile,
  Batch,       \* connections after which the accept loop joins, 51 in the code
  MaxWrites,   \* requests that write, in all
  Width,       \* the length of each line, its newline included
  Deletes,     \* whether requests may delete a line as well as add one
  MaxCrashes   \* kills from outside, in all

ASSUME TrackersAssumption ==
  /\ \E a, b \in Trackers : a # b /\ Trackers = {a, b}
  /\ Writers \subseteq Trackers
  /\ NoFile \notin Files
ASSUME BoundsAssumption ==
  /\ Batch \in Nat \ {0}
  /\ MaxWrites \in Nat
  /\ MaxCrashes \in Nat
  /\ Deletes \in BOOLEAN

Lines == 1..MaxWrites

ASSUME WidthAssumption == Width \in [Lines -> Nat \ {0}]

VARIABLES
  status,    \* how far main has got, or "down"
  disk,      \* the files under .all_files
  thread,    \* the handler threads that push
  closing,   \* SyncRecv threads whose sender has said "Sync Over"
  stuck,     \* a SyncRecv thread reads from a dead connection, forever
  counter,   \* threads started since the accept loop last joined them
  writes,    \* requests so far
  answered,  \* the lines whose requests were answered, and not deleted since
  crashes

conns == <<thread, closing, stuck, counter>>
vars  == <<status, disk, conns, writes, answered, crashes>>

Bytes == Lines \X Nat
Contents == Seq(Bytes)

\* The bytes of line l, the last of which is its newline.
Text(l) == [i \in 1..Width[l] |-> <<l, i>>]

\* Line l stands in c from place i on.  (A file never ends inside a line, so
\* that the first byte of a line always follows a newline.)
StandsAt(c, i, l) ==
  \A n \in 1..Width[l] : i + n - 1 \in DOMAIN c /\ c[i + n - 1] = <<l, n>>

\* A thread: the files Sync is still to be called for, the one it pushes, the
\* line of its request (0 for SyncAll, or when it was deleted since), what it
\* has read, and two facts about open files: the one it reads was replaced by
\* DeleteLine; the one SyncRecv writes for it at the sibling still is the one
\* in the directory.
Thread == [pc : {"free", "sync", "connect", "handshake", "send", "over"},
           todo : SUBSET Files, file : Files \cup {NoFile}, line : 0..MaxWrites,
           data : Contents, replaced : BOOLEAN, linked : BOOLEAN]

Free == [pc |-> "free", todo |-> {}, file |-> NoFile, line |-> 0,
         data |-> <<>>, replaced |-> FALSE, linked |-> TRUE]

TypeOK ==
  /\ status \in [Trackers ->
                   {"down", "probe", "connect", "handshake", "listen", "serving"}]
  /\ disk \in [Trackers -> [Files -> Contents]]
  /\ thread \in [Trackers -> [Slots -> Thread]]
  /\ closing \subseteq [at : Trackers, file : Files, data : Contents]
  /\ stuck \in [Trackers -> BOOLEAN]
  /\ counter \in [Trackers -> 0..Batch]
  /\ writes \in 0..MaxWrites
  /\ answered \subseteq Lines
  /\ crashes \in 0..MaxCrashes

GetTracker2(t) == CHOOSE s \in Trackers : s # t

\* The sibling's port is bound: a connect succeeds whether or not its accept
\* loop gets to the connection.
IsOnline(t) == status[t] = "serving"

\* SyncRecv at t is writing the file that thread k of the sibling sends.
Receiving(t, k) == thread[GetTracker2(t)][k].pc \in {"send", "over"}
\* Variant: the accept loop joins one connection too late.
AcceptingLate(t) == status[t] = "serving" /\ counter[t] <= Batch

\* The accept loop of t takes the next connection unless it is joining.
Accepting(t) == status[t] = "serving" /\ counter[t] < Batch

\* b written from the start of a file that holds c.
Overwrite(b, c) == IF Len(b) >= Len(c) THEN b
                   ELSE b \o SubSeq(c, Len(b) + 1, Len(c))

Goto(t, k, fields) == [thread EXCEPT ![t][k] = fields]

----------------------------------------------------------------------------
(* A request, from the accept loop to the first Sync.                      *)

\* The handler appends its line to f.
AcceptAppend(t, k, f) ==
  /\ Accepting(t) /\ t \in Writers
  /\ thread[t][k].pc = "free"
  /\ writes < MaxWrites
  /\ writes' = writes + 1
  /\ disk' = [disk EXCEPT ![t][f] = @ \o Text(writes')]
  /\ thread' = Goto(t, k, [Free EXCEPT !.pc = "sync", !.todo = {f},
                                       !.line = writes'])
  /\ counter' = [counter EXCEPT ![t] = @ + 1]
  /\ UNCHANGED <<status, closing, stuck, answered, crashes>>

\* What is left of c: all but the lines equal to l is copied.
DeleteLine(c, l) ==
  LET dropped == {n \in DOMAIN c : \E i \in DOMAIN c :
                    StandsAt(c, i, l) /\ n \in i..(i + Width[l] - 1)}
      copied[n \in 0..Len(c)] ==
        IF n = 0 THEN <<>>
        ELSE IF n \in dropped THEN copied[n - 1] ELSE Append(copied[n - 1], c[n])
  IN  copied[Len(c)]

\* The handler deletes line l of f.  DeleteLine puts a new file in the place
\* of the old one, which those who have it open go on using.
AcceptDelete(t, k, f, l) ==
  /\ Deletes
  /\ Accepting(t) /\ t \in Writers
  /\ thread[t][k].pc = "free"
  /\ \E i \in DOMAIN disk[t][f] : StandsAt(disk[t][f], i, l)
  /\ disk' = [disk EXCEPT ![t][f] = DeleteLine(@, l)]
  /\ answered' = answered \ {l}
  /\ LET s == GetTracker2(t)
         reading == {j \in Slots : /\ thread[t][j].pc \in {"connect", "handshake", "send"}
                                   /\ thread[t][j].file = f
                                   /\ ~thread[t][j].replaced}
         written == {j \in Slots : Receiving(t, j) /\ thread[s][j].file = f}
         kept(th) == IF th.line = l THEN [th EXCEPT !.line = 0] ELSE th
     IN  thread' = [thread EXCEPT
           ![t] = [j \in Slots |->
             IF j = k THEN [Free EXCEPT !.pc = "sync", !.todo = {f}]
             ELSE IF j \in reading
             THEN [kept(thread[t][j]) EXCEPT !.data = disk[t][f], !.replaced = TRUE]
             ELSE kept(thread[t][j])],
           ![s] = [j \in Slots |->
             IF j \in written THEN [kept(thread[s][j]) EXCEPT !.linked = FALSE]
             ELSE kept(thread[s][j])]]
  /\ closing' = {c \in closing : ~(c.at = t /\ c.file = f)}
  /\ counter' = [counter EXCEPT ![t] = @ + 1]
  /\ UNCHANGED <<status, stuck, writes, crashes>>

\* Any other connection, a query or a probe: its thread ends by itself.
AcceptOther(t) ==
  /\ Accepting(t)
  /\ counter' = [counter EXCEPT ![t] = @ + 1]
  /\ UNCHANGED <<status, disk, thread, closing, stuck, writes, answered, crashes>>
\* Variant: counter is not reset after the joins.
JoinNoReset(t) ==
  /\ status[t] = "serving" /\ counter[t] = Batch
  /\ ~stuck[t]
  /\ \A k \in Slots : thread[t][k].pc = "free" /\ ~Receiving(t, k)
  /\ \A c \in closing : c.at # t
  /\ UNCHANGED vars

\* The accept loop has waited for all the threads it started.
Join(t) ==
  /\ status[t] = "serving" /\ counter[t] = Batch
  /\ ~stuck[t]
  /\ \A k \in Slots : thread[t][k].pc = "free" /\ ~Receiving(t, k)
  /\ \A c \in closing : c.at # t
  /\ counter' = [counter EXCEPT ![t] = 0]
  /\ UNCHANGED <<status, disk, thread, closing, stuck, writes, answered, crashes>>

----------------------------------------------------------------------------
(* Sync.                                                                   *)

\* Every Sync of the request has returned: the peer is answered.
Finish(t, k) ==
  /\ thread[t][k].pc = "sync" /\ thread[t][k].todo = {}
  /\ thread' = Goto(t, k, Free)
  /\ answered' = answered \cup ({thread[t][k].line} \ {0})
  /\ UNCHANGED <<status, disk, closing, stuck, counter, writes, crashes>>
\* Variant: the file is read when it is opened, before the receiver has
\* truncated its copy.
SyncProbeReads(t, k, f) ==
  /\ thread[t][k].pc = "sync" /\ f \in thread[t][k].todo
  /\ LET rest == [thread[t][k] EXCEPT !.todo = @ \ {f}] IN
     thread' = Goto(t, k, IF IsOnline(GetTracker2(t))
                          THEN [rest EXCEPT !.pc = "connect", !.file = f,
                                  !.data = disk[t][f], !.replaced = TRUE,
                                  !.linked = TRUE]
                          ELSE rest)
  /\ UNCHANGED <<status, disk, closing, stuck, counter, writes, answered, crashes>>

\* fopen, then the probe; Sync returns when the sibling is not there.
SyncProbe(t, k, f) ==
  /\ thread[t][k].pc = "sync" /\ f \in thread[t][k].todo
  /\ LET rest == [thread[t][k] EXCEPT !.todo = @ \ {f}] IN
     thread' = Goto(t, k, IF IsOnline(GetTracker2(t))
                          THEN [rest EXCEPT !.pc = "connect", !.file = f,
                                  !.replaced = FALSE, !.linked = TRUE]
                          ELSE rest)
  /\ UNCHANGED <<status, disk, closing, stuck, counter, writes, answered, crashes>>

\* The sibling still listens: the connection waits for its accept loop.
SyncConnect(t, k) ==
  /\ thread[t][k].pc = "connect"
  /\ IsOnline(GetTracker2(t))
  /\ thread' = Goto(t, k, [thread[t][k] EXCEPT !.pc = "handshake"])
  /\ UNCHANGED <<status, disk, closing, stuck, counter, writes, answered, crashes>>

\* The sibling accepts, reads "Sync f", and SyncRecv truncates the file and
\* sends its first acknowledgement.
SyncRecv(t, k) ==
  LET s == GetTracker2(t) IN
  /\ thread[t][k].pc = "handshake"
  /\ Accepting(s)
  /\ counter' = [counter EXCEPT ![s] = @ + 1]
  /\ disk' = [disk EXCEPT ![s][thread[t][k].file] = <<>>]
  /\ thread' = Goto(t, k, [thread[t][k] EXCEPT !.pc = "send"])
  /\ UNCHANGED <<status, closing, stuck, writes, answered, crashes>>

\* fread and the exchange of one chunk; the data stay in the receiver's buffer.
SyncSend(t, k) ==
  LET me == thread[t][k] IN
  /\ me.pc = "send"
  /\ thread' = Goto(t, k, [me EXCEPT !.pc = "over",
                             !.data = IF me.replaced THEN @ ELSE disk[t][me.file]])
  /\ UNCHANGED <<status, disk, closing, stuck, counter, writes, answered, crashes>>

\* "Sync Over" is sent and not acknowledged: Sync returns.
SyncOver(t, k) ==
  LET me == thread[t][k] IN
  /\ me.pc = "over"
  /\ thread' = Goto(t, k, [Free EXCEPT !.pc = "sync", !.todo = me.todo,
                                       !.line = me.line])
  /\ closing' = IF me.linked
                THEN closing \cup {[at |-> GetTracker2(t), file |-> me.file,
                                    data |-> me.data]}
                ELSE closing
  /\ UNCHANGED <<status, disk, stuck, counter, writes, answered, crashes>>
\* Variant: the copy is opened to append.
SyncCloseAppend(c) ==
  /\ disk' = [disk EXCEPT ![c.at][c.file] = @ \o c.data]
  /\ closing' = closing \ {c}
  /\ UNCHANGED <<status, thread, stuck, counter, writes, answered, crashes>>

\* The receiver reads "Sync Over" and closes the file.
SyncClose(c) ==
  /\ disk' = [disk EXCEPT ![c.at][c.file] = Overwrite(c.data, @)]
  /\ closing' = closing \ {c}
  /\ UNCHANGED <<status, thread, stuck, counter, writes, answered, crashes>>

----------------------------------------------------------------------------
(* Stopping and starting.                                                  *)

\* t stops.  Its half-received files stay as they are on its disk.  A SyncRecv
\* of the sibling that was reading from it never ends; a Sync of the sibling
\* to it fails and returns.
Stop(t) ==
  LET s == GetTracker2(t) IN
  /\ status' = [status EXCEPT ![t] = "down",
                  ![s] = IF @ = "handshake" THEN "listen" ELSE @]
  /\ stuck' = [stuck EXCEPT ![t] = FALSE,
                 ![s] = @ \/ \E k \in Slots : Receiving(s, k)]
  /\ counter' = [counter EXCEPT ![t] = 0]
  /\ closing' = {c \in closing : c.at # t}
  /\ thread' = [thread EXCEPT
       ![t] = [k \in Slots |-> Free],
       ![s] = [k \in Slots |->
         IF thread[s][k].pc \in {"handshake", "send", "over"}
         THEN [Free EXCEPT !.pc = "sync", !.todo = thread[s][k].todo,
                           !.line = thread[s][k].line]
         ELSE thread[s][k]]]
  /\ UNCHANGED <<disk, writes, answered>>

Crash(t) ==
  /\ status[t] # "down"
  /\ crashes < MaxCrashes
  /\ crashes' = crashes + 1
  /\ Stop(t)

\* connect fails after the probe succeeded: exit(-1), in Sync or in SyncAll.
SyncConnectFails(t, k) ==
  /\ thread[t][k].pc = "connect"
  /\ ~IsOnline(GetTracker2(t))
  /\ Stop(t)
  /\ UNCHANGED crashes

SyncAllConnectFails(t) ==
  /\ status[t] = "connect"
  /\ ~IsOnline(GetTracker2(t))
  /\ Stop(t)
  /\ UNCHANGED crashes

\* main: FetchDetails, SyncAll, and only then the server thread that listens.
Start(t) ==
  /\ status[t] = "down"
  /\ status' = [status EXCEPT ![t] = "probe"]
  /\ UNCHANGED <<disk, conns, writes, answered, crashes>>

SyncAll(t) ==
  LET up == IsOnline(GetTracker2(t)) IN
  /\ \/ /\ status[t] = "probe"
        /\ status' = [status EXCEPT ![t] = IF up THEN "connect" ELSE "listen"]
     \/ /\ status[t] = "connect" /\ up
        /\ status' = [status EXCEPT ![t] = "handshake"]
  /\ UNCHANGED <<disk, conns, writes, answered, crashes>>

\* The sibling takes the connection, reads "SyncAll" and will push every file;
\* the starting tracker goes on to listen.
SyncAllHandler(t, k) ==
  LET s == GetTracker2(t) IN
  /\ status[s] = "handshake"
  /\ Accepting(t)
  /\ thread[t][k].pc = "free"
  /\ thread' = Goto(t, k, [Free EXCEPT !.pc = "sync", !.todo = Files])
  /\ counter' = [counter EXCEPT ![t] = @ + 1]
  /\ status' = [status EXCEPT ![s] = "listen"]
  /\ UNCHANGED <<disk, closing, stuck, writes, answered, crashes>>

\* SyncAll closes the connection without reading from it, and the reset that
\* may follow discards its request: the sibling's thread reads nothing.
SyncAllLost(t) ==
  LET s == GetTracker2(t) IN
  /\ status[s] = "handshake"
  /\ Accepting(t)
  /\ counter' = [counter EXCEPT ![t] = @ + 1]
  /\ status' = [status EXCEPT ![s] = "listen"]
  /\ UNCHANGED <<disk, thread, closing, stuck, writes, answered, crashes>>

Listen(t) ==
  /\ status[t] = "listen"
  /\ status' = [status EXCEPT ![t] = "serving"]
  /\ UNCHANGED <<disk, conns, writes, answered, crashes>>

----------------------------------------------------------------------------

Empty ==
  /\ disk = [t \in Trackers |-> [f \in Files |-> <<>>]]
  /\ thread = [t \in Trackers |-> [k \in Slots |-> Free]]
  /\ closing = {}
  /\ stuck = [t \in Trackers |-> FALSE]
  /\ counter = [t \in Trackers |-> 0]
  /\ writes = 0
  /\ answered = {}
  /\ crashes = 0

Init == Empty /\ status = [t \in Trackers |-> "down"]

\* Both trackers are up before the first request.
InitServing == Empty /\ status = [t \in Trackers |-> "serving"]

Serve(t) ==
  \/ AcceptOther(t)
  \/ Join(t)
  \/ SyncAllLost(t)
  \/ \E k \in Slots, f \in Files :
       AcceptAppend(t, k, f) \/ \E l \in Lines : AcceptDelete(t, k, f, l)

Push(t, k) ==
  \/ Finish(t, k)
  \/ \E f \in Files : SyncProbe(t, k, f)
  \/ SyncConnect(t, k)
  \/ SyncSend(t, k)
  \/ SyncOver(t, k)

Boot(t) == Start(t) \/ SyncAll(t) \/ Listen(t) \/ SyncAllConnectFails(t)

Next ==
  \/ \E t \in Trackers : Serve(t) \/ Boot(t) \/ Crash(t)
  \/ \E t \in Trackers, k \in Slots :
       Push(t, k) \/ SyncRecv(t, k) \/ SyncConnectFails(t, k) \/ SyncAllHandler(t, k)
  \/ \E c \in closing : SyncClose(c)

\* Threads run, and a connection in the backlog, which is a queue, is taken
\* after finitely many others.
Fairness ==
  /\ \A t \in Trackers, k \in Slots :
       WF_vars(Push(t, k)) /\ SF_vars(SyncRecv(t, k)) /\ SF_vars(SyncAllHandler(t, k))
  /\ \A t \in Trackers : WF_vars(Join(t)) /\ WF_vars(SyncAll(t)) /\ WF_vars(Listen(t))
  /\ WF_vars(\E c \in closing : SyncClose(c))

Spec == Init /\ [][Next]_vars /\ Fairness
SpecServing == InitServing /\ [][Next]_vars /\ Fairness

----------------------------------------------------------------------------
(* What replication promises.                                              *)

LinesOf(t, f) ==
  {l \in Lines : \E i \in DOMAIN disk[t][f] : StandsAt(disk[t][f], i, l)}

\* Both trackers are up and no push is under way.
Quiet ==
  /\ \A t \in Trackers : status[t] = "serving"
  /\ \A t \in Trackers, k \in Slots : thread[t][k].pc = "free"
  /\ closing = {}

\* Lines were added and none was deleted.
OnlyAppends == answered = 1..writes

\* The copies are equal once every push has ended, although the threads of a
\* tracker push the same file at the same time and nothing orders them at the
\* receiver: Sync reads the file only after SyncRecv has truncated the copy.
\* After a deletion they need not be: Sync may have the replaced file open.
ReplicasAgree ==
  Quiet /\ OnlyAppends => \A t, s \in Trackers : disk[t] = disk[s]

\* Through crashes, restarts and dumps a byte that a request wrote is at one
\* place of one file, in both copies, and so never there twice.  (Lines need not
\* stay whole or in the order of the requests: between two pushes of a file a
\* dump may truncate the sender's copy, or the sender die; when the second push,
\* the shorter one, is closed after the first, the tail of the longer content
\* follows it, and may begin inside a line.)
BytesKeepTheirPlace ==
  \A t, s \in Trackers, f, g \in Files :
    \A i \in DOMAIN disk[t][f], j \in DOMAIN disk[s][g] :
      disk[t][f][i] = disk[s][g][j] => f = g /\ i = j

\* Every request is answered: the accept loops, which join their threads, and
\* the threads, which wait for the sibling's accept loop, do not wait for each
\* other in a circle.
RequestsAreAnswered ==
  \A t \in Trackers, k \in Slots :
    thread[t][k].pc # "free" ~> thread[t][k].pc = "free"

\* tracker.cpp:1408-1411 says that "the server thread keeps accepting
\* connections": each of the accept loops gets back to accept.
KeepsAccepting == \A t \in Trackers : []<>(Accepting(t) \/ status[t] # "serving")

\* README.md:168-170, "Kill tracker1 [...] mid-session and keep going -
\* everything still works through tracker2": what was answered before the kill
\* is on the survivor's disk.
SurvivorHasEverything ==
  \A t, s \in Trackers :
    /\ s # t /\ status[t] = "down" /\ status[s] = "serving"
    /\ \A c \in closing : c.at # s
    => answered \subseteq UNION {LinesOf(s, f) : f \in Files}
=============================================================================
