------------------------------ MODULE Handlers ------------------------------
(***************************************************************************)
(* The handler threads of one tracker, tracker.cpp, split at their lock    *)
(* operations.                                                             *)
(*                                                                         *)
(* Every request has a thread of its own (TrackerKernel).  The threads     *)
(* share the files, which file_lock is to protect, the scratch file        *)
(* .temp.txt, and the global maps, which nothing protects.  A handler is a *)
(* sequence of steps: what it reads or appends under file_lock is one step,*)
(* a rewritten file (DeleteLine, GroupStopShare) takes three, and whatever *)
(* is done without the lock is a step of its own.                          *)
(*                                                                         *)
(* A file is the set of its lines and a line the fields that handlers look *)
(* at; a name has one content here, so that GetGroupFileName and           *)
(* CheckIntegrity change nothing, and passwords are right.  The sibling is *)
(* up, so that Sync uses the FILE it opened; the exchange, and the dump a  *)
(* restarted tracker asks for, are the subject of TrackerSync.             *)
(***************************************************************************)
EXTENDS Naturals, Sequences

CONSTANTS
  Threads,
  Users, Groups, Names,
  Stored,       \* what earlier runs left in the files
  Requests,     \* the requests that may arrive, a subset of Request
  None,         \* no request; no iterator, or one into a map cleared since
  MaxRequests,  \* requests in all
  MaxKills      \* kills from outside, in all

\* The files under .all_files, and the global group_members.
Credential == <<"credential">>
Online == <<"online">>
Group == <<"group">>
Pending == <<"pending">>
MembersOf(g) == <<"members", g>>
FilesOf(g) == <<"files", g>>
UserFiles(u) == <<"user", u>>
Downloading(u) == <<"downloading", u>>
Downloaded(u) == <<"downloaded", u>>
GroupMembers == <<"group_members">>

\* FetchDetails has a map for each of these.
Cached == {Credential, Online, Group, Pending}

Files == Cached \cup {MembersOf(g) : g \in Groups} \cup {FilesOf(g) : g \in Groups}
           \cup UNION {{UserFiles(u), Downloading(u), Downloaded(u)} : u \in Users}
Maps == Cached \cup {GroupMembers}

\* The lines that belong in a file; the first field of most is the key.
LinesOf(f) ==
  CASE f[1] \in {"credential", "online", "members", "group_members"} -> {<<u>> : u \in Users}
    [] f[1] = "group"   -> Groups \X Users
    [] f[1] = "pending" -> Users \X Groups
    [] f[1] = "files"   -> Users \X Names
    [] OTHER            -> Groups \X Names
Lines == UNION {LinesOf(f) : f \in Files}

Gone == {<<>>}  \* the content of a file that is not there; <<>> is no line

Request == [cmd : {"login", "create_user", "create_group", "list_groups", "list_files",
                   "join_group", "accept_request", "upload_file", "stop_share",
                   "leave_group", "give_sha", "add_file", "complete", "logout",
                   "send_full_path"},
            user : Users, group : Groups, name : Names, who : Users]

ASSUME RequestsAssumption == Requests \subseteq Request
ASSUME NoneAssumption == None \notin Requests /\ None \notin Users
ASSUME StoredAssumption == /\ Stored \in [Files -> SUBSET Lines]
                           /\ \A f \in Files : Stored[f] \subseteq LinesOf(f)
ASSUME BoundsAssumption == MaxRequests \in Nat /\ MaxKills \in Nat

VARIABLES
  disk,      \* the files
  temp,      \* .temp.txt
  map,       \* credentials, online, groups, pending_group_requests, group_members
  lock,      \* file_lock is held
  thread,    \* the handler threads: request, next step, iterator, open file
  up,        \* the process runs
  requests,  \* accepted so far
  kills,
  intact     \* no section of the lock was opened to others or cut short

shared == <<disk, temp, map, lock>>
vars == <<shared, thread, up, requests, kills, intact>>

Read(f) == IF disk[f] = Gone THEN {} ELSE disk[f]

----------------------------------------------------------------------------
(* The steps a handler can consist of.                                     *)

Clear == [op |-> "clear"]                 \* the four maps
Load == [op |-> "load"]                   \* lock, read the four files, unlock
FetchDetails == <<Clear, Load>>

FetchGroupMembers(g) == [op |-> "members", file |-> MembersOf(g)]

\* Is one of these lines in map or file f?  If it is as wanted go on, else
\* go to the step given, 0 being a return.
Look(f, match, want, else) ==
  [op |-> "look", file |-> f, match |-> match, want |-> want, else |-> else]
Has(f, line) == Look(f, {line}, TRUE, 0)
HasNot(f, line) == Look(f, {line}, FALSE, 0)
HasGroup(g) == Look(Group, {g} \X Users, TRUE, 0)
HasNoGroup(g) == Look(Group, {g} \X Users, FALSE, 0)
Seek(f, match, want, else) == [Look(f, match, want, else) EXCEPT !.op = "seek"]

\* iter=groups.find(g), and later iter->second compared.
Find(g) == [op |-> "find", group |-> g]
OwnerIs(u, want) == [op |-> "owner_is", user |-> u, want |-> want]
OwnerOnline(then) == [op |-> "owner_online", then |-> then]

\* Files emptied, lines appended and map entries inserted under the lock.
Write(empty, append, insert) ==
  [op |-> "write", empty |-> empty, append |-> append, insert |-> insert]
Append1(f, line) == Write({}, {<<f, line>>}, {})
AppendUnlocked(f, line) == [Append1(f, line) EXCEPT !.op = "append"]
Insert(f, line) == [Write({}, {}, {<<f, line>>}) EXCEPT !.op = "insert"]
ReadLocked == Write({}, {}, {})
Unlock == [op |-> "unlock"]
Goto(n) == [op |-> "goto", to |-> n]
Sync(f) == [op |-> "sync", file |-> f]

\* CheckGroupFiles opens the file, then locks and returns if the line is there.
CheckGroupFiles(f, line) ==
  <<[op |-> "open", file |-> f], [op |-> "absent", file |-> f, line |-> line]>>

\* A file without the lines to drop is put together in .temp.txt, appended to
\* it if "add", and takes the place of the old one.
Rewrite(f, drop, add, take, release) ==
  <<[op |-> "copy", file |-> f, drop |-> drop, add |-> add, take |-> take],
    [op |-> "remove", file |-> f],
    [op |-> "rename", file |-> f, release |-> release]>>

\* Variant: the lock is not taken.
DeleteLineUnlocked(f, drop) == Rewrite(f, drop, TRUE, FALSE, FALSE)
DeleteLine(f, drop) == Rewrite(f, drop, TRUE, TRUE, TRUE)

----------------------------------------------------------------------------
(* The handlers.                                                           *)

UserLogin(u) ==
  FetchDetails \o
  <<Has(Credential, <<u>>), HasNot(Online, <<u>>), Insert(Online, <<u>>),
    Append1(Online, <<u>>), Sync(Online)>>

UserCreate(u) ==
  FetchDetails \o
  <<HasNot(Credential, <<u>>),
    Write({UserFiles(u), Downloading(u), Downloaded(u)},
          {<<Online, <<u>>>>, <<Credential, <<u>>>>}, {<<Online, <<u>>>>}),
    Sync(Online), Sync(Credential), Sync(UserFiles(u)), Sync(Downloading(u)),
    Sync(Downloaded(u))>> \o FetchDetails

\* Variant: the group's name goes where its owner's belongs.
GroupCreateSwapped(g, u) ==
  FetchDetails \o
  <<HasNoGroup(g), Write({MembersOf(g), FilesOf(g)}, {<<MembersOf(g), <<g>>>>}, {})>>

GroupCreate(g, u) ==
  FetchDetails \o
  <<HasNoGroup(g),
    Write({MembersOf(g), FilesOf(g)},
          {<<Group, <<g, u>>>>, <<MembersOf(g), <<u>>>>}, {}),
    Sync(Group), Sync(MembersOf(g)), Sync(FilesOf(g))>> \o FetchDetails

GroupList == FetchDetails \o <<Look(Group, {}, FALSE, 0)>>

GroupFileList(g) == FetchDetails \o <<HasGroup(g), ReadLocked>>

\* Variant: the map before the file.
GroupJoinMapFirst(g, u) ==
  <<Find(g), FetchGroupMembers(g), HasNot(GroupMembers, <<u>>), OwnerOnline(7),
    Look(Pending, {<<u, g>>}, FALSE, 9), Goto(7),
    Insert(Pending, <<u, g>>), Append1(Pending, <<u, g>>), Sync(Pending)>>

\* With the owner offline a request the map holds is not written again.
GroupJoin(g, u) ==
  <<Find(g), FetchGroupMembers(g), HasNot(GroupMembers, <<u>>), OwnerOnline(8),
    Look(Pending, {<<u, g>>}, FALSE, 10),
    Write({}, {<<Pending, <<u, g>>>>}, {<<Pending, <<u, g>>>>}), Goto(10),
    Append1(Pending, <<u, g>>), Insert(Pending, <<u, g>>), Sync(Pending)>>

GroupAcceptRequest(g, v, u) ==
  <<Find(g), Has(Credential, <<v>>), Has(Pending, <<v, g>>), OwnerIs(u, TRUE),
    FetchGroupMembers(g), HasNot(GroupMembers, <<v>>),
    Append1(MembersOf(g), <<v>>)>>
  \o DeleteLine(Pending, {<<v, g>>}) \o <<Sync(Pending), Sync(MembersOf(g))>>

GroupFileUpload(g, u, n) ==
  <<HasGroup(g), FetchGroupMembers(g), Has(GroupMembers, <<u>>)>>
  \o CheckGroupFiles(FilesOf(g), <<u, n>>) \o
  <<ReadLocked, ReadLocked,
    Write({}, {<<FilesOf(g), <<u, n>>>>, <<UserFiles(u), <<g, n>>>>}, {}),
    Sync(FilesOf(g)), Sync(UserFiles(u))>>

\* Variant: the lock is released between the two files.
GroupStopShareReleased(g, n, u) ==
  <<HasGroup(g), Has(Credential, <<u>>), FetchGroupMembers(g),
    Has(GroupMembers, <<u>>)>>
  \o Rewrite(FilesOf(g), {<<u, n>>}, FALSE, TRUE, TRUE)
  \o Rewrite(UserFiles(u), {<<g, n>>}, FALSE, FALSE, TRUE)
  \o <<Sync(FilesOf(g)), Sync(UserFiles(u))>>

GroupStopShare(g, n, u) ==
  <<HasGroup(g), Has(Credential, <<u>>), FetchGroupMembers(g),
    Has(GroupMembers, <<u>>)>>
  \o Rewrite(FilesOf(g), {<<u, n>>}, FALSE, TRUE, FALSE)
  \o Rewrite(UserFiles(u), {<<g, n>>}, FALSE, FALSE, TRUE)
  \o <<Sync(FilesOf(g)), Sync(UserFiles(u))>>

GroupLeave(g, u) ==
  <<Find(g), FetchGroupMembers(g), Has(GroupMembers, <<u>>), OwnerIs(u, FALSE)>>
  \o DeleteLine(MembersOf(g), {<<u>>}) \o DeleteLine(FilesOf(g), {u} \X Names)
  \o DeleteLine(UserFiles(u), {g} \X Names)
  \o <<Sync(MembersOf(g)), Sync(FilesOf(g)), Sync(UserFiles(u))>> \o FetchDetails

SendSHA(g, n, u) ==
  FetchDetails \o
  <<HasGroup(g), FetchGroupMembers(g), Has(GroupMembers, <<u>>),
    Append1(Downloading(u), <<g, n>>), Sync(Downloading(u))>>

\* Reads and appends without the lock, and releases it if the user shares a
\* file of that name already.
UpdateDownload(g, n, u) ==
  FetchDetails \o
  <<Seek(UserFiles(u), Groups \X {n}, FALSE, 9),
    AppendUnlocked(UserFiles(u), <<g, n>>), AppendUnlocked(FilesOf(g), <<u, n>>),
    Sync(FilesOf(g)), Sync(UserFiles(u)), Goto(0), Unlock>>

CompleteDownload(g, n, u) ==
  FetchDetails \o DeleteLine(Downloading(u), {<<g, n>>}) \o
  <<AppendUnlocked(Downloaded(u), <<g, n>>), Sync(Downloaded(u)),
    Sync(Downloading(u))>>

Logout(u) ==
  FetchDetails \o <<Has(Online, <<u>>)>> \o DeleteLine(Online, {<<u>>})
  \o <<Sync(Online)>> \o FetchDetails

GetFullPath(g, n, u) == <<Seek(UserFiles(u), {<<g, n>>}, TRUE, 0)>>

\* TrackerKernel's dispatch; the other queries are like list_files.
Handler(r) ==
  LET u == r.user
      g == r.group
      n == r.name
  IN
  CASE r.cmd = "login"          -> UserLogin(u)
    [] r.cmd = "create_user"    -> UserCreate(u)
    [] r.cmd = "create_group"   -> GroupCreate(g, u)
    [] r.cmd = "list_groups"    -> GroupList
    [] r.cmd = "list_files"     -> GroupFileList(g)
    [] r.cmd = "join_group"     -> GroupJoin(g, u)
    [] r.cmd = "accept_request" -> GroupAcceptRequest(g, r.who, u)
    [] r.cmd = "upload_file"    -> GroupFileUpload(g, u, n)
    [] r.cmd = "stop_share"     -> GroupStopShare(g, n, u)
    [] r.cmd = "leave_group"    -> GroupLeave(g, u)
    [] r.cmd = "give_sha"       -> SendSHA(g, n, u)
    [] r.cmd = "add_file"       -> UpdateDownload(g, n, u)
    [] r.cmd = "complete"       -> CompleteDownload(g, n, u)
    [] r.cmd = "logout"         -> Logout(u)
    [] r.cmd = "send_full_path" -> GetFullPath(g, n, u)


Program == [r \in Requests |-> Handler(r)]

----------------------------------------------------------------------------
(* A thread is at the step pc of its request's handler.                    *)

Free == [req |-> None, pc |-> 0, iter |-> None, view |-> None]

Busy(k) == thread[k].req # None
Step(k) == Program[thread[k].req][thread[k].pc]
At(k, op) == Busy(k) /\ Step(k).op = op

\* The thread t, at its step n; past the last step, or at 0, it has ended.
Jump(t, n) == IF n \in DOMAIN Program[t.req] THEN [t EXCEPT !.pc = n] ELSE Free
Proceed(k, n) == thread' = [thread EXCEPT ![k] = Jump(@, n)]
Continue(k) == Proceed(k, thread[k].pc + 1)

Unchanged == UNCHANGED <<up, requests, kills>>

TypeOK ==
  /\ disk \in [Files -> (SUBSET Lines) \cup {Gone}]
  /\ temp \in (SUBSET Lines) \cup {Gone}
  /\ map \in [Maps -> SUBSET Lines]
  /\ lock \in BOOLEAN /\ up \in BOOLEAN /\ intact \in BOOLEAN
  /\ requests \in 0..MaxRequests /\ kills \in 0..MaxKills
  /\ thread \in [Threads -> [req : Requests \cup {None}, pc : Nat,
                             iter : Users \cup {None}, view : (SUBSET Lines) \cup {None}]]
  /\ \A k \in Threads : IF Busy(k) THEN thread[k].pc \in DOMAIN Program[thread[k].req]
                                   ELSE thread[k] = Free

----------------------------------------------------------------------------
(* The process ends: every thread with it, the maps, the lock.             *)

\* Thread k is between the copy and the rename of a file, or of f.
Rewriting(k) == At(k, "remove") \/ At(k, "rename")
BeingRewritten(f) == \E k \in Threads : Rewriting(k) /\ Step(k).file = f

\* Thread k may be in a section of the lock that is one step here.
UnderLock(k) == \E op \in {"load", "members", "write", "absent"} : At(k, op)

Die ==
  /\ up' = FALSE
  /\ thread' = [k \in Threads |-> Free]
  /\ map' = [m \in Maps |-> {}]
  /\ lock' = FALSE
  /\ intact' = (intact /\ \A k \in Threads : ~Rewriting(k))
  /\ UNCHANGED <<disk, temp, requests>>

----------------------------------------------------------------------------
(* The steps.                                                              *)

\* Another thread's iterator into groups becomes invalid.
ClearMaps(k) ==
  /\ At(k, "clear")
  /\ map' = [m \in Maps |-> IF m \in Cached THEN {} ELSE map[m]]
  /\ thread' = [j \in Threads |->
                  IF j = k THEN Jump(thread[k], thread[k].pc + 1)
                  ELSE [thread[j] EXCEPT !.iter = None]]
  /\ UNCHANGED <<disk, temp, lock, intact>> /\ Unchanged

\* A file that is not there is created empty.
LoadFiles ==
  /\ map' = [m \in Maps |-> IF m \in Cached THEN map[m] \cup Read(m) ELSE map[m]]
  /\ disk' = [f \in Files |-> IF f \in Cached THEN Read(f) ELSE disk[f]]

LoadMaps(k) ==
  /\ At(k, "load") /\ ~lock
  /\ LoadFiles
  /\ Continue(k)
  /\ UNCHANGED <<temp, lock, intact>> /\ Unchanged

LoadMembers(k) ==
  /\ At(k, "members") /\ ~lock
  /\ map' = [map EXCEPT ![GroupMembers] = Read(Step(k).file)]
  /\ Continue(k)
  /\ UNCHANGED <<disk, temp, lock, intact>> /\ Unchanged

\* A look into a map, or into a file without the lock.
LookUp(k) ==
  /\ At(k, "look") \/ At(k, "seek")
  /\ LET s == Step(k)
         lines == IF s.op = "look" THEN map[s.file] ELSE Read(s.file)
         found == lines \cap s.match # {}
     IN  IF found = s.want THEN Continue(k) ELSE Proceed(k, s.else)
  /\ UNCHANGED <<shared, intact>> /\ Unchanged

FindGroup(k) ==
  /\ At(k, "find")
  /\ LET owners == {l[2] : l \in {e \in map[Group] : e[1] = Step(k).group}} IN
     IF owners = {} THEN Proceed(k, 0)
     ELSE \E o \in owners :
            thread' = [thread EXCEPT ![k] = Jump([@ EXCEPT !.iter = o], @.pc + 1)]
  /\ UNCHANGED <<shared, intact>> /\ Unchanged

\* What an iterator into a cleared map points to compares either way.
Compared(k, users) ==
  IF thread[k].iter = None THEN BOOLEAN ELSE {thread[k].iter \in users}

CompareOwner(k) ==
  /\ \/ /\ At(k, "owner_is")
        /\ \E yes \in Compared(k, {Step(k).user}) :
             IF yes = Step(k).want THEN Continue(k) ELSE Proceed(k, 0)
     \/ /\ At(k, "owner_online")
        /\ \E yes \in Compared(k, {l[1] : l \in map[Online]}) :
             IF yes THEN Proceed(k, Step(k).then) ELSE Continue(k)
  /\ UNCHANGED <<shared, intact>> /\ Unchanged

\* f after the lines w.append were added to it, w.empty being emptied first.
Put(w, f) ==
  LET added == {a[2] : a \in {b \in w.append : b[1] = f}} IN
  IF f \in w.empty THEN added
  ELSE IF added = {} THEN disk[f] ELSE Read(f) \cup added

WriteFiles(k) ==
  /\ \/ At(k, "write") /\ ~lock
     \/ At(k, "append")
     \/ At(k, "insert")
  /\ LET s == Step(k) IN
     /\ disk' = [f \in Files |-> Put(s, f)]
     /\ map' = [m \in Maps |-> map[m] \cup {a[2] : a \in {b \in s.insert : b[1] = m}}]
     /\ intact' = (intact /\ \A a \in s.append : ~BeingRewritten(a[1]))
  /\ Continue(k)
  /\ UNCHANGED <<temp, lock>> /\ Unchanged

\* The stream fails when there is no file.
OpenFile(k) ==
  /\ At(k, "open")
  /\ LET view == IF disk[Step(k).file] = Gone THEN {} ELSE None
     IN  thread' = [thread EXCEPT ![k] = Jump([@ EXCEPT !.view = view], @.pc + 1)]
  /\ UNCHANGED <<shared, intact>> /\ Unchanged

\* Variant: the early return keeps the lock.
SearchFileKeepsLock(k) ==
  /\ At(k, "absent") /\ ~lock
  /\ LET lines == IF thread[k].view = None THEN Read(Step(k).file) ELSE thread[k].view
     IN  IF Step(k).line \in lines THEN Proceed(k, 0) /\ lock' = TRUE
         ELSE Continue(k) /\ lock' = FALSE
  /\ UNCHANGED <<disk, temp, map, intact>> /\ Unchanged

\* CheckGroupFiles reads the file it opened, replaced since or not.
SearchFile(k) ==
  /\ At(k, "absent") /\ ~lock
  /\ LET lines == IF thread[k].view = None THEN Read(Step(k).file) ELSE thread[k].view
     IN  IF Step(k).line \in lines THEN Proceed(k, 0)
         ELSE thread' = [thread EXCEPT ![k] = Jump([@ EXCEPT !.view = None], @.pc + 1)]
  /\ UNCHANGED <<shared, intact>> /\ Unchanged

\* The lines go to what .temp.txt holds if it is opened to append.
CopyFile(k) ==
  /\ At(k, "copy")
  /\ Step(k).take => ~lock
  /\ lock' = (lock \/ Step(k).take)
  /\ temp' = (IF Step(k).add /\ temp # Gone THEN temp ELSE {})
               \cup (Read(Step(k).file) \ Step(k).drop)
  /\ Continue(k)
  /\ UNCHANGED <<disk, map, intact>> /\ Unchanged

\* Those who have the old file open keep it.
RemoveFile(k) ==
  LET f == Step(k).file IN
  /\ At(k, "remove")
  /\ disk' = [disk EXCEPT ![f] = Gone]
  /\ thread' = [j \in Threads |->
       IF j = k THEN Jump(thread[k], thread[k].pc + 1)
       ELSE IF At(j, "absent") /\ Step(j).file = f /\ thread[j].view = None
       THEN [thread[j] EXCEPT !.view = Read(f)]
       ELSE thread[j]]
  /\ UNCHANGED <<temp, map, lock, intact>> /\ Unchanged

\* Without a .temp.txt the rename fails, which nobody notices.
RenameFile(k) ==
  /\ At(k, "rename")
  /\ disk' = [disk EXCEPT ![Step(k).file] = IF temp = Gone THEN @ ELSE temp]
  /\ temp' = Gone
  /\ lock' = (lock /\ ~Step(k).release)
  /\ Continue(k)
  /\ UNCHANGED <<map, intact>> /\ Unchanged

\* UpdateDownload's unlock without a lock, whoever holds it: a third thread may
\* then enter the section.
StrayUnlock(k) ==
  /\ At(k, "unlock")
  /\ lock' = FALSE
  /\ intact' = (intact /\ ~lock /\ \A j \in Threads : ~UnderLock(j))
  /\ Continue(k)
  /\ UNCHANGED <<disk, temp, map>> /\ Unchanged

Jumps(k) ==
  /\ At(k, "goto")
  /\ Proceed(k, Step(k).to)
  /\ UNCHANGED <<shared, intact>> /\ Unchanged

\* fopen, without the lock; fread from the null FILE ends the process.
SyncFile(k) ==
  /\ At(k, "sync")
  /\ \/ /\ disk[Step(k).file] # Gone
        /\ Continue(k)
        /\ UNCHANGED <<shared, intact>> /\ Unchanged
     \/ /\ disk[Step(k).file] = Gone
        /\ Die
        /\ UNCHANGED kills

----------------------------------------------------------------------------
(* Undefined behaviour, kills, starts.                                     *)

MapsWritten(k) ==
  IF At(k, "clear") \/ At(k, "load") THEN Cached
  ELSE IF At(k, "members") THEN {GroupMembers}
  ELSE IF At(k, "insert") \/ At(k, "write") THEN {a[1] : a \in Step(k).insert}
  ELSE {}

MapsRead(k) ==
  IF At(k, "look") THEN {Step(k).file}
  ELSE IF At(k, "find") THEN {Group}
  ELSE IF At(k, "owner_online") THEN {Group, Online}
  ELSE IF At(k, "owner_is") THEN {Group}
  ELSE {}

\* Two threads use a map at the same time, one of them to change it, or an
\* iterator into a cleared map is followed: the process may end.
Race ==
  /\ \/ \E j, k \in Threads :
          /\ j # k
          /\ MapsWritten(j) \cap (MapsRead(k) \cup MapsWritten(k)) # {}
          /\ ~(UnderLock(j) /\ UnderLock(k))
          /\ (UnderLock(j) \/ UnderLock(k)) => ~lock
     \/ \E k \in Threads :
          (At(k, "owner_is") \/ At(k, "owner_online")) /\ thread[k].iter = None
  /\ Die
  /\ UNCHANGED kills

Kill ==
  /\ up
  /\ kills < MaxKills
  /\ kills' = kills + 1
  /\ Die

\* main: FetchDetails, before there is any other thread.
Restart ==
  /\ ~up
  /\ up' = TRUE
  /\ LoadFiles
  /\ UNCHANGED <<temp, lock, thread, requests, kills, intact>>

\* TrackerServer creates a thread for a connection.
Accept(k, r) ==
  /\ up /\ ~Busy(k)
  /\ requests < MaxRequests
  /\ requests' = requests + 1
  /\ thread' = [thread EXCEPT ![k] = [Free EXCEPT !.req = r, !.pc = 1]]
  /\ UNCHANGED <<shared, up, kills, intact>>

----------------------------------------------------------------------------

Run(k) ==
  \/ ClearMaps(k) \/ LoadMaps(k) \/ LoadMembers(k)
  \/ LookUp(k) \/ FindGroup(k) \/ CompareOwner(k)
  \/ WriteFiles(k) \/ OpenFile(k) \/ SearchFile(k)
  \/ CopyFile(k) \/ RemoveFile(k) \/ RenameFile(k)
  \/ StrayUnlock(k) \/ Jumps(k) \/ SyncFile(k)

Next ==
  \/ \E k \in Threads : Run(k) \/ \E r \in Requests : Accept(k, r)
  \/ Race \/ Kill \/ Restart


\* A tracker started over the files of earlier runs.
Init ==
  /\ disk = Stored
  /\ temp = Gone
  /\ map = [m \in Maps |-> IF m \in Cached THEN Stored[m] ELSE {}]
  /\ lock = FALSE
  /\ thread = [k \in Threads |-> Free]
  /\ up = TRUE
  /\ requests = 0
  /\ kills = 0
  /\ intact = TRUE

\* Threads run.  A thread that waits for the lock gets it once nobody takes it
\* any more, which is all a pthread mutex promises.
Fairness == \A k \in Threads : WF_vars(Run(k))

Spec == Init /\ [][Next]_vars /\ Fairness

----------------------------------------------------------------------------
(* What the lock is to achieve.                                            *)

\* The lines of f, which are in .temp.txt while the file is being replaced.
Content(f) == IF disk[f] # Gone THEN disk[f] ELSE IF temp = Gone THEN {} ELSE temp

\* r asks for the removal of this line of f.
Removes(r, f, line) ==
  \/ r.cmd = "logout" /\ f = Online /\ line = <<r.user>>
  \/ r.cmd = "accept_request" /\ f = Pending /\ line = <<r.who, r.group>>
  \/ r.cmd = "complete" /\ f = Downloading(r.user) /\ line = <<r.group, r.name>>
  \/ r.cmd = "stop_share" /\ \/ f = FilesOf(r.group) /\ line = <<r.user, r.name>>
                             \/ f = UserFiles(r.user) /\ line = <<r.group, r.name>>
  \/ r.cmd = "leave_group" /\ \/ f = MembersOf(r.group) /\ line = <<r.user>>
                              \/ f = FilesOf(r.group) /\ line[1] = r.user
                              \/ f = UserFiles(r.user) /\ line[1] = r.group

\* r starts f afresh.
StartsAfresh(r, f) ==
  \/ r.cmd = "create_user" /\ f \in {UserFiles(r.user), Downloading(r.user), Downloaded(r.user)}
  \/ r.cmd = "create_group" /\ f \in {MembersOf(r.group), FilesOf(r.group)}

\* Requests served at the same time lose nothing of each other's, although others
\* append between DeleteLine's copy and its rename: a line goes away only because
\* a thread at work was asked to remove that line, or is the write of create_user
\* or create_group, which start the files of the name they were given afresh.
\* That name may be taken, the maps being cleared without the lock: what is lost
\* then is the subject of SharedStateIsKept.  Excepted are add_file, which appends
\* without the lock and may release another thread's, and a process that ends
\* between copy and rename.
NothingElseIsLost ==
  [][intact' =>
       \A f \in Files : \A line \in Content(f) \ Content(f)' :
         \E k \in Threads :
           \/ Busy(k) /\ Removes(thread[k].req, f, line)
           \/ At(k, "write") /\ StartsAfresh(thread[k].req, f)]_vars

\* .temp.txt, which DeleteLine opens to append, is there only while a thread
\* is rewriting a file, so that no line of one file gets into another.
FilesDoNotMix ==
  intact => /\ \A f \in Files : Content(f) \subseteq LinesOf(f)
            /\ temp # Gone => \E k \in Threads : Rewriting(k)

\* When no thread is at work the maps hold every account, group and request
\* of the files, although FetchDetails empties them without the lock while
\* others fill them.  (online may lack a user who is logged in: UserLogin
\* inserts him before he is in the file and does not reload.)
MapsCatchUp ==
  intact /\ up /\ (\A k \in Threads : ~Busy(k)) =>
    /\ map[Credential] = Read(Credential)
    /\ map[Group] = Read(Group)
    /\ Read(Pending) \subseteq map[Pending]

\* Every handler ends, with a reply or with the process: none waits for ever
\* for file_lock, which has an unlock on every path.
HandlersEnd == \A k \in Threads : Busy(k) ~> ~Busy(k)

\* README.md:39-40, "hold all shared state (users, groups, which peer has which
\* file) as flat text files under `.all_files/`, guarded by a mutex": requests that
\* are served at the same time lose nothing that no one asked to remove; neither do
\* create_user and create_group of a name that is taken.
SharedStateIsKept ==
  [][intact' =>
       \A f \in Files : \A line \in Content(f) \ Content(f)' :
         \E k \in Threads : Busy(k) /\ Removes(thread[k].req, f, line)]_vars
=============================================================================
