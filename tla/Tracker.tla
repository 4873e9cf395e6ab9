------------------------------ MODULE Tracker ------------------------------
(***************************************************************************)
(* One tracker and the peers that talk to it.                              *)
(*                                                                         *)
(* The tracker keeps every registry in a text file under .all_files/ and   *)
(* copies four of them into global maps (FetchDetails).  Some handlers     *)
(* reload the maps first, some afterwards, and some never do, so the maps  *)
(* and the files are separate variables here: what a handler decides from  *)
(* a stale map is the interesting part of this component.                  *)
(*                                                                         *)
(* A file is modelled by the set of its lines, or by a function where the  *)
(* code never writes a second line with the same key.  A handler is one    *)
(* action: requests are served one at a time, and the sibling tracker is   *)
(* down, so that Sync returns after its probe.  Paths, file sizes, salts   *)
(* and the wording of replies are left out; a reply shows only in what the *)
(* peer does next.  add_file and complete have no reply: the peer closes   *)
(* the connection and goes on, and the handler runs some time later.       *)
(***************************************************************************)

CONSTANTS
  Users,      \* account names
  Peers,      \* peer processes; a peer stands for its ip and port
  Groups,     \* group names
  Names,      \* file names, the last component of an uploaded path
  Hashes,     \* file hashes, the concatenated SHA-1 of the chunks
  Passwords,
  None,       \* no such line, or not logged in, or not downloading
  NoHash      \* the empty string in the hash field of a line

ASSUME NoneAssumption ==
  /\ None \notin Users
  /\ None \notin Peers
  /\ None \notin Passwords
  /\ None \notin [group : Groups, name : Names, hash : Hashes]

ASSUME NoHashAssumption == NoHash \notin Hashes

VARIABLES
  credentialFile,   \* .credential.txt: the password of each account
  onlineFile,       \* .online.txt: the address of each user marked online
  groupFile,        \* .group.txt: the owner of each group
  pendingFile,      \* .pending.txt: join requests, <<user, group>>
  memberFile,       \* .group_<g>.txt
  groupFiles,       \* .group_<g>_files.txt: who shares which file
  userFiles,        \* .files_<u>.txt: <<group, name>> and the path, left out
  downloadingFile,  \* .files_<u>_downloading.txt: <<group, name>>
  downloadedFile,   \* .files_<u>_downloaded.txt: <<group, name>>
  credentials, online, groups, pending_group_requests, \* the global maps
  session,          \* login_flag and username of each peer
  target,           \* what DownloadFile is busy with, the hash as give_sha told it
  phase,            \* how far DownloadFile has got
  notices           \* add_file and complete sent and not yet handled

registry == <<credentialFile, onlineFile, groupFile, pendingFile, memberFile>>
sharing  == <<groupFiles, userFiles>>
history  == <<downloadingFile, downloadedFile>>
maps     == <<credentials, online, groups, pending_group_requests>>
peers    == <<session, target, phase>>
vars     == <<registry, sharing, history, maps, peers, notices>>

Entry == [hash : Hashes \cup {NoHash}, user : Users, name : Names]
Job == [group : Groups, name : Names, hash : Hashes]
Notice == [cmd : {"add_file", "complete"}, user : Users,
           group : Groups, name : Names]

TypeOK ==
  /\ credentialFile  \in [Users -> Passwords \cup {None}]
  /\ onlineFile      \in [Users -> Peers \cup {None}]
  /\ groupFile       \in [Groups -> Users \cup {None}]
  /\ pendingFile     \in SUBSET (Users \X Groups)
  /\ memberFile      \in [Groups -> SUBSET Users]
  /\ groupFiles      \in [Groups -> SUBSET Entry]
  /\ userFiles       \in [Users -> SUBSET (Groups \X Names)]
  /\ downloadingFile \in [Users -> SUBSET (Groups \X Names)]
  /\ downloadedFile  \in [Users -> SUBSET (Groups \X Names)]
  /\ credentials     \in [Users -> Passwords \cup {None}]
  /\ online          \in SUBSET Users
  /\ groups          \in [Groups -> Users \cup {None}]
  /\ pending_group_requests \in SUBSET (Users \X Groups)
  /\ session         \in [Peers -> Users \cup {None}]
  /\ target          \in [Peers -> Job \cup {None}]
  /\ phase           \in [Peers -> {"idle", "located", "fetching"}]
  /\ notices \subseteq Notice

----------------------------------------------------------------------------
(* What the handlers read.                                                 *)

OnlineUsers == {u \in Users : onlineFile[u] # None}

\* The entries of group g for the file called n.
Sharers(g, n) == {e \in groupFiles[g] : e.name = n}

\* Variant for testing OneHashPerName: the name is taken as it comes.
GetGroupFileNameUnchanged(g, h, n) == {n}

\* The name under which g already shares hash h, or else n.  The code takes
\* the first matching line; the lines have no order here, hence a set.
GetGroupFileName(g, h, n) ==
  LET same == {e \in groupFiles[g] : e.hash = h}
  IN  IF same = {} THEN {n} ELSE {e.name : e \in same}

\* u already shares the content h in g.
CheckGroupFiles(g, h, u) == \E e \in groupFiles[g] : e.hash = h /\ e.user = u

\* Another content is shared in g under the name n.
CheckIntegrity(g, h, n) == \E e \in Sharers(g, n) : e.hash # h

\* The hash UpdateDownload copies from the first line for n, if there is one.
HashForUpdate(g, n) ==
  IF Sharers(g, n) = {} THEN {NoHash} ELSE {e.hash : e \in Sharers(g, n)}

\* The answers of the query handlers.
GroupRequestListAnswer(g, u) ==
  IF groupFile[g] = u THEN {v \in Users : <<v, g>> \in pendingFile} ELSE {}

GroupFileListAnswer(g) ==
  IF groupFile[g] = None THEN {} ELSE {e.name : e \in groupFiles[g]}

SendSeedersAnswer(g, n) == {e.user : e \in Sharers(g, n)} \cap OnlineUsers

\* send_full_path finds a path.
GetFullPathAnswer(u, g, n) == <<g, n>> \in userFiles[u]

ShowDownloadsAnswer(u) == [D |-> downloadingFile[u], C |-> downloadedFile[u]]

----------------------------------------------------------------------------
(* FetchDetails rereads the four files into the maps.  At the start of a   *)
(* handler it sees them as they were, at the end what the handler wrote.   *)

FetchDetails ==
  /\ credentials' = credentialFile
  /\ online' = OnlineUsers
  /\ groups' = groupFile
  /\ pending_group_requests' = pendingFile

FetchDetailsAfter ==
  /\ credentials' = credentialFile'
  /\ online' = OnlineUsers'
  /\ groups' = groupFile'
  /\ pending_group_requests' = pendingFile'

\* The command loop of p is at its prompt, and logged in as u.
Prompt(p, u) == target[p] = None /\ session[p] = u

----------------------------------------------------------------------------
(* Accounts.                                                               *)

\* A user already marked online keeps the address of the earlier login.
UserLogin(p, u, w) ==
  LET ok == credentialFile[u] = w IN
  /\ Prompt(p, None)
  /\ onlineFile' = IF ok /\ onlineFile[u] = None
                   THEN [onlineFile EXCEPT ![u] = p] ELSE onlineFile
  /\ session' = IF ok THEN [session EXCEPT ![p] = u] ELSE session
  /\ UNCHANGED <<credentialFile, groupFile, pendingFile, memberFile, sharing,
                 history, target, phase, notices>>
  /\ FetchDetailsAfter

\* An account that exists is refused; a new one starts with empty files.
UserCreate(p, u, w) ==
  /\ Prompt(p, None)
  /\ \/ /\ credentialFile[u] = None
        /\ onlineFile' = [onlineFile EXCEPT ![u] = p]
        /\ credentialFile' = [credentialFile EXCEPT ![u] = w]
        /\ userFiles' = [userFiles EXCEPT ![u] = {}]
        /\ downloadingFile' = [downloadingFile EXCEPT ![u] = {}]
        /\ downloadedFile' = [downloadedFile EXCEPT ![u] = {}]
        /\ session' = [session EXCEPT ![p] = u]
     \/ /\ credentialFile[u] # None
        /\ UNCHANGED <<onlineFile, credentialFile, userFiles, history, session>>
  /\ UNCHANGED <<groupFile, pendingFile, memberFile, groupFiles, target, phase,
                 notices>>
  /\ FetchDetailsAfter

\* The peer forgets its login only when the tracker had the user online.
Logout(p, u) ==
  /\ Prompt(p, u)
  /\ onlineFile' = [onlineFile EXCEPT ![u] = None]
  /\ session' = IF onlineFile[u] # None
                THEN [session EXCEPT ![p] = None] ELSE session
  /\ UNCHANGED <<credentialFile, groupFile, pendingFile, memberFile, sharing,
                 history, target, phase, notices>>
  /\ FetchDetailsAfter

----------------------------------------------------------------------------
(* Groups.                                                                 *)

GroupCreate(p, u, g) ==
  /\ Prompt(p, u)
  /\ \/ /\ groupFile[g] = None
        /\ groupFile' = [groupFile EXCEPT ![g] = u]
        /\ memberFile' = [memberFile EXCEPT ![g] = {u}]
        /\ groupFiles' = [groupFiles EXCEPT ![g] = {}]
     \/ /\ groupFile[g] # None
        /\ UNCHANGED <<groupFile, memberFile, groupFiles>>
  /\ UNCHANGED <<credentialFile, onlineFile, pendingFile, userFiles, history,
                 peers, notices>>
  /\ FetchDetailsAfter

\* Variant for testing TypeOK: the arguments change places.
GroupJoinSwapped(p, u, g) ==
  /\ Prompt(p, u)
  /\ groups[g] # None
  /\ u \notin memberFile[g]
  /\ pendingFile' = pendingFile \cup {<<g, u>>}
  /\ UNCHANGED <<credentialFile, onlineFile, groupFile, memberFile, sharing,
                 history, maps, peers, notices>>

\* Decides from the maps as the last handler left them.  A request is not
\* written again when the owner is offline and the map already holds it.
GroupJoin(p, u, g) ==
  /\ Prompt(p, u)
  /\ groups[g] # None
  /\ u \notin memberFile[g]
  /\ groups[g] \in online \/ <<u, g>> \notin pending_group_requests
  /\ pendingFile' = pendingFile \cup {<<u, g>>}
  /\ pending_group_requests' = pending_group_requests \cup {<<u, g>>}
  /\ UNCHANGED <<credentialFile, onlineFile, groupFile, memberFile, sharing,
                 history, credentials, online, groups, peers, notices>>

\* Variant for testing RequestsAreOpen: the line is not deleted.
GroupAcceptRequestKeep(p, u, g, v) ==
  /\ Prompt(p, u)
  /\ groups[g] = u
  /\ <<v, g>> \in pending_group_requests
  /\ memberFile' = [memberFile EXCEPT ![g] = @ \cup {v}]
  /\ UNCHANGED <<credentialFile, onlineFile, groupFile, pendingFile, sharing,
                 history, maps, peers, notices>>

\* Decides from the maps and leaves them alone: the accepted request stays
\* in pending_group_requests until the next FetchDetails.
GroupAcceptRequest(p, u, g, v) ==
  /\ Prompt(p, u)
  /\ groups[g] = u
  /\ credentials[v] # None
  /\ <<v, g>> \in pending_group_requests
  /\ v \notin memberFile[g]
  /\ memberFile' = [memberFile EXCEPT ![g] = @ \cup {v}]
  /\ pendingFile' = pendingFile \ {<<v, g>>}
  /\ UNCHANGED <<credentialFile, onlineFile, groupFile, sharing, history,
                 maps, peers, notices>>

\* Variants for testing ImplementsMembership, the owner may go too, and
\* MapsAgreeWithFiles, the maps are not reloaded.
GroupLeaveOwner(p, u, g) ==
  /\ Prompt(p, u)
  /\ u \in memberFile[g]
  /\ memberFile' = [memberFile EXCEPT ![g] = @ \ {u}]
  /\ groupFiles' = [groupFiles EXCEPT ![g] = {e \in @ : e.user # u}]
  /\ userFiles' = [userFiles EXCEPT ![u] = {f \in @ : f[1] # g}]
  /\ UNCHANGED <<credentialFile, onlineFile, groupFile, pendingFile, history,
                 peers, notices>>
  /\ FetchDetailsAfter

GroupLeaveNoReload(p, u, g) ==
  /\ Prompt(p, u)
  /\ u \in memberFile[g]
  /\ groups[g] # u
  /\ memberFile' = [memberFile EXCEPT ![g] = @ \ {u}]
  /\ groupFiles' = [groupFiles EXCEPT ![g] = {e \in @ : e.user # u}]
  /\ userFiles' = [userFiles EXCEPT ![u] = {f \in @ : f[1] # g}]
  /\ UNCHANGED <<credentialFile, onlineFile, groupFile, pendingFile, history,
                 maps, peers, notices>>

GroupLeave(p, u, g) ==
  /\ Prompt(p, u)
  /\ groups[g] # None
  /\ u \in memberFile[g]
  /\ groups[g] # u
  /\ memberFile' = [memberFile EXCEPT ![g] = @ \ {u}]
  /\ groupFiles' = [groupFiles EXCEPT ![g] = {e \in @ : e.user # u}]
  /\ userFiles' = [userFiles EXCEPT ![u] = {f \in @ : f[1] # g}]
  /\ UNCHANGED <<credentialFile, onlineFile, groupFile, pendingFile, history,
                 peers, notices>>
  /\ FetchDetailsAfter

----------------------------------------------------------------------------
(* Sharing.                                                                *)

\* Variant for testing SharersWereAdmitted: membership is not looked up.
GroupFileUploadAnyone(p, u, g, h, n) ==
  /\ Prompt(p, u)
  /\ groups[g] # None
  /\ ~CheckGroupFiles(g, h, u)
  /\ \E name \in GetGroupFileName(g, h, n) :
       /\ ~CheckIntegrity(g, h, name)
       /\ groupFiles' = [groupFiles EXCEPT ![g] =
                           @ \cup {[hash |-> h, user |-> u, name |-> name]}]
       /\ userFiles' = [userFiles EXCEPT ![u] = @ \cup {<<g, name>>}]
  /\ UNCHANGED <<registry, history, maps, peers, notices>>

GroupFileUpload(p, u, g, h, n) ==
  /\ Prompt(p, u)
  /\ groups[g] # None
  /\ u \in memberFile[g]
  /\ ~CheckGroupFiles(g, h, u)
  /\ \E name \in GetGroupFileName(g, h, n) :
       /\ ~CheckIntegrity(g, h, name)
       /\ groupFiles' = [groupFiles EXCEPT ![g] =
                           @ \cup {[hash |-> h, user |-> u, name |-> name]}]
       /\ userFiles' = [userFiles EXCEPT ![u] = @ \cup {<<g, name>>}]
  /\ UNCHANGED <<registry, history, maps, peers, notices>>

\* Variant for testing SeedersHavePath: only the path is forgotten.
GroupStopShareHalf(p, u, g, n) ==
  /\ Prompt(p, u)
  /\ u \in memberFile[g]
  /\ userFiles' = [userFiles EXCEPT ![u] = @ \ {<<g, n>>}]
  /\ UNCHANGED <<groupFiles, registry, history, maps, peers, notices>>

GroupStopShare(p, u, g, n) ==
  /\ Prompt(p, u)
  /\ groups[g] # None
  /\ credentials[u] # None
  /\ u \in memberFile[g]
  /\ groupFiles' = [groupFiles EXCEPT ![g] =
                      {e \in @ : ~(e.name = n /\ e.user = u)}]
  /\ userFiles' = [userFiles EXCEPT ![u] = @ \ {<<g, n>>}]
  /\ UNCHANGED <<registry, history, maps, peers, notices>>

\* list_groups, list_requests, list_files, give_details, show_downloads: the
\* maps are reloaded, nothing is written.
Query(p, u) ==
  /\ Prompt(p, u)
  /\ FetchDetails
  /\ UNCHANGED <<registry, sharing, history, peers, notices>>

----------------------------------------------------------------------------
(* A download, as the tracker sees it: give_sha, give_seeders, add_file    *)
(* each time chunk 0 has arrived, complete.                                *)

\* The line in the downloading file is written before the file is looked up.
SendSHA(p, u, g, n) ==
  /\ Prompt(p, u)
  /\ groupFile[g] # None
  /\ u \in memberFile[g]
  /\ downloadingFile' = [downloadingFile EXCEPT ![u] = @ \cup {<<g, n>>}]
  /\ \/ \E e \in Sharers(g, n) :
          /\ e.hash # NoHash
          /\ target' = [target EXCEPT ![p] =
                          [group |-> g, name |-> n, hash |-> e.hash]]
          /\ phase' = [phase EXCEPT ![p] = "located"]
     \/ /\ \A e \in Sharers(g, n) : e.hash = NoHash
        /\ UNCHANGED <<target, phase>>
  /\ FetchDetails
  /\ UNCHANGED <<registry, sharing, downloadedFile, session, notices>>

\* Without a seeder online the peer gives up at once.
SendSeeders(p) ==
  LET seeders == SendSeedersAnswer(target[p].group, target[p].name) IN
  /\ phase[p] = "located"
  /\ \/ /\ seeders # {}
        /\ phase' = [phase EXCEPT ![p] = "fetching"]
        /\ UNCHANGED target
     \/ /\ seeders = {}
        /\ phase' = [phase EXCEPT ![p] = "idle"]
        /\ target' = [target EXCEPT ![p] = None]
  /\ FetchDetails
  /\ UNCHANGED <<registry, sharing, history, session, notices>>

\* UpdateServer and UpdateServerComplete; add_file follows every arrival of
\* chunk 0, matched or not.  One copy of a notice is kept at a time.
NoticeOf(p, cmd) == [cmd |-> cmd, user |-> session[p],
                     group |-> target[p].group, name |-> target[p].name]

UpdateServer(p) ==
  /\ phase[p] = "fetching"
  /\ notices' = notices \cup {NoticeOf(p, "add_file")}
  /\ UNCHANGED <<registry, sharing, history, maps, peers>>

UpdateServerComplete(p) ==
  /\ phase[p] = "fetching"
  /\ notices' = notices \cup {NoticeOf(p, "complete")}
  /\ target' = [target EXCEPT ![p] = None]
  /\ phase' = [phase EXCEPT ![p] = "idle"]
  /\ UNCHANGED <<registry, sharing, history, maps, session>>

\* Membership is not checked again, and a user who shares a file of that
\* name in any group is left as he is.
UpdateDownload(m) ==
  LET u == m.user
      g == m.group
      n == m.name
  IN
  /\ m.cmd = "add_file"
  /\ \/ /\ \A f \in userFiles[u] : f[2] # n
        /\ userFiles' = [userFiles EXCEPT ![u] = @ \cup {<<g, n>>}]
        /\ \E h \in HashForUpdate(g, n) :
             groupFiles' = [groupFiles EXCEPT ![g] =
                              @ \cup {[hash |-> h, user |-> u, name |-> n]}]
     \/ /\ \E f \in userFiles[u] : f[2] = n
        /\ UNCHANGED sharing
  /\ FetchDetails
  /\ notices' = notices \ {m}
  /\ UNCHANGED <<registry, history, peers>>

\* Variant for testing DownloadsAreKept: the line is deleted and not moved.
CompleteDownloadForget(m) ==
  /\ m.cmd = "complete"
  /\ downloadingFile' = [downloadingFile EXCEPT ![m.user] =
                           @ \ {<<m.group, m.name>>}]
  /\ FetchDetails
  /\ notices' = notices \ {m}
  /\ UNCHANGED <<registry, sharing, downloadedFile, peers>>

CompleteDownload(m) ==
  LET f == <<m.group, m.name>> IN
  /\ m.cmd = "complete"
  /\ downloadingFile' = [downloadingFile EXCEPT ![m.user] = @ \ {f}]
  /\ downloadedFile' = [downloadedFile EXCEPT ![m.user] = @ \cup {f}]
  /\ FetchDetails
  /\ notices' = notices \ {m}
  /\ UNCHANGED <<registry, sharing, peers>>

\* A TLS handshake with the tracker fails: DownloadFile returns, or complete
\* is never sent.
AbandonDownload(p) ==
  /\ phase[p] # "idle"
  /\ target' = [target EXCEPT ![p] = None]
  /\ phase' = [phase EXCEPT ![p] = "idle"]
  /\ UNCHANGED <<registry, sharing, history, maps, session, notices>>

----------------------------------------------------------------------------
(* Processes ending and starting.                                          *)

\* quit, a kill, or one of the many exit(-1) of the peer: the tracker is not
\* told, so the user stays in .online.txt.
PeerExit(p) ==
  /\ session[p] # None
  /\ session' = [session EXCEPT ![p] = None]
  /\ target' = [target EXCEPT ![p] = None]
  /\ phase' = [phase EXCEPT ![p] = "idle"]
  /\ UNCHANGED <<registry, sharing, history, maps, notices>>

\* The tracker is stopped between two requests and started again; what it
\* had not handled is lost.
Restart ==
  /\ FetchDetails
  /\ notices' = {}
  /\ UNCHANGED <<registry, sharing, history, peers>>

----------------------------------------------------------------------------

Init ==
  /\ credentialFile = [u \in Users |-> None]
  /\ onlineFile = [u \in Users |-> None]
  /\ groupFile = [g \in Groups |-> None]
  /\ pendingFile = {}
  /\ memberFile = [g \in Groups |-> {}]
  /\ groupFiles = [g \in Groups |-> {}]
  /\ userFiles = [u \in Users |-> {}]
  /\ downloadingFile = [u \in Users |-> {}]
  /\ downloadedFile = [u \in Users |-> {}]
  /\ credentials = credentialFile
  /\ online = {}
  /\ groups = groupFile
  /\ pending_group_requests = {}
  /\ session = [p \in Peers |-> None]
  /\ target = [p \in Peers |-> None]
  /\ phase = [p \in Peers |-> "idle"]
  /\ notices = {}

Accounts(p) ==
  \/ \E u \in Users, w \in Passwords : UserLogin(p, u, w) \/ UserCreate(p, u, w)
  \/ \E u \in Users : Logout(p, u)
  \/ PeerExit(p)

Grouping(p) ==
  \E u \in Users, g \in Groups :
    \/ GroupCreate(p, u, g)
    \/ GroupJoin(p, u, g)
    \/ GroupLeave(p, u, g)
    \/ \E v \in Users : GroupAcceptRequest(p, u, g, v)

Sharing(p) ==
  \/ \E u \in Users : Query(p, u)
  \/ \E u \in Users, g \in Groups, n \in Names :
       \/ \E h \in Hashes : GroupFileUpload(p, u, g, h, n)
       \/ GroupStopShare(p, u, g, n)
       \/ SendSHA(p, u, g, n)

Downloading(p) ==
  \/ SendSeeders(p)
  \/ UpdateServer(p)
  \/ UpdateServerComplete(p)
  \/ AbandonDownload(p)

Next ==
  \/ \E p \in Peers : Accounts(p) \/ Grouping(p) \/ Sharing(p) \/ Downloading(p)
  \/ \E m \in notices : UpdateDownload(m) \/ CompleteDownload(m)
  \/ Restart

Spec == Init /\ [][Next]_vars

----------------------------------------------------------------------------
(* What the tracker promises.                                              *)

\* The maps the handlers decide from agree with the files, except that a
\* request accepted since the last FetchDetails is still in the map; its
\* user is a member then, so that neither join_group (which skips a request
\* the map holds) nor accept_request can be misled by it.
MapsAgreeWithFiles ==
  /\ credentials = credentialFile
  /\ online = OnlineUsers
  /\ groups = groupFile
  /\ pendingFile \subseteq pending_group_requests
  /\ \A r \in pending_group_requests \ pendingFile : r[1] \in memberFile[r[2]]

\* A join request in .pending.txt can be decided: its user is registered and
\* not a member yet, and the group has an owner to accept it, who is a member
\* himself although leave_group and logout are open to him.
RequestsAreOpen ==
  \A r \in pendingFile :
    /\ credentialFile[r[1]] # None
    /\ r[1] \notin memberFile[r[2]]
    /\ groupFile[r[2]] \in memberFile[r[2]]

\* Within a group a name stands for one content and a content has one name,
\* which is what lets give_sha take any line of the file; uploads and the
\* add_file of downloaders both write those lines.
OneHashPerName ==
  \A g \in Groups : \A e, f \in groupFiles[g] :
    /\ e.name = f.name => e.hash = f.hash
    /\ e.hash = f.hash /\ e.hash # NoHash => e.name = f.name

\* The two files that record a share are kept in step: give_seeders names a
\* user for a file exactly when send_full_path finds the path of his copy,
\* which TransferFunction opens without looking.
SeedersHavePath ==
  /\ \A g \in Groups : \A e \in groupFiles[g] : GetFullPathAnswer(e.user, g, e.name)
  /\ \A u \in Users : \A f \in userFiles[u] :
       \E e \in Sharers(f[1], f[2]) : e.user = u

\* u once asked for the file n of g and was a member then.
Started(u, g, n) == <<g, n>> \in downloadingFile[u] \cup downloadedFile[u]

\* Nobody is listed as sharing in a group he was never let into: each sharer
\* is a member, or was one when give_sha let him start the download whose
\* add_file put him on the list.
SharersWereAdmitted ==
  \A g \in Groups : \A e \in groupFiles[g] :
    e.user \in memberFile[g] \/ Started(e.user, g, e.name)

\* A line of the downloading file goes away only by becoming a line of the
\* downloaded file, and that one stays, whatever accounts are created.
DownloadsAreKept ==
  [][\A u \in Users :
       /\ downloadedFile[u] \subseteq downloadedFile'[u]
       /\ downloadingFile[u] \subseteq downloadingFile'[u] \cup downloadedFile'[u]]_vars

\* Requests, admissions and departures, decided from maps that may be stale,
\* are those of the abstract specification, which knows only the files.
Members == INSTANCE Membership
             WITH owner <- groupFile, member <- memberFile, asked <- pendingFile

ImplementsMembership == Members!Spec
============================================================================
