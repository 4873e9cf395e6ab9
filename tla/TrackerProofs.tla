--------------------------- MODULE TrackerProofs ---------------------------
(***************************************************************************)
(* The safety properties of Tracker for every set of users, peers, groups, *)
(* names and hashes.                                                       *)
(***************************************************************************)
EXTENDS Tracker, TLAPS

----------------------------------------------------------------------------
(* The inductive invariant: the properties of Tracker and what they rest   *)
(* on.                                                                     *)

\* Only an account leaves traces: whoever is logged in, in a group, sharing,
\* downloading or about to be reported by a notice is registered.  It is why
\* the files create_user truncates hold nothing.
Registered ==
  /\ \A p \in Peers : session[p] # None => credentialFile[session[p]] # None
  /\ \A g \in Groups : \A u \in memberFile[g] : credentialFile[u] # None
  /\ \A u \in Users : credentialFile[u] = None =>
       userFiles[u] = {} /\ downloadingFile[u] = {} /\ downloadedFile[u] = {}

\* A group that does not exist has no members and no files; one that does has
\* its owner among its members.
GroupsAreOwned ==
  \A g \in Groups :
    /\ groupFile[g] = None => memberFile[g] = {} /\ groupFiles[g] = {}
    /\ groupFile[g] # None => groupFile[g] \in memberFile[g]

\* A download under way, at the peer or as a notice, was let through by
\* give_sha and is on record; its group exists.
DownloadsAreRecorded ==
  /\ \A p \in Peers : phase[p] # "idle" =>
       /\ session[p] # None
       /\ target[p] # None
       /\ groupFile[target[p].group] # None
       /\ Started(session[p], target[p].group, target[p].name)
  /\ \A m \in notices :
       groupFile[m.group] # None /\ Started(m.user, m.group, m.name)

IInv ==
  /\ TypeOK
  /\ MapsAgreeWithFiles
  /\ Registered
  /\ GroupsAreOwned
  /\ RequestsAreOpen
  /\ DownloadsAreRecorded
  /\ OneHashPerName
  /\ SeedersHavePath
  /\ SharersWereAdmitted

----------------------------------------------------------------------------
(* One lemma per action.  The conjuncts an action cannot disturb, because  *)
(* the variables they mention are unchanged, share one step at the end.    *)

USE DEF registry, sharing, history, maps, peers

\* Writing back the value a function has changes nothing.
LEMMA SameValue ==
  ASSUME NEW S, NEW T, NEW f \in [S -> T], NEW x \in S, f[x] = {}
  PROVE  [f EXCEPT ![x] = {}] = f
OBVIOUS

\* The record of the downloads is kept when no download starts.
LEMMA RecordedFrame ==
  ASSUME IInv, groupFile' = groupFile, notices' \subseteq notices,
         \A q \in Peers : phase'[q] # "idle" =>
           /\ phase[q] # "idle"
           /\ target'[q] = target[q]
           /\ session'[q] = session[q],
         \A x \in Users, y \in Groups, z \in Names :
           Started(x, y, z) => Started(x, y, z)'
  PROVE  DownloadsAreRecorded'
BY DEF IInv, TypeOK, Job, Notice, DownloadsAreRecorded

\* What is about the files of shares alone is kept when they are.
LEMMA SharingFrame ==
  ASSUME IInv, UNCHANGED <<memberFile, groupFiles, userFiles, downloadingFile,
                           downloadedFile>>
  PROVE  OneHashPerName' /\ SeedersHavePath' /\ SharersWereAdmitted'
<1>1. OneHashPerName'
  BY DEF IInv, OneHashPerName
<1>2. SeedersHavePath'
  BY DEF IInv, SeedersHavePath, Sharers, GetFullPathAnswer
<1>3. SharersWereAdmitted'
  BY DEF IInv, SharersWereAdmitted, Started
<1> QED BY <1>1, <1>2, <1>3

\* What is about the files of groups alone is kept when they are.
LEMMA GroupsFrame ==
  ASSUME IInv, UNCHANGED <<credentialFile, groupFile, memberFile, groupFiles,
                           pendingFile>>
  PROVE  GroupsAreOwned' /\ RequestsAreOpen'
<1>1. GroupsAreOwned'
  BY DEF IInv, GroupsAreOwned
<1>2. RequestsAreOpen'
  BY DEF IInv, RequestsAreOpen
<1> QED BY <1>1, <1>2

\* A line for u, added to both files together, keeps them in step.
LEMMA AddShare ==
  ASSUME IInv, NEW u \in Users, NEW g \in Groups, NEW n \in Names,
         NEW h \in Hashes \cup {NoHash},
         groupFiles' = [groupFiles EXCEPT ![g] =
                          @ \cup {[hash |-> h, user |-> u, name |-> n]}],
         userFiles' = [userFiles EXCEPT ![u] = @ \cup {<<g, n>>}]
  PROVE  SeedersHavePath'
<1> DEFINE new == [hash |-> h, user |-> u, name |-> n]
<1>1. \A y \in Groups : groupFiles'[y] = groupFiles[y] \/
                          (y = g /\ groupFiles'[y] = groupFiles[y] \cup {new})
  BY DEF IInv, TypeOK
<1>2. \A x \in Users : userFiles'[x] = userFiles[x] \/
                         (x = u /\ userFiles'[x] = userFiles[x] \cup {<<g, n>>})
  BY DEF IInv, TypeOK
<1>3. new \in groupFiles'[g] /\ <<g, n>> \in userFiles'[u]
  BY DEF IInv, TypeOK
<1>4. ASSUME NEW y \in Groups, NEW e \in groupFiles'[y]
      PROVE  <<y, e.name>> \in userFiles'[e.user]
  <2>1. CASE e \in groupFiles[y]
    BY <1>2, <2>1 DEF IInv, TypeOK, Entry, SeedersHavePath, GetFullPathAnswer
  <2>2. CASE y = g /\ e = new
    BY <1>3, <2>2
  <2> QED BY <1>1, <2>1, <2>2
<1>5. ASSUME NEW x \in Users, NEW f \in userFiles'[x]
      PROVE  \E e \in groupFiles'[f[1]] : e.name = f[2] /\ e.user = x
  <2>1. CASE f \in userFiles[x]
    <3>1. PICK e \in groupFiles[f[1]] : e.name = f[2] /\ e.user = x
      BY <2>1 DEF IInv, SeedersHavePath, Sharers
    <3>2. f[1] \in Groups
      BY <2>1 DEF IInv, TypeOK
    <3> QED BY <1>1, <3>1, <3>2
  <2>2. CASE x = u /\ f = <<g, n>>
    BY <1>3, <2>2
  <2> QED BY <1>2, <2>1, <2>2
<1> QED BY <1>4, <1>5 DEF SeedersHavePath, Sharers, GetFullPathAnswer

\* So does everyone's right to be on the list, if u has it.
LEMMA AddSharer ==
  ASSUME IInv, NEW u, NEW g \in Groups, NEW n, NEW h,
         groupFiles' = [groupFiles EXCEPT ![g] =
                          @ \cup {[hash |-> h, user |-> u, name |-> n]}],
         UNCHANGED <<memberFile, downloadingFile, downloadedFile>>,
         u \in memberFile[g] \/ Started(u, g, n)
  PROVE  SharersWereAdmitted'
<1>1. ASSUME NEW y \in Groups, NEW e \in groupFiles'[y]
      PROVE  e.user \in memberFile[y] \/ Started(e.user, y, e.name)
  <2>1. CASE e \in groupFiles[y]
    BY <2>1 DEF IInv, SharersWereAdmitted
  <2>2. CASE y = g /\ e = [hash |-> h, user |-> u, name |-> n]
    BY <2>2
  <2> QED BY <2>1, <2>2 DEF IInv, TypeOK
<1> QED BY <1>1 DEF SharersWereAdmitted, Started

\* login touches .online.txt and the session only; the maps are reloaded with it.
LEMMA UserLoginStep ==
  ASSUME IInv, NEW p \in Peers, NEW u \in Users, NEW w \in Passwords,
         UserLogin(p, u, w)
  PROVE  IInv'
<1> USE DEF IInv, UserLogin
<1>1. TypeOK'
  BY DEF TypeOK, FetchDetailsAfter, OnlineUsers
<1>2. MapsAgreeWithFiles'
  BY DEF MapsAgreeWithFiles, FetchDetailsAfter, OnlineUsers
<1>3. Registered'
  BY NoneAssumption DEF TypeOK, Registered
<1>4. DownloadsAreRecorded'
  <2>1. phase[p] = "idle"
    BY DEF Prompt, DownloadsAreRecorded
  <2> QED BY <2>1, RecordedFrame DEF TypeOK, Started
<1>5. /\ GroupsAreOwned' /\ RequestsAreOpen' /\ OneHashPerName'
      /\ SeedersHavePath' /\ SharersWereAdmitted'
  BY SharingFrame, GroupsFrame
<1> QED BY <1>1, <1>2, <1>3, <1>4, <1>5

\* The files that create_user truncates were empty.
LEMMA UserCreateStep ==
  ASSUME IInv, NEW p \in Peers, NEW u \in Users, NEW w \in Passwords,
         UserCreate(p, u, w)
  PROVE  IInv'
<1> USE DEF IInv
<1>1. UNCHANGED <<userFiles, downloadingFile, downloadedFile>>
  <2>1. CASE credentialFile[u] = None
    <3>1. userFiles[u] = {} /\ downloadingFile[u] = {} /\ downloadedFile[u] = {}
      BY <2>1 DEF Registered
    <3>2. /\ userFiles' = [userFiles EXCEPT ![u] = {}]
          /\ downloadingFile' = [downloadingFile EXCEPT ![u] = {}]
          /\ downloadedFile' = [downloadedFile EXCEPT ![u] = {}]
      BY <2>1 DEF UserCreate
    <3> QED BY <3>1, <3>2, SameValue DEF TypeOK
  <2>2. CASE credentialFile[u] # None
    BY <2>2 DEF UserCreate
  <2> QED BY <2>1, <2>2
<1>2. TypeOK'
  <2>1. CASE credentialFile[u] = None
    BY <1>1, <2>1 DEF UserCreate, TypeOK, FetchDetailsAfter, OnlineUsers
  <2>2. CASE credentialFile[u] # None
    BY <2>2 DEF UserCreate, TypeOK, FetchDetailsAfter, OnlineUsers
  <2> QED BY <2>1, <2>2
<1>3. MapsAgreeWithFiles'
  BY DEF UserCreate, MapsAgreeWithFiles, FetchDetailsAfter, OnlineUsers
<1>4. Registered'
  <2>1. \A v \in Users : credentialFile[v] # None => credentialFile'[v] # None
    BY NoneAssumption DEF UserCreate, TypeOK
  <2>2. \A q \in Peers : session'[q] # None => credentialFile'[session'[q]] # None
    BY <2>1, NoneAssumption DEF UserCreate, TypeOK, Registered
  <2>3. \A g \in Groups : \A v \in memberFile'[g] : credentialFile'[v] # None
    BY <2>1 DEF UserCreate, TypeOK, Registered
  <2>4. \A v \in Users : credentialFile'[v] = None =>
          userFiles'[v] = {} /\ downloadingFile'[v] = {} /\ downloadedFile'[v] = {}
    BY <1>1, <2>1 DEF Registered
  <2> QED BY <2>2, <2>3, <2>4 DEF Registered
<1>5. RequestsAreOpen'
  BY NoneAssumption DEF UserCreate, TypeOK, RequestsAreOpen
<1>6. DownloadsAreRecorded'
  <2>1. phase[p] = "idle"
    BY DEF UserCreate, Prompt, DownloadsAreRecorded
  <2> QED BY <1>1, <2>1, RecordedFrame DEF UserCreate, TypeOK, Started
<1>7. /\ GroupsAreOwned' /\ OneHashPerName' /\ SeedersHavePath'
      /\ SharersWereAdmitted'
  BY <1>1, SharingFrame DEF UserCreate, GroupsAreOwned
<1> QED BY <1>2, <1>3, <1>4, <1>5, <1>6, <1>7

\* logout removes a line of .online.txt and reloads the maps.
LEMMA LogoutStep ==
  ASSUME IInv, NEW p \in Peers, NEW u \in Users, Logout(p, u)
  PROVE  IInv'
<1> USE DEF IInv, Logout
<1>1. TypeOK'
  BY DEF TypeOK, FetchDetailsAfter, OnlineUsers
<1>2. MapsAgreeWithFiles'
  BY DEF MapsAgreeWithFiles, FetchDetailsAfter, OnlineUsers
<1>3. Registered'
  BY DEF TypeOK, Registered
<1>4. DownloadsAreRecorded'
  <2>1. phase[p] = "idle"
    BY DEF Prompt, DownloadsAreRecorded
  <2> QED BY <2>1, RecordedFrame DEF TypeOK, Started
<1>5. /\ GroupsAreOwned' /\ RequestsAreOpen' /\ OneHashPerName'
      /\ SeedersHavePath' /\ SharersWereAdmitted'
  BY SharingFrame, GroupsFrame
<1> QED BY <1>1, <1>2, <1>3, <1>4, <1>5

\* The files list that create_group truncates was empty, and nobody can have
\* asked to join a group without an owner.
LEMMA GroupCreateStep ==
  ASSUME IInv, NEW p \in Peers, NEW u \in Users, NEW g \in Groups,
         GroupCreate(p, u, g)
  PROVE  IInv'
<1> USE DEF IInv
<1>1. groupFiles' = groupFiles
  BY DEF GroupCreate, TypeOK, GroupsAreOwned
<1>2. TypeOK'
  <2>1. CASE groupFile[g] = None
    BY <1>1, <2>1 DEF GroupCreate, TypeOK, FetchDetailsAfter, OnlineUsers
  <2>2. CASE groupFile[g] # None
    BY <2>2 DEF GroupCreate, TypeOK, FetchDetailsAfter, OnlineUsers
  <2> QED BY <2>1, <2>2
<1>3. MapsAgreeWithFiles'
  BY DEF GroupCreate, MapsAgreeWithFiles, FetchDetailsAfter, OnlineUsers
<1>4. Registered'
  BY NoneAssumption DEF GroupCreate, Prompt, TypeOK, Registered
<1>5. GroupsAreOwned'
  BY <1>1, NoneAssumption DEF GroupCreate, TypeOK, GroupsAreOwned
<1>6. RequestsAreOpen'
  BY DEF GroupCreate, TypeOK, GroupsAreOwned, RequestsAreOpen
<1>7. DownloadsAreRecorded'
  BY NoneAssumption
     DEF GroupCreate, TypeOK, Job, Notice, DownloadsAreRecorded, Started
<1>8. SharersWereAdmitted'
  BY <1>1 DEF GroupCreate, TypeOK, GroupsAreOwned, SharersWereAdmitted, Started
<1>9. OneHashPerName' /\ SeedersHavePath'
  BY <1>1 DEF GroupCreate, OneHashPerName, SeedersHavePath, Sharers,
              GetFullPathAnswer
<1> QED BY <1>2, <1>3, <1>4, <1>5, <1>6, <1>7, <1>8, <1>9

\* join_group writes a request that nobody has decided: its user is not in the
\* members file, which is read afresh, and the group has an owner.
LEMMA GroupJoinStep ==
  ASSUME IInv, NEW p \in Peers, NEW u \in Users, NEW g \in Groups,
         GroupJoin(p, u, g)
  PROVE  IInv'
<1> USE DEF IInv, GroupJoin
<1>1. TypeOK'
  BY DEF TypeOK
<1>2. MapsAgreeWithFiles'
  BY DEF MapsAgreeWithFiles, OnlineUsers
<1>3. RequestsAreOpen'
  BY NoneAssumption DEF TypeOK, Prompt, MapsAgreeWithFiles, Registered,
                        GroupsAreOwned, RequestsAreOpen
<1>4. DownloadsAreRecorded'
  BY RecordedFrame DEF Started
<1>5. Registered' /\ GroupsAreOwned'
  BY DEF Registered, GroupsAreOwned
<1>6. OneHashPerName' /\ SeedersHavePath'
  BY DEF OneHashPerName, SeedersHavePath, Sharers, GetFullPathAnswer
<1>7. SharersWereAdmitted'
  BY DEF SharersWereAdmitted, Started
<1> QED BY <1>1, <1>2, <1>3, <1>4, <1>5, <1>6, <1>7

\* A stale request cannot be accepted: its user is a member already.
LEMMA GroupAcceptRequestStep ==
  ASSUME IInv, NEW p \in Peers, NEW u \in Users, NEW g \in Groups,
         NEW v \in Users, GroupAcceptRequest(p, u, g, v)
  PROVE  IInv'
<1> USE DEF IInv, GroupAcceptRequest
<1>1. TypeOK'
  BY DEF TypeOK
<1>2. MapsAgreeWithFiles'
  BY DEF TypeOK, MapsAgreeWithFiles, OnlineUsers
<1>3. Registered'
  BY DEF TypeOK, MapsAgreeWithFiles, Registered
<1>4. GroupsAreOwned'
  BY NoneAssumption DEF TypeOK, MapsAgreeWithFiles, GroupsAreOwned
<1>5. RequestsAreOpen'
  BY DEF TypeOK, RequestsAreOpen
<1>6. SharersWereAdmitted'
  BY DEF TypeOK, SharersWereAdmitted, Started
<1>7. DownloadsAreRecorded' /\ OneHashPerName' /\ SeedersHavePath'
  BY DEF DownloadsAreRecorded, OneHashPerName, SeedersHavePath, Sharers,
         GetFullPathAnswer, Started
<1> QED BY <1>1, <1>2, <1>3, <1>4, <1>5, <1>6, <1>7

\* The maps are reloaded, so no request of the user who left is in them.
LEMMA GroupLeaveStep ==
  ASSUME IInv, NEW p \in Peers, NEW u \in Users, NEW g \in Groups,
         GroupLeave(p, u, g)
  PROVE  IInv'
<1> USE DEF IInv, GroupLeave
<1>1. TypeOK'
  BY DEF TypeOK, FetchDetailsAfter, OnlineUsers
<1>2. MapsAgreeWithFiles'
  BY DEF MapsAgreeWithFiles, FetchDetailsAfter, OnlineUsers
<1>3. Registered'
  BY DEF TypeOK, Registered
<1>4. GroupsAreOwned'
  BY DEF TypeOK, MapsAgreeWithFiles, GroupsAreOwned
<1>5. RequestsAreOpen'
  BY DEF TypeOK, MapsAgreeWithFiles, RequestsAreOpen
<1>6. OneHashPerName'
  BY DEF TypeOK, OneHashPerName
<1>7. SeedersHavePath'
  BY DEF TypeOK, Entry, SeedersHavePath, Sharers, GetFullPathAnswer
<1>8. SharersWereAdmitted'
  BY DEF TypeOK, Entry, SharersWereAdmitted, Started
<1>9. DownloadsAreRecorded'
  BY DEF DownloadsAreRecorded, Started
<1> QED BY <1>1, <1>2, <1>3, <1>4, <1>5, <1>6, <1>7, <1>8, <1>9

----------------------------------------------------------------------------

\* upload_file writes to both files a name that CheckIntegrity has found free of
\* any other content, under the one name its content has.
LEMMA GroupFileUploadStep ==
  ASSUME IInv, NEW p \in Peers, NEW u \in Users, NEW g \in Groups,
         NEW h \in Hashes, NEW n \in Names, GroupFileUpload(p, u, g, h, n)
  PROVE  IInv'
<1> USE DEF IInv
<1>1. PICK name \in GetGroupFileName(g, h, n) :
        /\ ~CheckIntegrity(g, h, name)
        /\ groupFiles' = [groupFiles EXCEPT ![g] =
                            @ \cup {[hash |-> h, user |-> u, name |-> name]}]
        /\ userFiles' = [userFiles EXCEPT ![u] = @ \cup {<<g, name>>}]
  BY DEF GroupFileUpload
<1>2. name \in Names
  BY DEF GetGroupFileName, TypeOK, Entry
<1>3. TypeOK'
  BY <1>1, <1>2 DEF GroupFileUpload, TypeOK, Entry
<1>4. Registered'
  BY <1>1 DEF GroupFileUpload, TypeOK, Prompt, Registered
<1>5. GroupsAreOwned'
  BY <1>1 DEF GroupFileUpload, TypeOK, MapsAgreeWithFiles, GroupsAreOwned
<1>6. OneHashPerName'
  BY <1>1, NoHashAssumption DEF TypeOK, OneHashPerName, CheckIntegrity, Sharers,
                                GetGroupFileName
<1>7. SeedersHavePath'
  BY <1>1, <1>2, AddShare
<1>8. SharersWereAdmitted'
  <2>1. u \in memberFile[g] /\ UNCHANGED <<memberFile, downloadingFile, downloadedFile>>
    BY DEF GroupFileUpload
  <2> QED BY <1>1, <2>1, AddSharer
<1>9. MapsAgreeWithFiles' /\ RequestsAreOpen' /\ DownloadsAreRecorded'
  BY DEF GroupFileUpload, MapsAgreeWithFiles, OnlineUsers, RequestsAreOpen,
         DownloadsAreRecorded, Started
<1> QED BY <1>3, <1>4, <1>5, <1>6, <1>7, <1>8, <1>9

\* stop_share takes the line out of both files.
LEMMA GroupStopShareStep ==
  ASSUME IInv, NEW p \in Peers, NEW u \in Users, NEW g \in Groups,
         NEW n \in Names, GroupStopShare(p, u, g, n)
  PROVE  IInv'
<1> USE DEF IInv, GroupStopShare
<1>1. TypeOK'
  BY DEF TypeOK
<1>2. Registered'
  BY DEF TypeOK, Registered
<1>3. GroupsAreOwned'
  BY DEF TypeOK, GroupsAreOwned
<1>4. OneHashPerName'
  BY DEF TypeOK, OneHashPerName
<1>5. SeedersHavePath'
  BY DEF TypeOK, Entry, SeedersHavePath, Sharers, GetFullPathAnswer
<1>6. SharersWereAdmitted'
  BY DEF TypeOK, SharersWereAdmitted, Started
<1>7. MapsAgreeWithFiles' /\ RequestsAreOpen' /\ DownloadsAreRecorded'
  BY DEF MapsAgreeWithFiles, OnlineUsers, RequestsAreOpen, DownloadsAreRecorded,
         Started
<1> QED BY <1>1, <1>2, <1>3, <1>4, <1>5, <1>6, <1>7

\* Reloading the maps alone, as a query, a restart or an abandoned download
\* does, keeps everything that is about files.
LEMMA ReloadStep ==
  ASSUME IInv, FetchDetails, notices' \subseteq notices,
         UNCHANGED <<registry, sharing, history, peers>>
  PROVE  IInv'
<1> USE DEF IInv
<1>1. TypeOK' /\ MapsAgreeWithFiles'
  BY DEF TypeOK, MapsAgreeWithFiles, FetchDetails, OnlineUsers
<1>2. Registered'
  BY DEF Registered
<1>3. DownloadsAreRecorded'
  BY RecordedFrame DEF Started
<1> QED BY <1>1, <1>2, <1>3, SharingFrame, GroupsFrame

----------------------------------------------------------------------------

\* give_sha records the download before the peer learns the hash.
LEMMA SendSHAStep ==
  ASSUME IInv, NEW p \in Peers, NEW u \in Users, NEW g \in Groups,
         NEW n \in Names, SendSHA(p, u, g, n)
  PROVE  IInv'
<1> USE DEF IInv
<1>1. downloadingFile' = [downloadingFile EXCEPT ![u] = @ \cup {<<g, n>>}]
  BY DEF SendSHA
<1>2. Started(u, g, n)' /\ \A x \in Users, y \in Groups, z \in Names :
                              Started(x, y, z) => Started(x, y, z)'
  BY <1>1 DEF SendSHA, TypeOK, Started
<1>3. \/ \E h \in Hashes :
           /\ target' = [target EXCEPT ![p] =
                           [group |-> g, name |-> n, hash |-> h]]
           /\ phase' = [phase EXCEPT ![p] = "located"]
      \/ UNCHANGED <<target, phase>>
  BY DEF SendSHA, Sharers, TypeOK, Entry
<1>4. TypeOK'
  <2>1. target' \in [Peers -> Job \cup {None}]
        /\ phase' \in [Peers -> {"idle", "located", "fetching"}]
    BY <1>3 DEF TypeOK, Job
  <2> QED BY <1>1, <2>1 DEF SendSHA, TypeOK, FetchDetails, OnlineUsers
<1>5. Registered'
  BY <1>1 DEF SendSHA, TypeOK, Registered
<1>6. DownloadsAreRecorded'
  <2>1. CASE target' = target /\ phase' = phase
    BY <1>2, <2>1, RecordedFrame DEF SendSHA
  <2>2. CASE \E h \in Hashes :
               /\ target' = [target EXCEPT ![p] =
                               [group |-> g, name |-> n, hash |-> h]]
               /\ phase' = [phase EXCEPT ![p] = "located"]
    <3>1. PICK h \in Hashes : target' = [target EXCEPT ![p] =
                                 [group |-> g, name |-> n, hash |-> h]]
      BY <2>2
    <3>2. /\ target'[p] = [group |-> g, name |-> n, hash |-> h]
          /\ target'[p] # None /\ session'[p] = u /\ u # None
          /\ groupFile'[g] # None
      BY <3>1, NoneAssumption DEF SendSHA, TypeOK, Prompt
    <3>3. \A q \in Peers \ {p} : phase'[q] = phase[q] /\ target'[q] = target[q]
      BY <2>2 DEF TypeOK
    <3>4. \A q \in Peers \ {p} : phase'[q] # "idle" =>
            /\ session'[q] # None
            /\ target'[q] # None
            /\ groupFile'[target'[q].group] # None
            /\ \A y, z : y = target'[q].group /\ z = target'[q].name =>
                 Started(session[q], y, z)'
      BY <1>2, <3>3 DEF SendSHA, TypeOK, Job, DownloadsAreRecorded
    <3>5. \A m \in notices' :
            groupFile'[m.group] # None /\ Started(m.user, m.group, m.name)'
      BY <1>2 DEF SendSHA, TypeOK, Notice, DownloadsAreRecorded
    <3> QED BY <1>2, <3>2, <3>4, <3>5 DEF SendSHA, DownloadsAreRecorded, Started
  <2> QED BY <1>3, <2>1, <2>2
<1>7. SharersWereAdmitted'
  BY <1>2 DEF SendSHA, TypeOK, Entry, SharersWereAdmitted
<1>8. /\ MapsAgreeWithFiles' /\ GroupsAreOwned' /\ RequestsAreOpen'
      /\ OneHashPerName' /\ SeedersHavePath'
  BY DEF SendSHA, MapsAgreeWithFiles, FetchDetails, OnlineUsers, GroupsAreOwned,
         RequestsAreOpen, OneHashPerName, SeedersHavePath, Sharers,
         GetFullPathAnswer
<1> QED BY <1>4, <1>5, <1>6, <1>7, <1>8

\* give_seeders sends the peer on, or home; only the maps change at the tracker.
LEMMA SendSeedersStep ==
  ASSUME IInv, NEW p \in Peers, SendSeeders(p)
  PROVE  IInv'
<1> USE DEF IInv
<1>1. TypeOK'
  BY DEF SendSeeders, TypeOK, FetchDetails, OnlineUsers
<1>2. DownloadsAreRecorded'
  <2>1. \A q \in Peers : phase'[q] # "idle" =>
          phase[q] # "idle" /\ target'[q] = target[q]
    BY DEF SendSeeders, TypeOK
  <2> QED BY <2>1, RecordedFrame DEF SendSeeders, Started
<1>3. MapsAgreeWithFiles' /\ Registered'
  BY DEF SendSeeders, MapsAgreeWithFiles, FetchDetails, OnlineUsers, Registered
<1>4. /\ GroupsAreOwned' /\ RequestsAreOpen' /\ OneHashPerName'
      /\ SeedersHavePath' /\ SharersWereAdmitted'
  BY SharingFrame, GroupsFrame DEF SendSeeders
<1> QED BY <1>1, <1>2, <1>3, <1>4

\* A notice speaks for a download that is on record.
LEMMA NoticeStep ==
  ASSUME IInv, NEW p \in Peers, phase[p] = "fetching",
         NEW cmd \in {"add_file", "complete"}
  PROVE  /\ NoticeOf(p, cmd) \in Notice
         /\ groupFile[NoticeOf(p, cmd).group] # None
         /\ Started(NoticeOf(p, cmd).user, NoticeOf(p, cmd).group,
                    NoticeOf(p, cmd).name)
BY DEF IInv, TypeOK, Job, Notice, NoticeOf, DownloadsAreRecorded

\* add_file leaves the peer in the name of the download it is busy with.
LEMMA UpdateServerStep ==
  ASSUME IInv, NEW p \in Peers, UpdateServer(p)
  PROVE  IInv'
<1> USE DEF IInv, UpdateServer
<1>1. TypeOK'
  BY NoticeStep DEF TypeOK
<1>2. DownloadsAreRecorded'
  BY NoticeStep DEF DownloadsAreRecorded, Started
<1>3. MapsAgreeWithFiles' /\ Registered'
  BY DEF MapsAgreeWithFiles, OnlineUsers, Registered
<1> QED BY <1>1, <1>2, <1>3, SharingFrame, GroupsFrame

\* So does complete, and the peer goes back to its prompt.
LEMMA UpdateServerCompleteStep ==
  ASSUME IInv, NEW p \in Peers, UpdateServerComplete(p)
  PROVE  IInv'
<1> USE DEF IInv, UpdateServerComplete
<1>1. TypeOK'
  BY NoticeStep DEF TypeOK
<1>2. DownloadsAreRecorded'
  BY NoticeStep DEF TypeOK, DownloadsAreRecorded, Started
<1>3. MapsAgreeWithFiles' /\ Registered'
  BY DEF MapsAgreeWithFiles, OnlineUsers, Registered
<1>4. GroupsAreOwned' /\ RequestsAreOpen'
  BY GroupsFrame
<1>5. OneHashPerName' /\ SeedersHavePath' /\ SharersWereAdmitted'
  BY SharingFrame
<1> QED BY <1>1, <1>2, <1>3, <1>4, <1>5

----------------------------------------------------------------------------

\* The line add_file writes repeats a hash on the list, or the empty one, so
\* that a name keeps a single hash; its writer once started the download.
LEMMA UpdateDownloadStep ==
  ASSUME IInv, NEW m \in notices, UpdateDownload(m)
  PROVE  IInv'
<1> USE DEF IInv
<1>1. /\ m.user \in Users /\ m.group \in Groups /\ m.name \in Names
      /\ groupFile[m.group] # None
      /\ Started(m.user, m.group, m.name)
  BY DEF TypeOK, Notice, DownloadsAreRecorded
<1>2. credentialFile[m.user] # None
  BY <1>1 DEF Registered, Started
<1>3. CASE UNCHANGED sharing
  BY <1>3, ReloadStep DEF UpdateDownload
<1>4. CASE /\ userFiles' = [userFiles EXCEPT ![m.user] =
                              @ \cup {<<m.group, m.name>>}]
           /\ \E h \in HashForUpdate(m.group, m.name) :
                groupFiles' = [groupFiles EXCEPT ![m.group] =
                  @ \cup {[hash |-> h, user |-> m.user, name |-> m.name]}]
  <2>1. PICK h \in HashForUpdate(m.group, m.name) :
          groupFiles' = [groupFiles EXCEPT ![m.group] =
            @ \cup {[hash |-> h, user |-> m.user, name |-> m.name]}]
    BY <1>4
  <2>2. h \in Hashes \cup {NoHash}
    BY <1>1 DEF HashForUpdate, Sharers, TypeOK, Entry
  <2>3. TypeOK'
    <3>1. groupFiles' \in [Groups -> SUBSET Entry]
      BY <1>1, <2>1, <2>2 DEF TypeOK, Entry
    <3>2. userFiles' \in [Users -> SUBSET (Groups \X Names)]
      BY <1>1, <1>4 DEF TypeOK
    <3> QED BY <3>1, <3>2 DEF UpdateDownload, TypeOK, FetchDetails, OnlineUsers
  <2>4. Registered'
    BY <1>1, <1>2, <1>4 DEF UpdateDownload, TypeOK, Registered
  <2>5. GroupsAreOwned'
    BY <1>1, <2>1 DEF UpdateDownload, TypeOK, GroupsAreOwned
  <2>6. OneHashPerName'
    BY <1>1, <2>1 DEF TypeOK, OneHashPerName, HashForUpdate, Sharers
  <2>7. SeedersHavePath'
    BY <1>1, <1>4, <2>1, <2>2, AddShare
  <2>8. SharersWereAdmitted'
    <3>1. UNCHANGED <<memberFile, downloadingFile, downloadedFile>>
      BY DEF UpdateDownload
    <3> QED BY <1>1, <2>1, <3>1, AddSharer
  <2>9. MapsAgreeWithFiles' /\ RequestsAreOpen' /\ DownloadsAreRecorded'
    BY DEF UpdateDownload, MapsAgreeWithFiles, FetchDetails, OnlineUsers,
           RequestsAreOpen, DownloadsAreRecorded, Started
  <2> QED BY <2>3, <2>4, <2>5, <2>6, <2>7, <2>8, <2>9
<1> QED BY <1>3, <1>4 DEF UpdateDownload

\* complete moves a line from one record of downloads to the other.
LEMMA CompleteDownloadStep ==
  ASSUME IInv, NEW m \in notices, CompleteDownload(m)
  PROVE  IInv'
<1> USE DEF IInv
<1>1. /\ m.user \in Users /\ m.group \in Groups /\ m.name \in Names
      /\ Started(m.user, m.group, m.name)
  BY DEF TypeOK, Notice, DownloadsAreRecorded
<1>2. credentialFile[m.user] # None
  BY <1>1 DEF Registered, Started
<1>3. \A x \in Users, y \in Groups, z \in Names :
        Started(x, y, z) => Started(x, y, z)'
  BY <1>1 DEF CompleteDownload, TypeOK, Started
<1>4. TypeOK'
  BY <1>1 DEF CompleteDownload, TypeOK, FetchDetails, OnlineUsers
<1>5. Registered'
  BY <1>1, <1>2 DEF CompleteDownload, TypeOK, Registered
<1>6. DownloadsAreRecorded'
  BY <1>3 DEF CompleteDownload, TypeOK, Job, Notice, DownloadsAreRecorded
<1>7. SharersWereAdmitted'
  BY <1>3 DEF CompleteDownload, TypeOK, Entry, SharersWereAdmitted
<1>8. /\ MapsAgreeWithFiles' /\ GroupsAreOwned' /\ RequestsAreOpen'
      /\ OneHashPerName' /\ SeedersHavePath'
  BY DEF CompleteDownload, MapsAgreeWithFiles, FetchDetails, OnlineUsers,
         GroupsAreOwned, RequestsAreOpen, OneHashPerName, SeedersHavePath,
         Sharers, GetFullPathAnswer
<1> QED BY <1>4, <1>5, <1>6, <1>7, <1>8

\* A peer that exits or abandons a download leaves every file as it is.
LEMMA StopStep ==
  ASSUME IInv, NEW p \in Peers, AbandonDownload(p) \/ PeerExit(p)
  PROVE  IInv'
<1> USE DEF IInv
<1>1. TypeOK'
  BY DEF AbandonDownload, PeerExit, TypeOK
<1>2. Registered'
  BY DEF AbandonDownload, PeerExit, TypeOK, Registered
<1>3. DownloadsAreRecorded'
  <2>1. CASE AbandonDownload(p)
    BY <2>1, RecordedFrame DEF AbandonDownload, TypeOK, Started
  <2>2. CASE PeerExit(p)
    BY <2>2, RecordedFrame DEF PeerExit, TypeOK, Started
  <2> QED BY <2>1, <2>2
<1>4. UNCHANGED <<registry, sharing, history, maps>>
  BY DEF AbandonDownload, PeerExit
<1>5. /\ MapsAgreeWithFiles' /\ GroupsAreOwned' /\ RequestsAreOpen'
      /\ OneHashPerName' /\ SeedersHavePath' /\ SharersWereAdmitted'
  BY <1>4 DEF MapsAgreeWithFiles, OnlineUsers, GroupsAreOwned, RequestsAreOpen,
              OneHashPerName, SeedersHavePath, SharersWereAdmitted, Sharers,
              GetFullPathAnswer, Started
<1> QED BY <1>1, <1>2, <1>3, <1>5

----------------------------------------------------------------------------
(* The theorems.                                                           *)

\* Empty files satisfy the inductive invariant.
LEMMA Initially == Init => IInv
<1> SUFFICES ASSUME Init PROVE IInv
  OBVIOUS
<1>1. TypeOK
  BY DEF Init, TypeOK
<1>2. MapsAgreeWithFiles /\ Registered /\ GroupsAreOwned /\ RequestsAreOpen
  BY DEF Init, MapsAgreeWithFiles, OnlineUsers, Registered, GroupsAreOwned,
         RequestsAreOpen
<1>3. /\ DownloadsAreRecorded /\ OneHashPerName /\ SeedersHavePath
      /\ SharersWereAdmitted
  BY DEF Init, DownloadsAreRecorded, OneHashPerName, SeedersHavePath,
         SharersWereAdmitted
<1> QED BY <1>1, <1>2, <1>3 DEF IInv

\* The inductive invariant is about the variables of Tracker alone.
LEMMA Stutter ==
  ASSUME IInv, UNCHANGED vars
  PROVE  IInv'
<1> USE DEF IInv, vars
<1>1. TypeOK' /\ MapsAgreeWithFiles' /\ Registered'
  BY DEF TypeOK, MapsAgreeWithFiles, OnlineUsers, Registered
<1>2. GroupsAreOwned' /\ RequestsAreOpen' /\ DownloadsAreRecorded'
  BY DEF GroupsAreOwned, RequestsAreOpen, DownloadsAreRecorded, Started
<1>3. OneHashPerName' /\ SeedersHavePath' /\ SharersWereAdmitted'
  BY DEF OneHashPerName, SeedersHavePath, SharersWereAdmitted, Sharers,
         GetFullPathAnswer, Started
<1> QED BY <1>1, <1>2, <1>3

\* Every request the tracker serves and every step of a peer preserves the
\* inductive invariant.
LEMMA Inductive == IInv /\ [Next]_vars => IInv'
<1> SUFFICES ASSUME IInv, [Next]_vars PROVE IInv'
  OBVIOUS
<1>1. ASSUME NEW p \in Peers, Accounts(p) PROVE IInv'
  BY <1>1, UserLoginStep, UserCreateStep, LogoutStep, StopStep DEF Accounts
<1>2. ASSUME NEW p \in Peers, Grouping(p) PROVE IInv'
  BY <1>2, GroupCreateStep, GroupJoinStep, GroupLeaveStep,
     GroupAcceptRequestStep DEF Grouping
<1>3. ASSUME NEW p \in Peers, Sharing(p) PROVE IInv'
  <2>1. CASE \E u \in Users : Query(p, u)
    BY <2>1, ReloadStep DEF Query
  <2>2. CASE \E u \in Users, g \in Groups, n \in Names :
               \/ \E h \in Hashes : GroupFileUpload(p, u, g, h, n)
               \/ GroupStopShare(p, u, g, n)
               \/ SendSHA(p, u, g, n)
    BY <2>2, GroupFileUploadStep, GroupStopShareStep, SendSHAStep
  <2> QED BY <1>3, <2>1, <2>2 DEF Sharing
<1>4. ASSUME NEW p \in Peers, Downloading(p) PROVE IInv'
  BY <1>4, SendSeedersStep, UpdateServerStep, UpdateServerCompleteStep,
     StopStep DEF Downloading
<1>5. ASSUME NEW m \in notices, UpdateDownload(m) \/ CompleteDownload(m)
      PROVE  IInv'
  BY <1>5, UpdateDownloadStep, CompleteDownloadStep
<1>6. CASE Restart
  BY <1>6, ReloadStep DEF Restart
<1>7. CASE UNCHANGED vars
  BY <1>7, Stutter
<1> QED BY <1>1, <1>2, <1>3, <1>4, <1>5, <1>6, <1>7 DEF Next

\* The inductive invariant holds throughout: what the handlers of one tracker
\* write, in whatever order the requests arrive, fits together.
THEOREM Invariance == Spec => []IInv
BY Initially, Inductive, PTL DEF Spec

\* The registries, the maps and the peers keep their types.
THEOREM TypeCorrect == Spec => []TypeOK
<1>1. IInv => TypeOK
  BY DEF IInv
<1> QED BY <1>1, Invariance, PTL

\* Handlers that decide from the maps decide as if they had read the files:
\* a map that lags behind .pending.txt holds only requests of members.
THEOREM MapsCorrect == Spec => []MapsAgreeWithFiles
<1>1. IInv => MapsAgreeWithFiles
  BY DEF IInv
<1> QED BY <1>1, Invariance, PTL

\* Every line of .pending.txt can be decided by accept_request.
THEOREM RequestsCorrect == Spec => []RequestsAreOpen
<1>1. IInv => RequestsAreOpen
  BY DEF IInv
<1> QED BY <1>1, Invariance, PTL

\* upload_file and add_file keep the files list of a group a one-to-one
\* correspondence of names and contents.
THEOREM NamesCorrect == Spec => []OneHashPerName
<1>1. IInv => OneHashPerName
  BY DEF IInv
<1> QED BY <1>1, Invariance, PTL

\* A seeder that give_seeders names has a path that send_full_path finds, and
\* no path is kept for a file that is not shared.
THEOREM PathsCorrect == Spec => []SeedersHavePath
<1>1. IInv => SeedersHavePath
  BY DEF IInv
<1> QED BY <1>1, Invariance, PTL

\* Nobody shares in a group without having been its member.
THEOREM SharersCorrect == Spec => []SharersWereAdmitted
<1>1. IInv => SharersWereAdmitted
  BY DEF IInv
<1> QED BY <1>1, Invariance, PTL

----------------------------------------------------------------------------
(* What a step may do to the history of the downloads and to a group.      *)

\* create_user, give_sha and complete are all that write the two files; the
\* first empties only empty files, the others only add or move a line.
THEOREM HistoryCorrect == Spec => DownloadsAreKept
<1> DEFINE Kept == \A u \in Users :
      /\ downloadedFile[u] \subseteq downloadedFile'[u]
      /\ downloadingFile[u] \subseteq downloadingFile'[u] \cup downloadedFile'[u]
<1>1. ASSUME IInv, [Next]_vars PROVE [Kept]_vars
  <2>1. ASSUME UNCHANGED history PROVE Kept
    BY <2>1
  <2>2. ASSUME NEW p \in Peers, NEW u \in Users, NEW w \in Passwords,
               UserCreate(p, u, w)
        PROVE  Kept
    BY <1>1, <2>2 DEF UserCreate, IInv, TypeOK, Registered
  <2>3. ASSUME NEW p \in Peers, NEW u \in Users, NEW g \in Groups,
               NEW n \in Names, SendSHA(p, u, g, n)
        PROVE  Kept
    BY <1>1, <2>3 DEF SendSHA, IInv, TypeOK
  <2>4. ASSUME NEW m \in notices, CompleteDownload(m)
        PROVE  Kept
    BY <1>1, <2>4 DEF CompleteDownload, IInv, TypeOK, Notice
  <2> HIDE DEF Kept
  <2>5. ASSUME NEW p \in Peers, Accounts(p) PROVE Kept
    <3>1. ASSUME NEW u \in Users, NEW w \in Passwords, UserLogin(p, u, w)
          PROVE  UNCHANGED history
      BY <3>1 DEF UserLogin
    <3>2. ASSUME NEW u \in Users, Logout(p, u) PROVE UNCHANGED history
      BY <3>2 DEF Logout
    <3>3. ASSUME PeerExit(p) PROVE UNCHANGED history
      BY <3>3 DEF PeerExit
    <3> QED BY <2>1, <2>2, <2>5, <3>1, <3>2, <3>3 DEF Accounts
  <2>6. ASSUME NEW p \in Peers, Grouping(p) PROVE Kept
    <3>1. ASSUME NEW u \in Users, NEW g \in Groups, NEW v \in Users,
                 \/ GroupCreate(p, u, g) \/ GroupJoin(p, u, g)
                 \/ GroupLeave(p, u, g) \/ GroupAcceptRequest(p, u, g, v)
          PROVE  UNCHANGED history
      BY <3>1 DEF GroupCreate, GroupJoin, GroupLeave, GroupAcceptRequest
    <3> QED BY <2>1, <2>6, <3>1 DEF Grouping
  <2>7. ASSUME NEW p \in Peers, Sharing(p) PROVE Kept
    <3>1. ASSUME NEW u \in Users, Query(p, u) PROVE UNCHANGED history
      BY <3>1 DEF Query
    <3>2. ASSUME NEW u \in Users, NEW g \in Groups, NEW n \in Names,
                 NEW h \in Hashes, GroupFileUpload(p, u, g, h, n)
          PROVE  UNCHANGED history
      BY <3>2 DEF GroupFileUpload
    <3>3. ASSUME NEW u \in Users, NEW g \in Groups, NEW n \in Names,
                 GroupStopShare(p, u, g, n)
          PROVE  UNCHANGED history
      BY <3>3 DEF GroupStopShare
    <3> QED BY <2>1, <2>3, <2>7, <3>1, <3>2, <3>3 DEF Sharing
  <2>8. ASSUME NEW p \in Peers, Downloading(p) PROVE Kept
    <3>1. UNCHANGED history
      BY <2>8 DEF Downloading, SendSeeders, UpdateServer,
                  UpdateServerComplete, AbandonDownload
    <3> QED BY <2>1, <3>1
  <2>9. ASSUME NEW m \in notices, UpdateDownload(m) PROVE Kept
    <3>1. UNCHANGED history
      BY <2>9 DEF UpdateDownload
    <3> QED BY <2>1, <3>1
  <2>10. ASSUME Restart PROVE Kept
    BY <2>1, <2>10 DEF Restart
  <2> QED BY <1>1, <2>4, <2>5, <2>6, <2>7, <2>8, <2>9, <2>10 DEF Next
<1> QED BY <1>1, Invariance, PTL DEF Spec, DownloadsAreKept

\* The group commands implement the abstract specification of membership,
\* although join_group, accept_request and leave_group decide from maps that
\* may be behind the files.
THEOREM MembershipCorrect == Spec => ImplementsMembership
<1> DEFINE mvars == <<groupFile, memberFile, pendingFile>>
<1>1. Init => Members!Init
  BY DEF Init, Members!Init
<1>2. ASSUME IInv, [Next]_vars PROVE [Members!Next]_mvars
  <2>1. CASE UNCHANGED mvars
    BY <2>1
  <2>2. ASSUME NEW p \in Peers, NEW u \in Users, NEW g \in Groups,
               GroupCreate(p, u, g)
        PROVE  Members!Create(u, g) \/ UNCHANGED mvars
    BY <2>2 DEF GroupCreate, Members!Create
  <2>3. ASSUME NEW p \in Peers, NEW u \in Users, NEW g \in Groups,
               GroupJoin(p, u, g)
        PROVE  Members!Ask(u, g)
    BY <1>2, <2>3 DEF GroupJoin, Members!Ask, IInv, MapsAgreeWithFiles
  <2>4. ASSUME NEW p \in Peers, NEW u \in Users, NEW g \in Groups,
               NEW v \in Users, GroupAcceptRequest(p, u, g, v)
        PROVE  Members!Admit(v, g)
    BY <1>2, <2>4 DEF GroupAcceptRequest, Members!Admit, IInv, MapsAgreeWithFiles
  <2>5. ASSUME NEW p \in Peers, NEW u \in Users, NEW g \in Groups,
               GroupLeave(p, u, g)
        PROVE  Members!Leave(u, g)
    BY <1>2, <2>5 DEF GroupLeave, Members!Leave, IInv, MapsAgreeWithFiles
  <2>6. ASSUME NEW p \in Peers, Grouping(p) PROVE [Members!Next]_mvars
    BY <2>2, <2>3, <2>4, <2>5, <2>6 DEF Grouping, Members!Next
  <2>7. ASSUME NEW p \in Peers, Accounts(p) PROVE UNCHANGED mvars
    BY <2>7 DEF Accounts, UserLogin, UserCreate, Logout, PeerExit
  <2>8. ASSUME NEW p \in Peers, Sharing(p) PROVE UNCHANGED mvars
    BY <2>8 DEF Sharing, Query, GroupFileUpload, GroupStopShare, SendSHA
  <2>9. ASSUME NEW p \in Peers, Downloading(p) PROVE UNCHANGED mvars
    BY <2>9 DEF Downloading, SendSeeders, UpdateServer, UpdateServerComplete,
                AbandonDownload
  <2>10. ASSUME NEW m \in notices, UpdateDownload(m) \/ CompleteDownload(m)
         PROVE  UNCHANGED mvars
    BY <2>10 DEF UpdateDownload, CompleteDownload
  <2> QED BY <1>2, <2>1, <2>6, <2>7, <2>8, <2>9, <2>10 DEF Next, Restart, vars
<1> QED BY <1>1, <1>2, Invariance, PTL
        DEF Spec, ImplementsMembership, Members!Spec
=============================================================================
