------------------------------ MODULE Session ------------------------------
(***************************************************************************)
(* A peer process between two trackers that may go down: the command loop  *)
(* of peer.cpp, which looks for a tracker before every command, and the    *)
(* chunk server of peerserver.cpp, which looks for one before every chunk. *)
(*                                                                         *)
(* A tracker handles a request in one step here, with its pushes to the    *)
(* sibling, which it takes when the sibling accepts them; Handlers and     *)
(* TrackerSync take that step apart.  What counts is who is asked, when a  *)
(* tracker accepts, what becomes of the answer, which of the tracker's     *)
(* maps are old, and the file descriptors that are never closed.  A peer   *)
(* stands for its user, too, and shares one file in a group.               *)
(***************************************************************************)
EXTENDS Naturals, FiniteSets

CONSTANTS
  Peers,
  Groups,
  MaxFds,         \* descriptors a peer can open, besides those it starts with
  TrackerFds,     \* the same for a tracker
  ServedBefore,   \* how many chunks a peer that shares files may have sent before
  MaxKills,       \* kills of trackers, in all
  MaxEvents       \* lines typed, send_chunk requests, joins and kills, in all

ASSUME PeersAssumption == IsFiniteSet(Peers)
ASSUME BoundsAssumption ==
  /\ MaxFds \in Nat /\ TrackerFds \in Nat
  /\ MaxKills \in Nat /\ MaxEvents \in Nat
  /\ ServedBefore \subseteq 0..MaxFds

\* The lines of tracker_info.txt, in their order.
Trackers == 1..2
GetTracker2(t) == 3 - t

\* A line of a tracker's files, with the file it is in.
Account(u) == <<"credential", u>>
Online(u) == <<"online", u>>
Group(g, u) == <<"group", g, u>>      \* u is its admin
Member(g, u) == <<"members", g, u>>
Asked(g, u) == <<"pending", g, u>>
Share(g, u) == <<"files", u, g>>
Lines == {Account(u) : u \in Peers} \cup {Online(u) : u \in Peers}
           \cup UNION {{Group(g, u), Member(g, u), Asked(g, u), Share(g, u)} :
                          g \in Groups, u \in Peers}

\* There is a file of members for each group and a list of files for each user.
FileOf(l) == IF l[1] \in {"members", "files"} THEN <<l[1], l[2]>> ELSE <<l[1], "-">>

\* The lines old, with these files taken from the lines new.
Replace(old, new, files) ==
  {l \in old : FileOf(l) \notin files} \cup {l \in new : FileOf(l) \in files}

Command == [op : {"login", "create_user", "logout", "list_groups"}, group : {"-"}]
             \cup [op : {"create_group", "join_group", "stop_share"}, group : Groups]

VARIABLES
  up,        \* the tracker listens: its backlog takes connections
  joining,   \* TrackerServer waits for its threads and accepts none of them
  file,      \* the lines of each tracker's files
  map,       \* the lines of its maps
  fresh,     \* its files could be read when it loaded its maps, and nothing was
             \* received from the sibling since
  leaked,    \* descriptors a tracker has lost
  main,      \* the command loop of each peer
  serve,     \* the thread of each peer that answers send_chunk
  fds,       \* descriptors each peer has open
  count      \* events so far, kills among them, and whether a tracker went down
             \* or was short of descriptors

trackers == <<up, joining, file, map, fresh, leaked>>
vars == <<trackers, main, serve, fds, count>>

\* The command loop.  The fields from "done" on are for the properties: the tracker
\* did what was asked; a probe, or the tracker, had no descriptor left; the
\* trackers up all the time since the command was typed, and those that went down
\* since; logins so far.
Loop == [pc : {"prompt", "probe", "connect", "handshake", "nossl", "sent", "reply",
               "cut", "exited"},
         cmd : Command, infile : BOOLEAN, i : 1..3, flag : BOOLEAN, si : 0..2, login : BOOLEAN,
         reply : {"", "0", "1"},
         done : BOOLEAN, full : BOOLEAN, short : BOOLEAN, steady : SUBSET Trackers,
         gone : SUBSET Trackers, logins : 0..MaxEvents]

\* The server thread; others know of its files in the groups it offers.  For the
\* properties: while it looked for the path no tracker was up, one went down, or
\* there was no descriptor left; the tracker does not list the file.
Server == [pc : {"idle", "probe", "connect", "handshake", "path"}, i : 1..3,
           server : 0..2, group : Groups \cup {"-"}, path : {"", "file"},
           offers : SUBSET Groups, excused : BOOLEAN, unlisted : BOOLEAN,
           served : 0..(MaxFds + MaxEvents)]

Prompt == [pc |-> "prompt", cmd |-> [op |-> "list_groups", group |-> "-"],
           infile |-> FALSE, i |-> 1, flag |-> FALSE, si |-> 0, login |-> FALSE, reply |-> "",
           done |-> FALSE, full |-> FALSE, short |-> FALSE, steady |-> {}, gone |-> {},
           logins |-> 0]
Idle == [pc |-> "idle", i |-> 1, server |-> 0, group |-> "-", path |-> "",
         offers |-> {}, excused |-> FALSE, unlisted |-> FALSE, served |-> 0]

TypeOK ==
  /\ up \in [Trackers -> BOOLEAN] /\ joining \in [Trackers -> BOOLEAN]
  /\ file \in [Trackers -> SUBSET Lines]
  /\ map \in [Trackers -> SUBSET Lines]
  /\ fresh \in [Trackers -> BOOLEAN]
  /\ leaked \in [Trackers -> 0..TrackerFds]
  /\ main \in [Peers -> Loop]
  /\ serve \in [Peers -> Server]
  /\ fds \in [Peers -> 0..MaxFds]
  /\ count \in [event : 0..MaxEvents, kill : 0..MaxKills, trouble : BOOLEAN]

Running(p) == main[p].pc # "exited"
SetMain(p, fields) == main' = [main EXCEPT ![p] = fields]
Open(p) == fds' = [fds EXCEPT ![p] = @ + 1]
Close(p) == fds' = [fds EXCEPT ![p] = @ - 1]

----------------------------------------------------------------------------
(* The command loop.                                                       *)

\* exit(-1), for both threads of the peer.
Exit(p) ==
  /\ SetMain(p, [Prompt EXCEPT !.pc = "exited"])
  /\ serve' = [serve EXCEPT ![p] = Idle]
  /\ fds' = [fds EXCEPT ![p] = 0]
  /\ UNCHANGED <<trackers, count>>

\* A line is typed.  An empty line is the last command again: operator>> leaves
\* command_split as it was.  CheckTracker opens tracker_info.txt, and makes no probe
\* if it cannot.
Type(p, c) ==
  LET opens == fds[p] < MaxFds IN
  /\ main[p].pc = "prompt"
  /\ count.event < MaxEvents
  /\ count' = [count EXCEPT !.event = @ + 1]
  /\ SetMain(p, [main[p] EXCEPT !.pc = "probe", !.cmd = c, !.infile = opens,
                   !.i = IF opens THEN 1 ELSE 3, !.full = ~opens,
                   !.steady = {t \in Trackers : up[t]}])
  /\ IF opens THEN Open(p) ELSE UNCHANGED fds
  /\ UNCHANGED <<trackers, serve>>

\* Variant: the flag tells of the last probe only.
CheckTrackerLast(p) ==
  LET m == main[p] IN
  /\ m.pc = "probe" /\ m.i <= 2
  /\ \/ /\ fds[p] < MaxFds /\ up[m.i]
        /\ SetMain(p, [m EXCEPT !.i = @ + 1, !.flag = TRUE, !.si = m.i])
        /\ UNCHANGED fds
     \/ /\ fds[p] < MaxFds /\ ~up[m.i]
        /\ SetMain(p, [m EXCEPT !.i = @ + 1, !.flag = FALSE])
        /\ Open(p)
  /\ UNCHANGED <<trackers, serve, count>>

\* Variant: no close after a probe that succeeds.
CheckTrackerOpen(p) ==
  LET m == main[p] IN
  /\ m.pc = "probe" /\ m.i <= 2
  /\ fds[p] < MaxFds
  /\ SetMain(p, IF up[m.i] THEN [m EXCEPT !.i = @ + 1, !.flag = TRUE, !.si = m.i]
                ELSE [m EXCEPT !.i = @ + 1])
  /\ Open(p)
  /\ UNCHANGED <<trackers, serve, count>>

\* One probe.  The last tracker that answers is taken.  The socket of a probe
\* that fails stays open; without a descriptor left every probe fails.
CheckTracker(p) ==
  LET m == main[p] IN
  /\ m.pc = "probe" /\ m.i <= 2
  /\ \/ /\ fds[p] < MaxFds /\ up[m.i]
        /\ SetMain(p, [m EXCEPT !.i = @ + 1, !.flag = TRUE, !.si = m.i])
        /\ UNCHANGED fds
     \/ /\ fds[p] < MaxFds /\ ~up[m.i]
        /\ SetMain(p, [m EXCEPT !.i = @ + 1])
        /\ Open(p)
     \/ /\ fds[p] = MaxFds
        /\ SetMain(p, [m EXCEPT !.i = @ + 1, !.full = TRUE])
        /\ UNCHANGED fds
  /\ UNCHANGED <<trackers, serve, count>>

\* login and create_user want login_flag down, the others want it up.
WrongLogin(m) == m.login = (m.cmd.op \in {"login", "create_user"})

\* Variant: no reply is a failure.
ToldStrict(m) ==
  IF m.pc = "probe" THEN IF ~m.flag THEN "none" ELSE "login"
  ELSE IF m.pc = "reply" /\ m.reply = "1" THEN "ok" ELSE "failed"

\* What the peer prints.  Without a handshake the command has failed; without a
\* reply TLSRecvMsg returns the empty string, whose first character is not '0'.
Told(m) ==
  IF m.pc = "probe" THEN IF ~m.flag THEN "none" ELSE "login"
  ELSE IF m.pc = "nossl" \/ m.reply = "0" THEN "failed" ELSE "ok"

\* At the prompt again; si, sp, login_flag and the lost sockets remain.
Back(m) == [Prompt EXCEPT !.si = m.si, !.login = m.login, !.logins = m.logins]

\* Variants: probes go on until a tracker answers; the result is not looked at.
DispatchPatient(p) ==
  LET m == main[p] IN
  /\ m.pc = "probe" /\ m.i = 3
  /\ SetMain(p, IF ~m.flag THEN [m EXCEPT !.i = 1]
                ELSE IF WrongLogin(m) THEN Back(m)
                ELSE [m EXCEPT !.pc = "connect", !.infile = FALSE])
  /\ IF m.flag /\ m.infile THEN Close(p) ELSE UNCHANGED fds
  /\ UNCHANGED <<trackers, serve, count>>

DispatchBlind(p) ==
  LET m == main[p] IN
  /\ m.pc = "probe" /\ m.i = 3
  /\ SetMain(p, IF m.si = 0 THEN Back(m)
                ELSE IF WrongLogin(m) THEN Back(m)
                ELSE [m EXCEPT !.pc = "connect", !.infile = FALSE])
  /\ IF m.infile THEN Close(p) ELSE UNCHANGED fds
  /\ UNCHANGED <<trackers, serve, count>>

\* main, from the end of CheckTracker to the call for the command.
Dispatch(p) ==
  LET m == main[p] IN
  /\ m.pc = "probe" /\ m.i = 3
  /\ SetMain(p, IF ~m.flag THEN Back(m)
                ELSE IF WrongLogin(m) THEN Back(m)
                ELSE [m EXCEPT !.pc = "connect", !.infile = FALSE])
  /\ IF m.infile THEN Close(p) ELSE UNCHANGED fds
  /\ UNCHANGED <<trackers, serve, count>>

\* A failed socket or connect ends the process.
Connect(p) ==
  LET m == main[p] IN
  /\ m.pc = "connect"
  /\ \/ /\ fds[p] < MaxFds /\ up[m.si]
        /\ Open(p)
        /\ SetMain(p, [m EXCEPT !.pc = "handshake"])
        /\ UNCHANGED <<trackers, serve, count>>
     \/ /\ fds[p] = MaxFds \/ ~up[m.si]
        /\ Exit(p)

\* Variant: a socket whose handshake failed is closed twice.
ReplyTwice(p) ==
  LET m == main[p]
      op == m.cmd.op
      keeps == op = "login" /\ m.pc # "nossl"
  IN
  /\ m.pc \in {"nossl", "reply", "cut"}
  /\ SetMain(p, [Back(m) EXCEPT
       !.logins = IF keeps THEN @ + 1 ELSE @,
       !.login = \/ op \in {"login", "create_user"} /\ Told(m) = "ok"
                 \/ op \notin {"login", "create_user"} /\ @
                      /\ ~(op = "logout" /\ Told(m) = "ok")])
  /\ fds' = [fds EXCEPT ![p] = @ - (IF keeps THEN 0 ELSE IF m.pc = "nossl" THEN 2 ELSE 1)]
  /\ UNCHANGED <<trackers, serve, count>>

\* login_flag is the answer to login and create_user; UserLogin closes its socket
\* only if the handshake fails.
Reply(p) ==
  LET m == main[p]
      op == m.cmd.op
      keeps == op = "login" /\ m.pc # "nossl"
  IN
  /\ m.pc \in {"nossl", "reply", "cut"}
  /\ SetMain(p, [Back(m) EXCEPT
       !.logins = IF keeps THEN @ + 1 ELSE @,
       !.login = \/ op \in {"login", "create_user"} /\ Told(m) = "ok"
                 \/ op \notin {"login", "create_user"} /\ @
                      /\ ~(op = "logout" /\ Told(m) = "ok")])
  /\ IF keeps THEN UNCHANGED fds ELSE Close(p)
  /\ UNCHANGED <<trackers, serve, count>>

----------------------------------------------------------------------------
(* The chunk server: TransferFunction for one send_chunk at a time.        *)

\* accept fails without a descriptor, and with it the peer.
AcceptChunk(p, g) ==
  /\ Running(p) /\ serve[p].pc = "idle" /\ g \in serve[p].offers
  /\ count.event < MaxEvents
  /\ \/ /\ fds[p] < MaxFds
        /\ Open(p)
        /\ serve' = [serve EXCEPT ![p] =
             [serve[p] EXCEPT !.pc = "probe", !.group = g,
                              !.excused = \A t \in Trackers : ~up[t]]]
        /\ count' = [count EXCEPT !.event = @ + 1]
        /\ UNCHANGED <<trackers, main>>
     \/ /\ fds[p] = MaxFds
        /\ Exit(p)

\* CheckTracker of peerserver.cpp stops at the first tracker that answers.
\* If none does, the peer connects to an empty address and exits.
FindTracker(p) ==
  LET s == serve[p] IN
  /\ s.pc = "probe"
  /\ \/ /\ s.i <= 2 /\ fds[p] < MaxFds /\ up[s.i]
        /\ serve' = [serve EXCEPT ![p] = [s EXCEPT !.pc = "connect", !.i = 1, !.server = s.i]]
        /\ UNCHANGED <<trackers, main, fds, count>>
     \/ /\ s.i <= 2 /\ (fds[p] = MaxFds \/ ~up[s.i])
        /\ serve' = [serve EXCEPT ![p].i = @ + 1, ![p].excused = @ \/ fds[p] = MaxFds]
        /\ IF fds[p] < MaxFds THEN Open(p) ELSE UNCHANGED fds
        /\ UNCHANGED <<trackers, main, count>>
     \/ /\ s.i = 3
        /\ Exit(p)

\* GetFilePath.
AskForPath(p) ==
  LET s == serve[p] IN
  /\ s.pc = "connect"
  /\ \/ /\ fds[p] < MaxFds /\ up[s.server]
        /\ Open(p)
        /\ serve' = [serve EXCEPT ![p].pc = "handshake"]
        /\ UNCHANGED <<trackers, main, count>>
     \/ /\ fds[p] = MaxFds \/ ~up[s.server]
        /\ Exit(p)

\* The chunk is sent and its connection closed; the file stays open.  An empty
\* path cannot be opened, and fseek on the null FILE ends the process.
SendChunk(p) ==
  LET s == serve[p] IN
  /\ s.pc = "path"
  /\ \/ /\ s.path = "file" /\ fds[p] < MaxFds
        /\ serve' = [serve EXCEPT ![p] = [Idle EXCEPT !.served = s.served + 1, !.offers = s.offers]]
        /\ UNCHANGED <<trackers, main, fds, count>>
     \/ /\ s.path # "file" \/ fds[p] = MaxFds
        /\ Exit(p)

----------------------------------------------------------------------------
(* The trackers.                                                           *)

\* Descriptors in use: the lost ones and the connections being handled.
InUse(t) == leaked[t] + Cardinality({p \in Peers : main[p].pc = "sent" /\ main[p].si = t})
Free(t) == TrackerFds - InUse(t)
CanAccept(t) == Free(t) > 0

\* FetchDetails.
FetchDetails(lines) == {l \in lines : l[1] \in {"credential", "online", "group", "pending"}}

\* What the handler of p's request can read, and what it goes by: join_group and
\* stop_share take the maps as they are, the others load them first.
Read(p) == IF Free(main[p].si) > 0 THEN file[main[p].si] ELSE {}
Known(p) == IF main[p].cmd.op \in {"join_group", "stop_share"} THEN map[main[p].si]
            ELSE FetchDetails(Read(p))

Accepted(c, u, known, read) ==
  CASE c.op = "create_user" -> Account(u) \notin known
    [] c.op = "login" -> Account(u) \in known
    [] c.op = "logout" -> Online(u) \in known
    [] c.op = "list_groups" -> TRUE
    [] c.op = "create_group" -> \A v \in Peers : Group(c.group, v) \notin known
    [] c.op = "join_group" -> \E v \in Peers : Group(c.group, v) \in known
    [] c.op = "stop_share" -> /\ \E v \in Peers : Group(c.group, v) \in known
                              /\ Account(u) \in known /\ Member(c.group, u) \in read

\* GroupJoin asks again only if the admin is online.
AlreadyAsked(g, u, known) ==
  /\ Asked(g, u) \in known
  /\ \A v \in Peers : Group(g, v) \in known => Online(v) \notin known

\* The files it sends to the sibling, and how many Syncs that takes, those of files
\* not modelled here included.
Synced(c, u) ==
  CASE c.op = "create_user" -> {<<"online", "-">>, <<"credential", "-">>, <<"files", u>>}
    [] c.op \in {"login", "logout"} -> {<<"online", "-">>}
    [] c.op = "list_groups" -> {}
    [] c.op = "create_group" -> {<<"group", "-">>, <<"members", c.group>>}
    [] c.op = "join_group" -> {<<"pending", "-">>}
    [] c.op = "stop_share" -> {<<"files", u>>}
SyncCalls(c, u, known, read) ==
  CASE c.op = "create_user" -> 5
    [] c.op = "login" -> IF Online(u) \in known THEN 0 ELSE 1
    [] c.op = "logout" -> 1
    [] c.op = "list_groups" -> 0
    [] c.op = "create_group" -> 3
    [] c.op = "join_group" -> IF Member(c.group, u) \in read THEN 0 ELSE 1
    [] c.op = "stop_share" -> 2

\* The files of a tracker after a request that is accepted.
Written(c, u, known, lines) ==
  CASE c.op = "create_user" ->
         (lines \ {Share(g, u) : g \in Groups}) \cup {Account(u), Online(u)}
    [] c.op = "login" -> lines \cup {Online(u)}
    [] c.op = "logout" -> lines \ {Online(u)}
    [] c.op = "list_groups" -> lines
    [] c.op = "create_group" ->
         (lines \ {Member(c.group, v) : v \in Peers})
           \cup {Group(c.group, u), Member(c.group, u)}
    [] c.op = "join_group" ->
         IF Member(c.group, u) \in lines \/ AlreadyAsked(c.group, u, known)
         THEN lines ELSE lines \cup {Asked(c.group, u)}
    [] c.op = "stop_share" -> lines \ {Share(c.group, u)}

\* UserCreate, and what rewrites a file, have two files open at a time.  With one
\* descriptor the second does not open: no account is written, and a file that is
\* removed has no other to take its place.
Needs(op) == IF op \in {"create_user", "logout", "stop_share"} THEN 2 ELSE 1
Torn(c, u, lines) ==
  IF c.op = "create_user"
  THEN (lines \ {Share(g, u) : g \in Groups}) \cup {Online(u)}
  ELSE Replace(lines, {}, Synced(c, u))

\* The descriptors left for Sync: UserLogin and UserCreate still have a file open.
Avail(op, free) == IF op \in {"login", "create_user"} /\ free >= Needs(op) THEN free - 1 ELSE free

\* The answer to p's request, and the calls of Sync.
Accepts(p) == Accepted(main[p].cmd, p, Known(p), Read(p))
Calls(p) == IF Accepts(p) THEN SyncCalls(main[p].cmd, p, Known(p), Read(p)) ELSE 0

\* It connects to the sibling, with the file to push, or without it because it is torn.
Pushes(p) ==
  LET m == main[p] IN
  /\ m.pc = "sent" /\ up[GetTracker2(m.si)]
  /\ Calls(p) > 0 /\ Avail(m.cmd.op, Free(m.si)) >= 2
Dies(p) ==
  LET m == main[p] IN
  /\ m.pc = "sent" /\ up[GetTracker2(m.si)]
  /\ m.cmd.op \in {"logout", "stop_share"} /\ Accepts(p) /\ Free(m.si) = 1

\* Variant: no FetchDetails at the end of GroupCreate.
MapAfterStale(c, u, known, read, loaded) ==
  CASE c.op \in {"create_user", "logout"} -> loaded
    [] c.op = "login" -> known \cup {Online(u)}
    [] c.op = "join_group" /\ Member(c.group, u) \notin read ->
         known \cup {Asked(c.group, u)}
    [] OTHER -> known

\* The maps of a tracker after a request that is accepted; read is what it could
\* read of its files before, and loaded the maps of the files at the end.
MapAfter(c, u, known, read, loaded) ==
  CASE c.op \in {"create_user", "create_group", "logout"} -> loaded
    [] c.op = "login" -> known \cup {Online(u)}
    [] c.op = "join_group" /\ Member(c.group, u) \notin read ->
         known \cup {Asked(c.group, u)}
    [] OTHER -> known

\* TrackerServer, TLSAccept and the request.
Accept(p) ==
  LET m == main[p] IN
  /\ m.pc = "handshake" /\ up[m.si] /\ ~joining[m.si] /\ CanAccept(m.si)
  /\ SetMain(p, [m EXCEPT !.pc = "sent"])
  /\ UNCHANGED <<trackers, serve, fds, count>>

\* After 51 connections TrackerServer waits for the end of their threads.
Join(t) ==
  /\ up[t] /\ ~joining[t]
  /\ count.event < MaxEvents
  /\ joining' = [joining EXCEPT ![t] = TRUE]
  /\ count' = [count EXCEPT !.event = @ + 1]
  /\ UNCHANGED <<up, file, map, fresh, leaked, main, serve, fds>>

JoinEnds(t) ==
  /\ joining[t]
  /\ \A p \in Peers : main[p].pc = "sent" => main[p].si # t
  /\ joining' = [joining EXCEPT ![t] = FALSE]
  /\ UNCHANGED <<up, file, map, fresh, leaked, main, serve, fds, count>>

\* The descriptors that k calls of Sync lose, with n of them free: the FILE and the
\* socket of IsOnline if it fails for want of a sibling or of a descriptor.
Lost(k, n, online) == IF online /\ n >= 2 THEN 0 ELSE IF 2 * k < n THEN 2 * k ELSE n

\* TrackerKernel for one request, with its pushes.  Without a descriptor left the
\* answer is the usual one, and nothing is written.
Handle(p) ==
  LET m == main[p]
      t == m.si
      s == GetTracker2(t)
      c == m.cmd
      free == Free(t)
      short == free < Needs(c.op)
      known == Known(p)
      accepted == Accepts(p)
      lines == IF ~accepted \/ free = 0 THEN file[t]
               ELSE IF short THEN Torn(c, p, file[t])
               ELSE Written(c, p, known, file[t])
      avail == Avail(c.op, free)
      lost == Lost(Calls(p), avail, up[s])
      received == Pushes(p) /\ Free(s) >= 2
      reloads == accepted /\ c.op \in {"create_user", "create_group", "logout"}
      loads == free > 0 /\ (reloads => lost < avail)
      loaded == IF lost < avail THEN FetchDetails(lines) ELSE {}
  IN
  /\ m.pc = "sent" /\ up[t] /\ ~Dies(p)
  /\ Pushes(p) => CanAccept(s) /\ ~joining[s]
  /\ file' = [file EXCEPT ![t] = lines,
                          ![s] = IF received THEN Replace(@, lines, Synced(c, p)) ELSE @]
  /\ map' = [map EXCEPT ![t] = IF accepted THEN MapAfter(c, p, known, Read(p), loaded) ELSE known]
  /\ fresh' = [fresh EXCEPT ![t] = loads /\ (c.op \in {"join_group", "stop_share"} => @),
                            ![s] = @ /\ ~received]
  /\ leaked' = [leaked EXCEPT ![t] = @ + lost]
  /\ SetMain(p, [m EXCEPT !.pc = "reply", !.reply = IF accepted THEN "1" ELSE "0",
                   !.done = accepted /\ ~short, !.short = short])
  /\ count' = [count EXCEPT !.trouble = @ \/ short \/ lost > 0]
  /\ UNCHANGED <<up, joining, serve, fds>>

\* The end of a tracker, with its connections; lost are the peers to which it
\* has not sent its reply yet, and new the files that are left.
Down(t, lost, new) ==
  /\ up[t]
  /\ up' = [up EXCEPT ![t] = FALSE]
  /\ joining' = [joining EXCEPT ![t] = FALSE]
  /\ map' = [map EXCEPT ![t] = {}]
  /\ leaked' = [leaked EXCEPT ![t] = 0]
  /\ main' = [p \in Peers |->
       LET m == main[p]
           noted == [m EXCEPT !.steady = @ \ {t}, !.gone = @ \cup {t}]
       IN IF m.pc \in {"prompt", "exited"} THEN m
          ELSE IF m.si = t /\ m.pc = "handshake" THEN [noted EXCEPT !.pc = "nossl"]
          ELSE IF m.si = t /\ (m.pc = "sent" \/ p \in lost)
               THEN [noted EXCEPT !.pc = "cut", !.reply = ""]
          ELSE noted]
  /\ serve' = [p \in Peers |->
       LET s == serve[p]
       IN IF s.pc = "idle" THEN s
          ELSE IF s.server = t /\ s.pc = "handshake"
               THEN [s EXCEPT !.pc = "path", !.server = 0, !.excused = TRUE]
          ELSE [s EXCEPT !.excused = TRUE]]
  /\ file' = new
  /\ fresh' = [v \in Trackers |-> fresh[v] /\ v # t /\ new[v] = file[v]]
  /\ UNCHANGED fds

\* Logout and GroupStopShare have torn the file that they then push: Sync empties
\* the sibling's copy, reads from the null FILE, and the tracker dies.  The file of
\* GroupStopShare is the list of the group.
HandleDies(p) ==
  LET m == main[p]
      t == m.si
      s == GetTracker2(t)
      torn == Torn(m.cmd, p, file[t])
      emptied == IF m.cmd.op = "logout" /\ Free(s) >= 2
                 THEN Replace(file[s], {}, Synced(m.cmd, p)) ELSE file[s]
  IN
  /\ Dies(p) /\ up[t]
  /\ CanAccept(s) /\ ~joining[s]
  /\ Down(t, {}, [file EXCEPT ![t] = torn, ![s] = emptied])
  /\ count' = [count EXCEPT !.trouble = TRUE]

\* The tracker side of GetFilePath, and its end: the peer closes the socket.  The
\* path is empty if the tracker does not list the file.
GetFullPath(p) ==
  LET t == serve[p].server
      read == Free(t) >= 2
      listed == Share(serve[p].group, p) \in file[t]
  IN
  /\ serve[p].pc = "handshake" /\ up[t] /\ ~joining[t] /\ CanAccept(t)
  /\ serve' = [serve EXCEPT ![p].pc = "path", ![p].server = 0,
                 ![p].path = IF read /\ listed THEN "file" ELSE "",
                 ![p].excused = @ \/ ~read, ![p].unlisted = ~listed]
  /\ Close(p)
  /\ UNCHANGED <<trackers, main, count>>

Kill(t) ==
  /\ count.kill < MaxKills /\ count.event < MaxEvents
  /\ count' = [count EXCEPT !.kill = @ + 1, !.event = @ + 1, !.trouble = TRUE]
  /\ \E lost \in SUBSET {p \in Peers : main[p].pc = "reply" /\ main[p].si = t} :
       Down(t, lost, file)

\* TrackerServer exits when accept has no descriptor for a connection: one that
\* waits, a probe, or the sibling's Sync.
AcceptFails(t) ==
  /\ ~joining[t] /\ ~CanAccept(t)
  /\ \E p \in Peers :
       \/ main[p].pc = "handshake" /\ main[p].si = t
       \/ main[p].pc = "probe" /\ main[p].i > t
       \/ (Pushes(p) \/ Dies(p)) /\ main[p].si = GetTracker2(t)
       \/ serve[p].pc = "handshake" /\ serve[p].server = t
  /\ \E lost \in SUBSET {p \in Peers : main[p].pc = "reply" /\ main[p].si = t} :
       Down(t, lost, file)
  /\ count' = [count EXCEPT !.trouble = TRUE]

\* main of the tracker: FetchDetails, then SyncAll, for which the sibling sends
\* its files; how many of them come depends on when TrackerServer listens.
Start(t) ==
  LET s == GetTracker2(t) IN
  /\ ~up[t]
  /\ up' = [up EXCEPT ![t] = TRUE]
  /\ map' = [map EXCEPT ![t] = FetchDetails(file[t])]
  /\ \E dumped \in SUBSET {FileOf(l) : l \in file[t] \cup file[s]} :
       /\ dumped # {} => up[s]
       /\ file' = [file EXCEPT ![t] = Replace(@, file[s], dumped)]
       /\ fresh' = [fresh EXCEPT ![t] = dumped = {}]
  /\ UNCHANGED <<joining, leaked, main, serve, fds, count>>

----------------------------------------------------------------------------
\* What was registered before: nothing, or groups in which every peer shares a file.
Registered(groups, admin) ==
  {Account(u) : u \in Peers} \cup {Online(u) : u \in Peers}
    \cup {Group(g, admin[g]) : g \in groups}
    \cup {Member(g, u) : g \in groups, u \in Peers}
    \cup {Share(g, u) : g \in groups, u \in Peers}

Init ==
  /\ up = [t \in Trackers |-> TRUE]
  /\ joining = [t \in Trackers |-> FALSE]
  /\ fresh = [t \in Trackers |-> TRUE]
  /\ leaked = [t \in Trackers |-> 0]
  /\ \E groups \in SUBSET Groups, n \in ServedBefore \cup {0} : \E admin \in [groups -> Peers] :
       LET lines == IF groups = {} THEN {} ELSE Registered(groups, admin) IN
       /\ IF groups = {} THEN n = 0 ELSE n \in ServedBefore
       /\ file = [t \in Trackers |-> lines]
       /\ map = [t \in Trackers |-> FetchDetails(lines)]
       /\ main = [p \in Peers |-> [Prompt EXCEPT !.login = groups # {}]]
       /\ serve = [p \in Peers |-> [Idle EXCEPT !.served = n, !.offers = groups]]
       /\ fds = [p \in Peers |-> n]
  /\ count = [event |-> 0, kill |-> 0, trouble |-> FALSE]

\* A step of a peer that is under way, and one that a tracker takes part in.
Step(p) ==
  \/ CheckTracker(p) \/ Dispatch(p) \/ Connect(p) \/ Reply(p)
  \/ FindTracker(p) \/ AskForPath(p) \/ SendChunk(p)
Serve(p) == Accept(p) \/ Handle(p) \/ HandleDies(p) \/ GetFullPath(p)

Next ==
  \/ \E p \in Peers : \/ Step(p) \/ Serve(p)
                      \/ \E g \in Groups : AcceptChunk(p, g)
                      \/ \E c \in Command : Type(p, c)
  \/ \E t \in Trackers : Join(t) \/ JoinEnds(t) \/ Kill(t) \/ AcceptFails(t) \/ Start(t)

\* Every process that can go on does.  A connection waits in the backlog, which is
\* a queue, so a tracker that accepts time and again comes to it.  Nobody need type,
\* ask, kill or restart, and a join need not end.
Fairness ==
  /\ \A p \in Peers : WF_vars(Step(p)) /\ SF_vars(Serve(p))
  /\ \A t \in Trackers : SF_vars(AcceptFails(t))

Spec == Init /\ [][Next]_vars /\ Fairness

----------------------------------------------------------------------------
\* A command has ended.
Returned(p) == main[p].pc # "prompt" /\ main'[p].pc = "prompt"

\* What the peer prints is true: "failed" only if nothing was done, and success
\* only if it was done, or else the tracker went down after the command was
\* typed or had no descriptor left (output[0]=='0' is all the functions of
\* peer.cpp look at).
AnswersAreTrue ==
  [][\A p \in Peers :
       LET m == main[p] IN
       Returned(p) =>
         /\ Told(m) = "failed" => ~m.done
         /\ Told(m) = "ok" => m.done \/ m.si \in m.gone \/ m.short]_vars

\* "No tracker online" is printed only if no tracker was up all through the
\* probes of CheckTracker, or the peer had no descriptor to probe with.
NoTrackerMeansNone ==
  [][\A p \in Peers : Returned(p) /\ Told(main[p]) = "none"
                         => main[p].steady = {} \/ main[p].full]_vars

\* The maps of a tracker are those of its files, unless the sibling has sent
\* a file since they were loaded or the last reload had no descriptor; so
\* join_group is refused wrongly (tracker.cpp:566) in no other case.
MapsFollowFiles ==
  \A t \in Trackers : up[t] /\ fresh[t] => map[t] = FetchDetails(file[t])

\* As long as no tracker goes down or is short of descriptors, a peer that is back at
\* its prompt with no chunk to send has lost the sockets of its logins and the files
\* it served, no more; and no tracker has lost any (peer.cpp:66-101,
\* trackersync.cpp:45-96).
DescriptorsAreReturned ==
  ~count.trouble =>
    /\ \A p \in Peers :
         main[p].pc = "prompt" /\ serve[p].pc = "idle"
           => fds[p] = main[p].logins + serve[p].served
    /\ \A t \in Trackers : leaked[t] = 0

\* A peer exits only if a tracker went down during its command or its search for
\* a path, if no tracker was up to tell the path, if the tracker it asked could not
\* read its files or does not list the file (tracker.cpp:892-904), or if the peer
\* has no descriptor left.
ExitsOnlyOnFailure ==
  [][\A p \in Peers :
       Running(p) /\ main'[p].pc = "exited" =>
         \/ main[p].gone # {}
         \/ serve[p].excused
         \/ serve[p].unlisted
         \/ fds[p] = MaxFds]_vars

\* A command ends, with the peer at its prompt again or at its end, as long as no
\* join of a tracker lasts for ever (tracker.cpp:1311-1315), as one can.
CommandsEnd ==
  (\A t \in Trackers : []<>~joining[t]) =>
    \A p \in Peers : main[p].pc \notin {"prompt", "exited"}
                       ~> main[p].pc \in {"prompt", "exited"}

=============================================================================
