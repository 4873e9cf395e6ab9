--------------------------- MODULE SessionProofs ---------------------------
(***************************************************************************)
(* Theorems about Session, for any number of peers and groups and any      *)
(* limits on descriptors and events.                                       *)
(*                                                                         *)
(* The inductive invariant has a part for each peer and one for the        *)
(* trackers.  A peer's part ties its loop and its server thread to the     *)
(* trackers that are up (the tracker it took was up, or has gone down      *)
(* since; what it has heard is what was done), and accounts for every      *)
(* descriptor it has open.  The trackers' part bounds the descriptors of a *)
(* tracker by those it lost and the connections it handles, and says that  *)
(* its maps are those of its files while it is fresh.                      *)
(***************************************************************************)
EXTENDS Session, FiniteSetTheorems, TLAPS

\* Descriptors that the two threads of a peer will close themselves, and all that
\* a peer has reason to hold.
MainHolds(m) ==
  IF m.pc \in {"handshake", "nossl", "sent", "reply", "cut"} \/ (m.pc = "probe" /\ m.infile)
  THEN 1 ELSE 0
ServeHolds(s) == IF s.pc = "idle" THEN 0 ELSE IF s.pc = "handshake" THEN 2 ELSE 1
Held(m, s) == m.logins + MainHolds(m) + s.served + ServeHolds(s)

\* Whether a thread has an event of its own under way.
Busy(pc) == IF pc \in {"prompt", "exited", "idle"} THEN 0 ELSE 1

\* The command loop, with the trackers that are up and the number of events.
Resting(m) ==
  m.pc \in {"prompt", "exited"} =>
    m.i = 1 /\ ~m.flag /\ ~m.full /\ ~m.short /\ m.gone = {}
Probing(m, on) ==
  /\ m.pc = "probe" /\ ~m.flag /\ ~m.full => \A t \in m.steady : m.i <= t
  /\ m.pc \notin {"prompt", "exited"} => \A t \in m.steady : on[t]
  /\ m.pc \in {"probe", "connect"} /\ m.flag =>
       m.si \in Trackers /\ (on[m.si] \/ m.si \in m.gone)
  /\ m.pc = "connect" => m.flag
  /\ m.pc \in {"handshake", "nossl", "sent", "reply", "cut"} => m.si \in Trackers
Answering(m) ==
  /\ m.pc \notin {"reply", "cut"} => ~m.done /\ m.reply = ""
  /\ m.pc = "reply" => \/ m.reply = "0" /\ ~m.done
                       \/ m.reply = "1" /\ (m.done \/ m.short)
  /\ m.pc = "cut" => m.reply = "" /\ m.si \in m.gone

\* The server thread.
Serving(s, on) ==
  /\ s.pc = "idle" => s.i = 1
  /\ s.pc = "probe" /\ ~s.excused => \E t \in Trackers : s.i <= t /\ on[t]
  /\ s.pc \in {"connect", "handshake"} => s.server \in Trackers
  /\ s.pc = "connect" => on[s.server] \/ s.excused
  /\ s.pc = "path" => s.path = "file" \/ s.excused \/ s.unlisted

\* Descriptors and events of a peer.
Counted(m, s, n, c) ==
  /\ Held(m, s) <= n
  /\ ~c.trouble => n = Held(m, s)
  /\ m.logins + Busy(m.pc) <= c.event
  /\ s.served + Busy(s.pc) <= MaxFds + c.event

Count == [event : 0..MaxEvents, kill : 0..MaxKills, trouble : BOOLEAN]

PeerInv(m, s, n, on, c) ==
  /\ Resting(m) /\ Probing(m, on) /\ Answering(m)
  /\ Serving(s, on)
  /\ Counted(m, s, n, c)
PeersInv ==
  /\ main \in [Peers -> Loop] /\ serve \in [Peers -> Server] /\ fds \in [Peers -> 0..MaxFds]
  /\ \A p \in Peers : PeerInv(main[p], serve[p], fds[p], up, count)

\* The trackers.
Sent(t) == {p \in Peers : main[p].pc = "sent" /\ main[p].si = t}
TrackersInv ==
  /\ up \in [Trackers -> BOOLEAN] /\ joining \in [Trackers -> BOOLEAN]
  /\ fresh \in [Trackers -> BOOLEAN]
  /\ file \in [Trackers -> SUBSET Lines] /\ map \in [Trackers -> SUBSET Lines]
  /\ leaked \in [Trackers -> 0..TrackerFds]
  /\ count \in Count
  /\ \A t \in Trackers : leaked[t] + Cardinality(Sent(t)) <= TrackerFds
  /\ ~count.trouble => \A t \in Trackers : up[t] /\ leaked[t] = 0
  /\ MapsFollowFiles

Inv == PeersInv /\ TrackersInv

----------------------------------------------------------------------------
(* One step of one peer.                                                   *)

LEMMA Sizes ==
  ASSUME NEW m \in Loop, NEW s \in Server
  PROVE  /\ m.logins \in Nat /\ s.served \in Nat /\ MaxFds \in Nat /\ MaxEvents \in Nat
         /\ Busy(m.pc) \in 0..1 /\ Busy(s.pc) \in 0..1
<1>1. m.logins \in 0..MaxEvents
  BY DEF Loop
<1>2. s.served \in 0..(MaxFds + MaxEvents)
  BY DEF Server
<1> QED
  BY <1>1, <1>2, BoundsAssumption DEF Busy

\* More trackers up and more events do not disturb a peer.
LEMMA PeerMono ==
  ASSUME NEW m \in Loop, NEW s \in Server, NEW n \in 0..MaxFds,
         NEW on, NEW on2, NEW c \in Count, NEW c2 \in Count,
         \A t \in Trackers : on[t] => on2[t],
         c.event <= c2.event, c.trouble => c2.trouble,
         PeerInv(m, s, n, on, c)
  PROVE  PeerInv(m, s, n, on2, c2)
<1>1. m.steady \subseteq Trackers
  BY DEF Loop
<1>2. Probing(m, on2)
  BY <1>1 DEF Loop, PeerInv, Probing
<1>3. Serving(s, on2)
  BY DEF Server, PeerInv, Serving
<1>4. Counted(m, s, n, c2)
  <2>1. c.event \in Nat /\ c2.event \in Nat
    BY BoundsAssumption DEF Count
  <2> QED
    BY <2>1, Sizes DEF PeerInv, Counted
<1> QED
  BY <1>2, <1>3, <1>4 DEF PeerInv

\* A peer that keeps its part of the invariant keeps that of all peers.
LEMMA PeersStep ==
  ASSUME PeersInv, TrackersInv, NEW p \in Peers, NEW m \in Loop, NEW s \in Server, NEW n \in 0..MaxFds,
         main' = [main EXCEPT ![p] = m], serve' = [serve EXCEPT ![p] = s],
         fds' = [fds EXCEPT ![p] = n],
         up' = up, count' \in Count, count.event <= count'.event, count.trouble => count'.trouble,
         PeerInv(m, s, n, up, count')
  PROVE  PeersInv'
<1>1. /\ main' \in [Peers -> Loop] /\ serve' \in [Peers -> Server] /\ fds' \in [Peers -> 0..MaxFds]
  BY DEF PeersInv
<1>2. ASSUME NEW q \in Peers, q # p
      PROVE  PeerInv(main'[q], serve'[q], fds'[q], up', count')
  <2>1. main'[q] = main[q] /\ serve'[q] = serve[q] /\ fds'[q] = fds[q]
    BY <1>2 DEF PeersInv
  <2>2. /\ main[q] \in Loop /\ serve[q] \in Server /\ fds[q] \in 0..MaxFds /\ count \in Count
        /\ PeerInv(main[q], serve[q], fds[q], up, count)
    BY DEF PeersInv, TrackersInv
  <2>3. PeerInv(main[q], serve[q], fds[q], up, count')
    BY <2>2, PeerMono
  <2> QED
    BY <2>1, <2>3
<1>3. main'[p] = m /\ serve'[p] = s /\ fds'[p] = n
  BY DEF PeersInv
<1>4. PeerInv(main'[p], serve'[p], fds'[p], up', count')
  BY <1>3
<1> QED
  BY <1>1, <1>2, <1>4 DEF PeersInv

LEMMA Finite ==
  ASSUME NEW t \in Trackers
  PROVE  IsFiniteSet(Sent(t)) /\ Cardinality(Sent(t)) \in Nat
<1>1. Sent(t) \subseteq Peers
  BY DEF Sent
<1> QED
  BY <1>1, PeersAssumption, FS_Subset, FS_CardinalityType

\* The trackers' part of the invariant, when only the peers move and no request
\* arrives.
LEMMA TrackersStep ==
  ASSUME TrackersInv, UNCHANGED <<up, file, map, fresh, leaked>>,
         joining' \in [Trackers -> BOOLEAN], count' \in Count, count.trouble => count'.trouble,
         \A t \in Trackers : Sent(t)' \subseteq Sent(t)
  PROVE  TrackersInv'
<1>1. ASSUME NEW t \in Trackers
      PROVE  leaked'[t] + Cardinality(Sent(t)') <= TrackerFds
  <2>1. PICK a, b : a = Sent(t) /\ b = Sent(t)'
    OBVIOUS
  <2>2. Cardinality(a) \in Nat /\ Cardinality(b) \in Nat /\ Cardinality(b) <= Cardinality(a)
    BY <2>1, Finite, FS_Subset, FS_CardinalityType
  <2>3. leaked'[t] = leaked[t] /\ leaked[t] \in 0..TrackerFds /\ TrackerFds \in Nat
        /\ leaked[t] + Cardinality(a) <= TrackerFds
    BY <2>1, BoundsAssumption DEF TrackersInv
  <2> QED
    BY <2>1, <2>2, <2>3
<1>2. MapsFollowFiles'
  BY DEF TrackersInv, MapsFollowFiles
<1> QED
  BY <1>1, <1>2 DEF TrackersInv

LEMMA FewerSent ==
  ASSUME PeersInv, NEW p \in Peers, NEW m, main' = [main EXCEPT ![p] = m],
         m.pc = "sent" => main[p].pc = "sent" /\ main[p].si = m.si
  PROVE  \A t \in Trackers : Sent(t)' \subseteq Sent(t)
<1>1. \A q \in Peers : main'[q] = IF q = p THEN m ELSE main[q]
  BY DEF PeersInv
<1> QED
  BY <1>1 DEF Sent

LEMMA OfPeer ==
  ASSUME Inv, NEW p \in Peers
  PROVE  \E m \in Loop, s \in Server, n \in 0..MaxFds :
           m = main[p] /\ s = serve[p] /\ n = fds[p] /\ PeerInv(m, s, n, up, count)
BY DEF Inv, PeersInv

LEMMA OfCount ==
  ASSUME Inv
  PROVE  count \in Count /\ count.event \in Nat /\ count.event <= MaxEvents
BY BoundsAssumption DEF Inv, TrackersInv, Count

\* One more event.
LEMMA Event ==
  ASSUME NEW c \in Count, c.event < MaxEvents
  PROVE  LET c2 == [c EXCEPT !.event = @ + 1] IN
         /\ c2 \in Count /\ c2.event = c.event + 1 /\ c2.trouble = c.trouble
         /\ c.event \in Nat /\ c.event <= c2.event
<1>1. c.event \in 0..MaxEvents /\ c.kill \in 0..MaxKills /\ c.trouble \in BOOLEAN
      /\ c = [event |-> c.event, kill |-> c.kill, trouble |-> c.trouble]
  BY DEF Count
<1>2. MaxEvents \in Nat
  BY BoundsAssumption
<1>3. c.event + 1 \in 0..MaxEvents
  BY <1>1, <1>2
<1> DEFINE c2 == [c EXCEPT !.event = @ + 1]
<1>4. c2 = [event |-> c.event + 1, kill |-> c.kill, trouble |-> c.trouble]
  BY <1>1
<1>5. c2 \in Count /\ c2.event = c.event + 1 /\ c2.trouble = c.trouble
  BY <1>1, <1>3, <1>4 DEF Count
<1> QED
  BY <1>1, <1>2, <1>5

\* A tracker goes down or is short of descriptors.
LEMMA Troubled ==
  ASSUME NEW c \in Count, NEW b \in BOOLEAN
  PROVE  LET c2 == [c EXCEPT !.trouble = b] IN
         c2 \in Count /\ c2.event = c.event /\ c2.trouble = b /\ c.event <= c2.event
<1>1. c.event \in 0..MaxEvents /\ MaxEvents \in Nat
  BY BoundsAssumption DEF Count
<1>2. c.event <= c.event
  BY <1>1
<1> QED
  BY <1>2 DEF Count

\* What is to be shown of a step of a peer that no tracker takes part in.
LEMMA PeerMoves ==
  ASSUME Inv, NEW p \in Peers, NEW m \in Loop, NEW s \in Server, NEW n \in 0..MaxFds,
         main' = [main EXCEPT ![p] = m], serve' = [serve EXCEPT ![p] = s],
         fds' = [fds EXCEPT ![p] = n],
         UNCHANGED trackers, count' \in Count, count.event <= count'.event,
         count.trouble => count'.trouble,
         m.pc = "sent" => main[p].pc = "sent" /\ main[p].si = m.si,
         PeerInv(m, s, n, up, count')
  PROVE  Inv'
<1>1. PeersInv'
  BY PeersStep DEF Inv, trackers
<1>2. TrackersInv'
  <2>1. UNCHANGED <<up, file, map, fresh, leaked>> /\ joining' \in [Trackers -> BOOLEAN]
    BY DEF Inv, TrackersInv, trackers
  <2> QED
    BY <2>1, FewerSent, TrackersStep DEF Inv
<1> QED
  BY <1>1, <1>2 DEF Inv

\* The threads of a peer that a step leaves alone.
LEMMA Untouched ==
  ASSUME Inv, NEW p \in Peers
  PROVE  /\ serve = [serve EXCEPT ![p] = serve[p]]
         /\ fds = [fds EXCEPT ![p] = fds[p]]
         /\ main = [main EXCEPT ![p] = main[p]]
         /\ count.event <= count.event
BY OfCount DEF Inv, PeersInv

LEMMA TypeStep ==
  ASSUME Inv, NEW p \in Peers, NEW c \in Command, Type(p, c)
  PROVE  Inv'
<1>1. PICK m \in Loop, s \in Server, n \in 0..MaxFds :
        m = main[p] /\ s = serve[p] /\ n = fds[p] /\ PeerInv(m, s, n, up, count)
  BY OfPeer
<1>a. PICK o \in BOOLEAN : o <=> n < MaxFds
  OBVIOUS
<1>b. PICK i \in 1..3 : i = (IF o THEN 1 ELSE 3)
  OBVIOUS
<1>g. PICK f \in BOOLEAN : f = ~o
  OBVIOUS
<1>2. PICK m2 : m2 = [m EXCEPT !.pc = "probe", !.cmd = c, !.infile = o, !.i = i, !.full = f,
                        !.steady = {t \in Trackers : up[t]}]
  OBVIOUS
<1>c. PICK n2 : n2 = IF o THEN n + 1 ELSE n
  OBVIOUS
<1>d. n \in Nat /\ n2 \in 0..MaxFds
  BY <1>a, <1>c, BoundsAssumption
<1>3. /\ m.pc = "prompt" /\ count.event < MaxEvents /\ count' = [count EXCEPT !.event = @ + 1]
      /\ UNCHANGED <<trackers, up, serve>>
  BY <1>1 DEF Type, trackers
<1>e. main' = [main EXCEPT ![p] = m2]
  <2>1. o = (fds[p] < MaxFds)
    BY <1>1, <1>a
  <2>2. main' = [main EXCEPT ![p] = [main[p] EXCEPT !.pc = "probe", !.cmd = c, !.infile = o,
                   !.i = IF o THEN 1 ELSE 3, !.full = ~o, !.steady = {t \in Trackers : up[t]}]]
    BY <2>1, Zenon DEF Type, SetMain
  <2> QED
    BY <1>1, <1>2, <1>b, <1>g, <2>2
<1>f. fds' = [fds EXCEPT ![p] = n2]
  BY <1>1, <1>a, <1>c, Untouched DEF Type, Open
<1>4. m2 \in Loop
  BY <1>2 DEF Loop
<1>5. /\ m2.pc = "probe" /\ m2.steady = {t \in Trackers : up[t]} /\ m2.i = i /\ m2.infile = o
      /\ m2.flag = m.flag /\ m2.full = f /\ m2.done = m.done /\ m2.reply = m.reply
      /\ m2.logins = m.logins
  BY <1>2 DEF Loop
<1>6. /\ count' \in Count /\ count'.event = count.event + 1 /\ count'.trouble = count.trouble
      /\ count.event <= count'.event
  BY <1>3, OfCount, Event
<1>7. PeerInv(m2, s, n2, up, count')
  <2>1. Resting(m2) /\ Answering(m2)
    BY <1>1, <1>3, <1>5 DEF PeerInv, Resting, Answering
  <2>2. Probing(m2, up)
    <3>1. \A t \in m2.steady : 1 <= t /\ up[t]
      BY <1>5 DEF Trackers
    <3>2. ~m2.flag
      BY <1>1, <1>3, <1>5 DEF PeerInv, Resting
    <3>3. ~m2.full => m2.i = 1
      BY <1>5, <1>b, <1>g
    <3> QED
      BY <1>5, <3>1, <3>2, <3>3 DEF Probing
  <2>3. Serving(s, up)
    BY <1>1 DEF PeerInv
  <2>4. MainHolds(m) = 0 /\ MainHolds(m2) = (IF o THEN 1 ELSE 0) /\ Busy(m.pc) = 0
        /\ Busy(m2.pc) = 1 /\ ServeHolds(s) \in 0..2
    BY <1>3, <1>5 DEF MainHolds, Busy, ServeHolds
  <2>5. Counted(m2, s, n2, count')
    BY <1>1, <1>5, <1>6, <1>c, <1>d, <2>4, Sizes, OfCount DEF PeerInv, Counted, Held
  <2> QED
    BY <2>1, <2>2, <2>3, <2>5 DEF PeerInv
<1>8. serve' = [serve EXCEPT ![p] = s]
  BY <1>1, <1>3, Untouched
<1> QED
  BY <1>1, <1>3, <1>4, <1>5, <1>6, <1>7, <1>8, <1>d, <1>e, <1>f, PeerMoves

LEMMA ProbeStep ==
  ASSUME Inv, NEW p \in Peers, CheckTracker(p)
  PROVE  Inv'
<1>1. PICK m \in Loop, s \in Server, n \in 0..MaxFds :
        m = main[p] /\ s = serve[p] /\ n = fds[p] /\ PeerInv(m, s, n, up, count)
  BY OfPeer
<1>i. m.pc = "probe" /\ m.i <= 2 /\ UNCHANGED <<trackers, up, serve, count>>
  BY <1>1 DEF CheckTracker, trackers
<1>j. m.i \in 1..3
  BY DEF Loop
<1>2. /\ m.pc = "probe" /\ m.i \in Trackers /\ UNCHANGED <<trackers, up, serve, count>>
      /\ m.i \in 0..2 /\ m.i + 1 \in 1..3
  BY <1>i, <1>j DEF Trackers
<1>3. serve' = [serve EXCEPT ![p] = s] /\ count' \in Count /\ count.event <= count'.event
      /\ n \in Nat /\ n <= n /\ n <= MaxFds /\ MaxFds \in Nat /\ fds = [fds EXCEPT ![p] = n]
  BY <1>1, <1>2, Untouched, OfCount, BoundsAssumption
<1>4. \A t \in m.steady : t \in Trackers /\ up[t]
  BY <1>1, <1>2 DEF PeerInv, Probing, Loop
\* A probe of m.i with the outcome m2, and the descriptors n2 after it.
<1>5. ASSUME NEW m2, NEW n2 \in 0..MaxFds, n <= n2, ~count.trouble => n2 = n,
             main' = [main EXCEPT ![p] = m2], fds' = [fds EXCEPT ![p] = n2],
             m2 \in Loop, m2.pc = "probe", m2.i = m.i + 1, m2.steady = m.steady,
             m2.gone = m.gone, m2.done = m.done, m2.reply = m.reply,
             m2.logins = m.logins, m2.infile = m.infile,
             \/ m2.flag /\ m2.si = m.i /\ up[m.i]
             \/ m2.flag = m.flag /\ m2.si = m.si /\ (m2.full \/ (m2.full = m.full /\ ~up[m.i]))
      PROVE  Inv'
  <2>1. Resting(m2) /\ Answering(m2)
    BY <1>1, <1>2, <1>5 DEF PeerInv, Resting, Answering
  <2>2. Probing(m2, up)
    <3>1. m2.flag => m2.si \in Trackers /\ (up[m2.si] \/ m2.si \in m2.gone)
      BY <1>1, <1>2, <1>5 DEF PeerInv, Probing
    <3>2. ASSUME ~m2.flag, ~m2.full, NEW t \in m2.steady
          PROVE  m2.i <= t
      <4>1. m.i <= t /\ t # m.i
        BY <1>1, <1>2, <1>4, <1>5, <3>2 DEF PeerInv, Probing
      <4> QED
        BY <1>2, <1>4, <1>5, <4>1 DEF Trackers
    <3> QED
      BY <1>4, <1>5, <3>1, <3>2 DEF Probing
  <2>3. Serving(s, up)
    BY <1>1 DEF PeerInv
  <2>4. Counted(m2, s, n2, count)
    BY <1>1, <1>2, <1>3, <1>5, Sizes, OfCount
       DEF PeerInv, Counted, Held, MainHolds, ServeHolds, Busy
  <2>5. PeerInv(m2, s, n2, up, count')
    BY <1>2, <2>1, <2>2, <2>3, <2>4 DEF PeerInv
  <2> QED
    BY <1>1, <1>2, <1>3, <1>5, <2>5, PeerMoves
<1>6. CASE n < MaxFds /\ up[m.i]
  <2>1. PICK m2 : m2 = [m EXCEPT !.i = @ + 1, !.flag = TRUE, !.si = m.i]
    OBVIOUS
  <2>2. main' = [main EXCEPT ![p] = m2] /\ fds' = [fds EXCEPT ![p] = n]
    BY <1>1, <1>3, <1>6, <2>1 DEF CheckTracker, SetMain
  <2>3. m2 \in Loop /\ m2.pc = "probe" /\ m2.i = m.i + 1 /\ m2.steady = m.steady /\ m2.flag
        /\ m2.gone = m.gone /\ m2.done = m.done /\ m2.reply = m.reply /\ m2.logins = m.logins
        /\ m2.infile = m.infile /\ m2.si = m.i
    BY <1>2, <2>1 DEF Loop
  <2> QED
    BY <1>3, <1>5, <1>6, <2>2, <2>3
<1>7. CASE n < MaxFds /\ ~up[m.i]
  <2>1. PICK m2 : m2 = [m EXCEPT !.i = @ + 1]
    OBVIOUS
  <2>2. main' = [main EXCEPT ![p] = m2] /\ fds' = [fds EXCEPT ![p] = n + 1]
    BY <1>1, <1>3, <1>7, <2>1 DEF CheckTracker, SetMain, Open
  <2>3. m2 \in Loop /\ m2.pc = "probe" /\ m2.i = m.i + 1 /\ m2.steady = m.steady
        /\ m2.gone = m.gone /\ m2.done = m.done /\ m2.reply = m.reply /\ m2.logins = m.logins
        /\ m2.infile = m.infile /\ m2.si = m.si /\ m2.flag = m.flag /\ m2.full = m.full
    BY <1>2, <2>1 DEF Loop
  <2>4. n + 1 \in 0..MaxFds /\ n <= n + 1
    BY <1>3, <1>7
  <2>5. count.trouble
    BY <1>2, <1>7 DEF Inv, TrackersInv
  <2> QED
    BY <1>5, <1>7, <2>2, <2>3, <2>4, <2>5
<1>8. CASE n = MaxFds
  <2>1. PICK m2 : m2 = [m EXCEPT !.i = @ + 1, !.full = TRUE]
    OBVIOUS
  <2>2. main' = [main EXCEPT ![p] = m2] /\ fds' = [fds EXCEPT ![p] = n]
    BY <1>1, <1>3, <1>8, <2>1 DEF CheckTracker, SetMain
  <2>3. m2 \in Loop /\ m2.pc = "probe" /\ m2.i = m.i + 1 /\ m2.steady = m.steady /\ m2.full
        /\ m2.gone = m.gone /\ m2.done = m.done /\ m2.reply = m.reply /\ m2.logins = m.logins
        /\ m2.infile = m.infile /\ m2.si = m.si /\ m2.flag = m.flag
    BY <1>2, <2>1 DEF Loop
  <2> QED
    BY <1>3, <1>5, <2>2, <2>3
<1> QED
  BY <1>3, <1>6, <1>7, <1>8

\* A loop that is back at its prompt.
AtRest(m, k) ==
  /\ m.pc = "prompt" /\ m.i = 1 /\ m.logins = k
  /\ ~m.flag /\ ~m.full /\ ~m.short /\ ~m.done
  /\ m.gone = {} /\ m.steady = {} /\ m.reply = ""

LEMMA PromptRests == Prompt \in Loop /\ AtRest(Prompt, 0)
<1>1. [op |-> "list_groups", group |-> "-"] \in Command
  BY DEF Command
<1>2. 1 \in 1..3 /\ 0 \in 0..2 /\ 0 \in 0..MaxEvents
  BY BoundsAssumption
<1>3. Prompt \in Loop
  BY <1>1, <1>2 DEF Prompt, Loop
<1>4. AtRest(Prompt, 0)
  BY DEF Prompt, AtRest
<1> QED
  BY <1>3, <1>4

LEMMA BackRests ==
  ASSUME NEW m \in Loop, NEW lg \in BOOLEAN, NEW k \in 0..MaxEvents
  PROVE  LET m2 == [Back(m) EXCEPT !.logins = k, !.login = lg] IN
         m2 \in Loop /\ AtRest(m2, k)
<1>1. m.si \in 0..2 /\ m.login \in BOOLEAN /\ m.logins \in 0..MaxEvents
  BY DEF Loop
<1>2. PICK r : r = Prompt
  OBVIOUS
<1>3. r \in Loop /\ AtRest(r, 0)
  BY <1>2, PromptRests
<1>4. PICK b : b = Back(m)
  OBVIOUS
<1>5. b = [r EXCEPT !.si = m.si, !.login = m.login, !.logins = m.logins]
  BY <1>2, <1>4 DEF Back
<1>6. b \in Loop
  BY <1>1, <1>3, <1>5 DEF Loop
<1>7. AtRest(b, m.logins)
  BY <1>3, <1>5 DEF AtRest, Loop
<1>8. [b EXCEPT !.logins = k, !.login = lg] \in Loop
  BY <1>6 DEF Loop
<1>9. AtRest([b EXCEPT !.logins = k, !.login = lg], k)
  BY <1>6, <1>7 DEF AtRest, Loop
<1> QED
  BY <1>4, <1>8, <1>9

\* The step there, with the descriptors that are left.
LEMMA RestStep ==
  ASSUME Inv, NEW p \in Peers, NEW m2 \in Loop, NEW n2 \in 0..MaxFds, NEW k \in 0..MaxEvents,
         main[p].pc \notin {"prompt", "exited"}, AtRest(m2, k),
         main' = [main EXCEPT ![p] = m2], fds' = [fds EXCEPT ![p] = n2],
         UNCHANGED <<trackers, serve, count>>,
         k <= main[p].logins + 1,
         n2 + MainHolds(main[p]) + main[p].logins = fds[p] + k
  PROVE  Inv'
<1>1. PICK m \in Loop, s \in Server, n \in 0..MaxFds :
        m = main[p] /\ s = serve[p] /\ n = fds[p] /\ PeerInv(m, s, n, up, count)
  BY OfPeer
<1>2. Resting(m2) /\ Answering(m2) /\ Probing(m2, up) /\ Serving(s, up)
  BY <1>1 DEF Resting, Answering, Probing, PeerInv, AtRest
<1>3. m.pc \notin {"prompt", "exited", "idle"} /\ m2.pc = "prompt" /\ m2.logins = k
  BY <1>1 DEF Loop, AtRest
<1>4. MainHolds(m) \in 0..1 /\ MainHolds(m2) = 0 /\ Busy(m.pc) = 1 /\ Busy(m2.pc) = 0
      /\ ServeHolds(s) \in 0..2
  BY <1>3 DEF MainHolds, ServeHolds, Busy
<1>5. n2 \in Nat /\ n \in Nat /\ k \in Nat
  BY BoundsAssumption
<1>6. Counted(m2, s, n2, count)
  BY <1>1, <1>3, <1>4, <1>5, Sizes, OfCount DEF PeerInv, Counted, Held
<1>7. PeerInv(m2, s, n2, up, count')
  BY <1>2, <1>6 DEF PeerInv
<1>8. serve' = [serve EXCEPT ![p] = s] /\ count' \in Count /\ count.event <= count'.event
  BY <1>1, Untouched, OfCount
<1> QED
  BY <1>1, <1>3, <1>7, <1>8, PeerMoves

LEMMA DispatchStep ==
  ASSUME Inv, NEW p \in Peers, Dispatch(p)
  PROVE  Inv'
<1>1. PICK m \in Loop, s \in Server, n \in 0..MaxFds :
        m = main[p] /\ s = serve[p] /\ n = fds[p] /\ PeerInv(m, s, n, up, count)
  BY OfPeer
<1>2. /\ m.pc = "probe" /\ UNCHANGED <<trackers, up, serve, count>>
      /\ serve' = [serve EXCEPT ![p] = s]
      /\ count' \in Count /\ count.event <= count'.event
  BY <1>1, Untouched, OfCount DEF Dispatch, trackers
<1>a. PICK n2 : n2 = IF m.infile THEN n - 1 ELSE n
  OBVIOUS
<1>b. fds' = [fds EXCEPT ![p] = n2]
  BY <1>1, <1>a, Untouched DEF Dispatch, Close
<1>c. MainHolds(m) = (IF m.infile THEN 1 ELSE 0) /\ Busy(m.pc) = 1 /\ ServeHolds(s) \in 0..2
  BY <1>2 DEF MainHolds, ServeHolds, Busy
<1>d. n2 \in 0..MaxFds /\ n \in Nat /\ n2 + MainHolds(m) = n
  BY <1>1, <1>a, <1>c, Sizes, BoundsAssumption DEF PeerInv, Counted, Held
<1>3. CASE ~m.flag \/ WrongLogin(m)
  <2>1. PICK m2 : m2 = Back(m)
    OBVIOUS
  <2>2. main' = [main EXCEPT ![p] = m2]
    BY <1>1, <1>3, <2>1 DEF Dispatch, SetMain
  <2>3. m2 = [Back(m) EXCEPT !.logins = m.logins, !.login = m.login]
        /\ m.login \in BOOLEAN /\ m.logins \in 0..MaxEvents
    BY <2>1 DEF Back, Prompt, Loop
  <2>a. m2 \in Loop /\ AtRest(m2, m.logins)
    BY <2>3, BackRests
  <2>4. m.logins <= m.logins + 1 /\ n2 + MainHolds(m) + m.logins = n + m.logins
    BY <1>c, <1>d, Sizes
  <2> QED
    BY <1>1, <1>2, <1>b, <1>d, <2>2, <2>3, <2>a, <2>4, RestStep
<1>4. CASE ~(~m.flag \/ WrongLogin(m))
  <2>1. PICK m2 : m2 = [m EXCEPT !.pc = "connect", !.infile = FALSE]
    OBVIOUS
  <2>2. main' = [main EXCEPT ![p] = m2]
    BY <1>1, <1>4, <2>1 DEF Dispatch, SetMain
  <2>3. m2 \in Loop /\ m2.pc = "connect" /\ m2.flag = m.flag /\ m2.si = m.si /\ m2.gone = m.gone
        /\ m2.steady = m.steady /\ m2.done = m.done /\ m2.reply = m.reply /\ m2.logins = m.logins
    BY <2>1 DEF Loop
  <2>4. Resting(m2) /\ Answering(m2) /\ Probing(m2, up) /\ Serving(s, up)
    BY <1>1, <1>2, <1>4, <2>3 DEF Resting, Answering, Probing, PeerInv
  <2>a. MainHolds(m2) = 0 /\ Busy(m2.pc) = 1
    BY <2>3 DEF MainHolds, Busy
  <2>5. Counted(m2, s, n2, count)
    BY <1>1, <1>c, <1>d, <2>3, <2>a, Sizes, OfCount DEF PeerInv, Counted, Held
  <2>6. PeerInv(m2, s, n2, up, count')
    BY <1>2, <2>4, <2>5 DEF PeerInv
  <2> QED
    BY <1>1, <1>2, <1>b, <1>d, <2>2, <2>3, <2>6, PeerMoves
<1> QED
  BY <1>3, <1>4

LEMMA IdleServes ==
  Idle \in Server /\ Idle.pc = "idle" /\ Idle.served = 0 /\ Idle.i = 1
<1>1. 1 \in 1..3 /\ 0 \in 0..2 /\ 0 \in 0..(MaxFds + MaxEvents)
  BY BoundsAssumption
<1> QED
  BY <1>1 DEF Idle, Server

LEMMA ExitStep ==
  ASSUME Inv, NEW p \in Peers, Exit(p)
  PROVE  Inv'
<1>1. PICK r : r = Prompt
  OBVIOUS
<1>2. PICK m2 : m2 = [r EXCEPT !.pc = "exited"]
  OBVIOUS
<1>3. PICK s2 : s2 = Idle
  OBVIOUS
<1>4. r \in Loop /\ AtRest(r, 0)
  BY <1>1, PromptRests
<1>5. s2 \in Server /\ s2.pc = "idle" /\ s2.served = 0 /\ s2.i = 1
  BY <1>3, IdleServes
<1>6. m2 \in Loop
  BY <1>2, <1>4 DEF Loop
<1>7. m2.pc = "exited" /\ m2.i = 1 /\ ~m2.flag /\ ~m2.full /\ ~m2.short /\ m2.gone = {}
      /\ m2.steady = {} /\ m2.reply = "" /\ ~m2.done /\ m2.logins = 0
  BY <1>2, <1>4 DEF Loop, AtRest
<1>8. main' = [main EXCEPT ![p] = m2] /\ serve' = [serve EXCEPT ![p] = s2]
      /\ fds' = [fds EXCEPT ![p] = 0] /\ UNCHANGED <<trackers, count>>
  BY <1>1, <1>2, <1>3 DEF Exit, SetMain
<1>9. Resting(m2) /\ Answering(m2) /\ Probing(m2, up) /\ Serving(s2, up)
  BY <1>5, <1>7 DEF Resting, Answering, Probing, Serving
<1>10. MainHolds(m2) = 0 /\ ServeHolds(s2) = 0 /\ Busy(m2.pc) = 0 /\ Busy(s2.pc) = 0
  BY <1>5, <1>7 DEF MainHolds, ServeHolds, Busy
<1>11. 0 + 0 = 0 /\ 0 <= count.event /\ 0 <= MaxFds + count.event /\ 0 \in 0..MaxFds
  BY OfCount, BoundsAssumption
<1>12. Counted(m2, s2, 0, count)
  <2>0. 0 + 0 + 0 + 0 = 0
    OBVIOUS
  <2>1. Held(m2, s2) = 0 /\ m2.logins + Busy(m2.pc) = 0 /\ s2.served + Busy(s2.pc) = 0
    BY <1>5, <1>7, <1>10, <1>11, <2>0, Zenon DEF Held
  <2> QED
    BY <1>11, <2>1 DEF Counted
<1>13. PeerInv(m2, s2, 0, up, count')
  BY <1>8, <1>9, <1>12 DEF PeerInv
<1> QED
  BY <1>5, <1>6, <1>7, <1>8, <1>11, <1>13, Untouched, OfCount, PeerMoves

LEMMA ConnectStep ==
  ASSUME Inv, NEW p \in Peers, Connect(p)
  PROVE  Inv'
<1>1. PICK m \in Loop, s \in Server, n \in 0..MaxFds :
        m = main[p] /\ s = serve[p] /\ n = fds[p] /\ PeerInv(m, s, n, up, count)
  BY OfPeer
<1>2. CASE Exit(p)
  BY <1>2, ExitStep
<1>3. CASE ~Exit(p)
  <2>1. PICK m2 : m2 = [m EXCEPT !.pc = "handshake"]
    OBVIOUS
  <2>2. /\ m.pc = "connect" /\ n < MaxFds /\ UNCHANGED <<trackers, serve, count>>
        /\ main' = [main EXCEPT ![p] = m2] /\ fds' = [fds EXCEPT ![p] = n + 1]
    BY <1>1, <1>3, <2>1 DEF Connect, SetMain, Open
  <2>3. m2 \in Loop /\ m2.pc = "handshake" /\ m2.si = m.si /\ m2.gone = m.gone
        /\ m2.steady = m.steady /\ m2.done = m.done /\ m2.reply = m.reply /\ m2.logins = m.logins
    BY <2>1 DEF Loop
  <2>4. Resting(m2) /\ Answering(m2) /\ Probing(m2, up) /\ Serving(s, up)
    BY <1>1, <2>2, <2>3 DEF Resting, Answering, Probing, PeerInv
  <2>5. MainHolds(m) = 0 /\ MainHolds(m2) = 1 /\ Busy(m.pc) = 1 /\ Busy(m2.pc) = 1
        /\ ServeHolds(s) \in 0..2
    BY <2>2, <2>3 DEF MainHolds, ServeHolds, Busy
  <2>6. n \in Nat /\ n + 1 \in 0..MaxFds
    BY <2>2, BoundsAssumption
  <2>7. Counted(m2, s, n + 1, count)
    BY <1>1, <2>3, <2>5, <2>6, Sizes, OfCount DEF PeerInv, Counted, Held
  <2>8. PeerInv(m2, s, n + 1, up, count')
    BY <2>2, <2>4, <2>7 DEF PeerInv
  <2>9. serve' = [serve EXCEPT ![p] = s] /\ count' \in Count /\ count.event <= count'.event
    BY <1>1, <2>2, Untouched, OfCount
  <2> QED
    BY <1>1, <2>2, <2>3, <2>6, <2>8, <2>9, PeerMoves
<1> QED
  BY <1>2, <1>3

LEMMA ReplyStep ==
  ASSUME Inv, NEW p \in Peers, Reply(p)
  PROVE  Inv' /\ main'[p].pc = "prompt"
<1>1. PICK m \in Loop, s \in Server, n \in 0..MaxFds :
        m = main[p] /\ s = serve[p] /\ n = fds[p] /\ PeerInv(m, s, n, up, count)
  BY OfPeer
<1> DEFINE op == m.cmd.op
           keeps == op = "login" /\ m.pc # "nossl"
           back == Back(m)
<1>2. PICK k : k = IF keeps THEN back.logins + 1 ELSE back.logins
  OBVIOUS
<1>3. PICK lg : lg = (\/ op \in {"login", "create_user"} /\ Told(m) = "ok"
                      \/ op \notin {"login", "create_user"} /\ back.login
                           /\ ~(op = "logout" /\ Told(m) = "ok"))
  OBVIOUS
<1>4. lg \in BOOLEAN
  BY <1>3
<1>5. PICK m2 : m2 = [back EXCEPT !.logins = k, !.login = lg]
  OBVIOUS
<1>6. /\ m.pc \in {"nossl", "reply", "cut"} /\ main' = [main EXCEPT ![p] = m2]
      /\ UNCHANGED <<trackers, serve, count>>
  BY <1>1, <1>2, <1>3, <1>5 DEF Reply, SetMain
<1>7. keeps => fds' = fds
  BY <1>1 DEF Reply
<1>8. ~keeps => fds' = [fds EXCEPT ![p] = n - 1]
  BY <1>1 DEF Reply, Close
<1>9. back.logins = m.logins
  BY DEF Back, Prompt
<1> HIDE DEF keeps, op, back
<1>10. MainHolds(m) = 1 /\ Busy(m.pc) = 1 /\ ServeHolds(s) \in 0..2
  BY <1>6 DEF MainHolds, ServeHolds, Busy
<1>11. m.logins + 1 <= count.event /\ m.logins + 1 <= n
  BY <1>1, <1>10, Sizes, BoundsAssumption DEF PeerInv, Counted, Held
<1>12. k \in 0..MaxEvents /\ k <= m.logins + 1 /\ (keeps => k = m.logins + 1) /\ (~keeps => k = m.logins)
  BY <1>2, <1>9, <1>11, Sizes, OfCount
<1>13. m2 \in Loop /\ AtRest(m2, k)
  BY <1>4, <1>5, <1>12, BackRests DEF back
<1>14. PICK n2 : n2 = IF keeps THEN n ELSE n - 1
  OBVIOUS
<1>15. n2 \in 0..MaxFds /\ n2 + 1 + m.logins = n + k
  BY <1>11, <1>12, <1>14, Sizes
<1>16. fds' = [fds EXCEPT ![p] = n2]
  BY <1>1, <1>7, <1>8, <1>14, Untouched
<1>17. main'[p] = m2 /\ m2.pc = "prompt"
  BY <1>6, <1>13 DEF Inv, PeersInv, AtRest
<1>18. Inv'
  BY <1>1, <1>6, <1>10, <1>12, <1>13, <1>15, <1>16, RestStep
<1> QED
  BY <1>17, <1>18

----------------------------------------------------------------------------
(* The server thread.                                                      *)

\* A step of the server thread, which may lose a descriptor if a tracker is down.
LEMMA ServeStep ==
  ASSUME Inv, NEW p \in Peers, NEW s2 \in Server, NEW n2 \in 0..MaxFds, NEW lost \in Nat,
         serve' = [serve EXCEPT ![p] = s2], fds' = [fds EXCEPT ![p] = n2],
         UNCHANGED <<trackers, main>>,
         count' \in Count, count.event <= count'.event, count.trouble => count'.trouble,
         Serving(s2, up),
         s2.served + Busy(s2.pc) + count.event <= serve[p].served + Busy(serve[p].pc) + count'.event,
         n2 + serve[p].served + ServeHolds(serve[p]) = fds[p] + s2.served + ServeHolds(s2) + lost,
         ~count.trouble => lost = 0
  PROVE  Inv'
<1>1. PICK m \in Loop, s \in Server, n \in 0..MaxFds :
        m = main[p] /\ s = serve[p] /\ n = fds[p] /\ PeerInv(m, s, n, up, count)
  BY OfPeer
<1>2. count' \in Count /\ count'.event \in Nat /\ count.event \in Nat /\ n \in Nat /\ n2 \in Nat
  BY OfCount, BoundsAssumption DEF Count
<1>3. ServeHolds(s) \in 0..2 /\ ServeHolds(s2) \in 0..2 /\ MainHolds(m) \in 0..1
  BY DEF ServeHolds, MainHolds
<1>4. Counted(m, s2, n2, count')
  <2>1. Held(m, s2) <= n2
    BY <1>1, <1>2, <1>3, Sizes DEF PeerInv, Counted, Held
  <2>2. ~count'.trouble => n2 = Held(m, s2)
    BY <1>1, <1>2, <1>3, Sizes DEF PeerInv, Counted, Held
  <2>3. m.logins + Busy(m.pc) <= count'.event
    BY <1>1, <1>2, Sizes DEF PeerInv, Counted
  <2>4. s2.served + Busy(s2.pc) <= MaxFds + count'.event
    BY <1>1, <1>2, Sizes DEF PeerInv, Counted
  <2> QED
    BY <2>1, <2>2, <2>3, <2>4 DEF Counted
<1>5. PeerInv(m, s2, n2, up, count')
  BY <1>1, <1>4 DEF PeerInv
<1> QED
  BY <1>1, <1>5, Untouched, PeerMoves

LEMMA AcceptChunkStep ==
  ASSUME Inv, NEW p \in Peers, NEW g \in Groups, AcceptChunk(p, g)
  PROVE  Inv'
<1>1. PICK m \in Loop, s \in Server, n \in 0..MaxFds :
        m = main[p] /\ s = serve[p] /\ n = fds[p] /\ PeerInv(m, s, n, up, count)
  BY OfPeer
<1>2. CASE Exit(p)
  BY <1>2, ExitStep
<1>3. CASE ~Exit(p)
  <2>2. PICK x \in BOOLEAN : x = (\A t \in Trackers : ~up[t])
    OBVIOUS
  <2>3. PICK s2 : s2 = [s EXCEPT !.pc = "probe", !.group = g, !.excused = x]
    OBVIOUS
  <2>4. /\ s.pc = "idle" /\ n < MaxFds /\ UNCHANGED <<trackers, main>>
        /\ serve' = [serve EXCEPT ![p] = s2] /\ fds' = [fds EXCEPT ![p] = n + 1]
        /\ count.event < MaxEvents /\ count' = [count EXCEPT !.event = @ + 1]
    BY <1>1, <1>3, <2>2, <2>3 DEF AcceptChunk, Open
  <2>6. s.i = 1
    BY <1>1, <2>4 DEF PeerInv, Serving
  <2>7. s2 \in Server /\ s2.pc = "probe" /\ s2.served = s.served /\ s2.excused = x /\ s2.i = 1
    BY <2>3, <2>6 DEF Server
  <2>8. Serving(s2, up)
    <3>1. \A t \in Trackers : 1 <= t
      BY DEF Trackers
    <3> QED
      BY <2>2, <2>7, <3>1 DEF Serving
  <2>9. count' \in Count /\ count.event <= count'.event /\ (count.trouble => count'.trouble)
        /\ count'.event = count.event + 1 /\ count.event \in Nat
    BY <2>4, OfCount, Event
  <2>10. Busy(s.pc) = 0 /\ Busy(s2.pc) = 1 /\ ServeHolds(s) = 0 /\ ServeHolds(s2) = 1
    BY <2>4, <2>7 DEF Busy, ServeHolds
  <2>11. n \in Nat /\ n + 1 \in 0..MaxFds
    BY <2>4, BoundsAssumption
  <2>12. /\ s2.served + Busy(s2.pc) + count.event <= s.served + Busy(s.pc) + count'.event
         /\ (n + 1) + s.served + ServeHolds(s) = n + s2.served + ServeHolds(s2) + 0
    BY <2>7, <2>9, <2>10, <2>11, Sizes
  <2> QED
    BY <1>1, <2>4, <2>7, <2>8, <2>9, <2>11, <2>12, ServeStep
<1> QED
  BY <1>2, <1>3

LEMMA FindTrackerStep ==
  ASSUME Inv, NEW p \in Peers, FindTracker(p)
  PROVE  Inv'
<1>1. PICK m \in Loop, s \in Server, n \in 0..MaxFds :
        m = main[p] /\ s = serve[p] /\ n = fds[p] /\ PeerInv(m, s, n, up, count)
  BY OfPeer
<1>2. CASE Exit(p)
  BY <1>2, ExitStep
<1>3. CASE ~Exit(p)
  <2>1. s.pc = "probe" /\ s.i <= 2 /\ s.i \in 1..3 /\ UNCHANGED <<trackers, main, count>>
    BY <1>1, <1>3 DEF FindTracker, Server
  <2>2. s.i \in Trackers /\ s.i \in 0..2 /\ s.i + 1 \in 1..3 /\ 1 \in 1..3
    BY <2>1 DEF Trackers
  <2>3. /\ n \in Nat /\ MaxFds \in Nat /\ n <= MaxFds
        /\ count' \in Count /\ count.event <= count'.event /\ (count.trouble => count'.trouble)
        /\ count.event \in Nat /\ fds = [fds EXCEPT ![p] = n]
    BY <1>1, <2>1, OfCount, Untouched, BoundsAssumption
  <2>4. CASE n < MaxFds /\ up[s.i]
    <3>1. PICK s2 : s2 = [s EXCEPT !.pc = "connect", !.i = 1, !.server = s.i]
      OBVIOUS
    <3>2. serve' = [serve EXCEPT ![p] = s2] /\ fds' = [fds EXCEPT ![p] = n]
      BY <1>1, <1>3, <2>1, <2>3, <2>4, <3>1 DEF FindTracker
    <3>3. s2 \in Server /\ s2.pc = "connect" /\ s2.server = s.i /\ s2.served = s.served
      BY <2>2, <3>1 DEF Server
    <3>4. Serving(s2, up)
      BY <2>2, <2>4, <3>3 DEF Serving
    <3>5. Busy(s.pc) = 1 /\ Busy(s2.pc) = 1 /\ ServeHolds(s) = 1 /\ ServeHolds(s2) = 1
      BY <2>1, <3>3 DEF Busy, ServeHolds
    <3>6. /\ s2.served + Busy(s2.pc) + count.event <= s.served + Busy(s.pc) + count'.event
          /\ n + s.served + ServeHolds(s) = n + s2.served + ServeHolds(s2) + 0
      BY <2>1, <2>3, <3>3, <3>5, Sizes
    <3> QED
      BY <1>1, <2>1, <2>3, <3>2, <3>3, <3>4, <3>6, ServeStep
  <2>5. CASE n = MaxFds \/ ~up[s.i]
    <3>1. PICK x \in BOOLEAN : x = (s.excused \/ n = MaxFds)
      OBVIOUS
    <3>2. PICK s2 : s2 = [s EXCEPT !.i = @ + 1, !.excused = x]
      OBVIOUS
    <3>3. PICK n2 : n2 = IF n < MaxFds THEN n + 1 ELSE n
      OBVIOUS
    <3>4. serve' = [serve EXCEPT ![p].i = @ + 1, ![p].excused = @ \/ fds[p] = MaxFds]
          /\ fds' = [fds EXCEPT ![p] = n2]
      BY <1>1, <1>3, <2>1, <2>3, <2>5, <3>3 DEF FindTracker, Open
    <3>5. serve' = [serve EXCEPT ![p] = s2]
      BY <1>1, <3>1, <3>2, <3>4 DEF Inv, PeersInv, Server
    <3>6. s2 \in Server /\ s2.pc = "probe" /\ s2.i = s.i + 1 /\ s2.excused = x /\ s2.served = s.served
      BY <2>1, <2>2, <3>1, <3>2 DEF Server
    <3>7. Serving(s2, up)
      <4>1. ASSUME ~x
            PROVE  \E t \in Trackers : s2.i <= t /\ up[t]
        <5>1. PICK t \in Trackers : s.i <= t /\ up[t]
          BY <1>1, <2>1, <3>1, <4>1 DEF PeerInv, Serving
        <5>2. t # s.i
          BY <2>5, <3>1, <4>1, <5>1
        <5> QED
          BY <2>2, <3>6, <5>1, <5>2 DEF Trackers
      <4> QED
        BY <3>6, <4>1 DEF Serving
    <3>8. Busy(s.pc) = 1 /\ Busy(s2.pc) = 1 /\ ServeHolds(s) = 1 /\ ServeHolds(s2) = 1
      BY <2>1, <3>6 DEF Busy, ServeHolds
    <3>9. PICK lost : lost = IF n < MaxFds THEN 1 ELSE 0
      OBVIOUS
    <3>10. lost \in Nat /\ n2 = n + lost /\ n2 \in 0..MaxFds
      BY <2>3, <3>3, <3>9
    <3>11. ~count.trouble => lost = 0
      BY <2>2, <2>5, <3>9, <2>3 DEF Inv, TrackersInv
    <3>12. /\ s2.served + Busy(s2.pc) + count.event <= s.served + Busy(s.pc) + count'.event
           /\ n2 + s.served + ServeHolds(s) = n + s2.served + ServeHolds(s2) + lost
      BY <2>1, <2>3, <3>6, <3>8, <3>10, Sizes
    <3> QED
      BY <1>1, <2>1, <2>3, <3>4, <3>5, <3>6, <3>7, <3>10, <3>11, <3>12, ServeStep
  <2> QED
    BY <2>3, <2>4, <2>5
<1> QED
  BY <1>2, <1>3

LEMMA AskForPathStep ==
  ASSUME Inv, NEW p \in Peers, AskForPath(p)
  PROVE  Inv'
<1>1. PICK m \in Loop, s \in Server, n \in 0..MaxFds :
        m = main[p] /\ s = serve[p] /\ n = fds[p] /\ PeerInv(m, s, n, up, count)
  BY OfPeer
<1>2. CASE Exit(p)
  BY <1>2, ExitStep
<1>3. CASE ~Exit(p)
  <2>1. PICK s2 : s2 = [s EXCEPT !.pc = "handshake"]
    OBVIOUS
  <2>2. /\ s.pc = "connect" /\ n < MaxFds /\ UNCHANGED <<trackers, main, count>>
        /\ serve' = [serve EXCEPT ![p].pc = "handshake"] /\ fds' = [fds EXCEPT ![p] = n + 1]
    BY <1>1, <1>3 DEF AskForPath, Open
  <2>3. serve' = [serve EXCEPT ![p] = s2]
    BY <1>1, <2>1, <2>2 DEF Inv, PeersInv, Server
  <2>4. s2 \in Server /\ s2.pc = "handshake" /\ s2.server = s.server /\ s2.served = s.served
    BY <2>1 DEF Server
  <2>5. Serving(s2, up)
    BY <1>1, <2>2, <2>4 DEF PeerInv, Serving
  <2>6. /\ n \in Nat /\ n + 1 \in 0..MaxFds /\ count' \in Count
        /\ count.event <= count'.event /\ (count.trouble => count'.trouble) /\ count.event \in Nat
    BY <2>2, OfCount, BoundsAssumption
  <2>7. Busy(s.pc) = 1 /\ Busy(s2.pc) = 1 /\ ServeHolds(s) = 1 /\ ServeHolds(s2) = 2
    BY <2>2, <2>4 DEF Busy, ServeHolds
  <2>8. /\ s2.served + Busy(s2.pc) + count.event <= s.served + Busy(s.pc) + count'.event
        /\ (n + 1) + s.served + ServeHolds(s) = n + s2.served + ServeHolds(s2) + 0
    BY <2>2, <2>4, <2>6, <2>7, Sizes
  <2> QED
    BY <1>1, <2>2, <2>3, <2>4, <2>5, <2>6, <2>8, ServeStep
<1> QED
  BY <1>2, <1>3

LEMMA SendChunkStep ==
  ASSUME Inv, NEW p \in Peers, SendChunk(p)
  PROVE  Inv'
<1>1. PICK m \in Loop, s \in Server, n \in 0..MaxFds :
        m = main[p] /\ s = serve[p] /\ n = fds[p] /\ PeerInv(m, s, n, up, count)
  BY OfPeer
<1>2. CASE Exit(p)
  BY <1>2, ExitStep
<1>3. CASE ~Exit(p)
  <2>1. PICK s1 : s1 = Idle
    OBVIOUS
  <2>2. PICK s2 : s2 = [s1 EXCEPT !.served = s.served + 1, !.offers = s.offers]
    OBVIOUS
  <2>3. /\ s.pc = "path" /\ UNCHANGED <<trackers, main, fds, count>>
        /\ serve' = [serve EXCEPT ![p] = s2]
    BY <1>1, <1>3, <2>1, <2>2 DEF SendChunk
  <2>4. s1 \in Server /\ s1.pc = "idle" /\ s1.i = 1 /\ s.offers \in SUBSET Groups
    BY <2>1, IdleServes DEF Server
  <2>5. /\ n \in Nat /\ fds' = [fds EXCEPT ![p] = n] /\ count' \in Count
        /\ count.event <= count'.event /\ (count.trouble => count'.trouble) /\ count.event \in Nat
    BY <1>1, <2>3, Untouched, OfCount, BoundsAssumption
  <2>6. s.served + 1 \in 0..(MaxFds + MaxEvents)
    <3>1. Busy(s.pc) = 1
      BY <2>3 DEF Busy
    <3>2. s.served + 1 <= MaxFds + count.event
      BY <1>1, <3>1 DEF PeerInv, Counted
    <3> QED
      BY <3>2, Sizes, OfCount
  <2>7. s2 \in Server /\ s2.pc = "idle" /\ s2.served = s.served + 1 /\ s2.i = 1
    BY <2>2, <2>4, <2>6 DEF Server
  <2>8. Serving(s2, up)
    BY <2>7 DEF Serving
  <2>9. Busy(s.pc) = 1 /\ Busy(s2.pc) = 0 /\ ServeHolds(s) = 1 /\ ServeHolds(s2) = 0
    BY <2>3, <2>7 DEF Busy, ServeHolds
  <2>10. /\ s2.served + Busy(s2.pc) + count.event <= s.served + Busy(s.pc) + count'.event
         /\ n + s.served + ServeHolds(s) = n + s2.served + ServeHolds(s2) + 0
    BY <2>3, <2>5, <2>7, <2>9, Sizes
  <2> QED
    BY <1>1, <2>3, <2>5, <2>7, <2>8, <2>10, ServeStep
<1> QED
  BY <1>2, <1>3

LEMMA GetFullPathStep ==
  ASSUME Inv, NEW p \in Peers, GetFullPath(p)
  PROVE  Inv'
<1>1. PICK m \in Loop, s \in Server, n \in 0..MaxFds :
        m = main[p] /\ s = serve[p] /\ n = fds[p] /\ PeerInv(m, s, n, up, count)
  BY OfPeer
<1>2. PICK read \in BOOLEAN, listed \in BOOLEAN :
        (read <=> Free(s.server) >= 2) /\ (listed <=> Share(s.group, p) \in file[s.server])
  OBVIOUS
<1>b. PICK path : path = IF read /\ listed THEN "file" ELSE ""
  OBVIOUS
<1>c. PICK y \in BOOLEAN : y = ~listed
  OBVIOUS
<1>3. PICK x \in BOOLEAN : x = (s.excused \/ ~read)
  BY Zenon
<1>4. PICK s2 : s2 = [s EXCEPT !.pc = "path", !.server = 0,
                               !.path = path, !.excused = x, !.unlisted = y]
  OBVIOUS
<1>a. serve' = [serve EXCEPT ![p].pc = "path", ![p].server = 0,
                  ![p].path = path, ![p].excused = @ \/ ~read, ![p].unlisted = y]
  BY <1>1, <1>2, <1>b, <1>c DEF GetFullPath
<1>5. /\ s.pc = "handshake" /\ UNCHANGED <<trackers, main, count>>
      /\ fds' = [fds EXCEPT ![p] = n - 1]
  BY <1>1, <1>2 DEF GetFullPath, Close
<1>6. serve' = [serve EXCEPT ![p] = s2]
  BY <1>1, <1>3, <1>4, <1>a DEF Inv, PeersInv, Server
<1>7. 0 \in 0..2
  OBVIOUS
<1>8. s2 \in Server /\ s2.pc = "path" /\ s2.served = s.served /\ s2.excused = x
      /\ s2.path = path /\ s2.unlisted = y
  BY <1>3, <1>4, <1>7, <1>b DEF Server
<1>9. Serving(s2, up)
  BY <1>3, <1>8, <1>b, <1>c DEF Serving
<1>10. Busy(s.pc) = 1 /\ Busy(s2.pc) = 1 /\ ServeHolds(s) = 2 /\ ServeHolds(s2) = 1
       /\ MainHolds(m) \in 0..1
  BY <1>5, <1>8 DEF Busy, ServeHolds, MainHolds
<1>11. n \in Nat /\ n >= 2
  BY <1>1, <1>10, Sizes, BoundsAssumption DEF PeerInv, Counted, Held
<1>12. /\ n - 1 \in 0..MaxFds /\ count' \in Count
       /\ count.event <= count'.event /\ (count.trouble => count'.trouble) /\ count.event \in Nat
  BY <1>5, <1>11, OfCount, BoundsAssumption
<1>13. /\ s2.served + Busy(s2.pc) + count.event <= s.served + Busy(s.pc) + count'.event
       /\ (n - 1) + s.served + ServeHolds(s) = n + s2.served + ServeHolds(s2) + 0
  BY <1>5, <1>8, <1>10, <1>11, <1>12, Sizes
<1> QED
  BY <1>1, <1>5, <1>6, <1>8, <1>9, <1>12, <1>13, ServeStep

----------------------------------------------------------------------------
(* Requests.                                                               *)

LEMMA Commands ==
  ASSUME NEW c \in Command
  PROVE  /\ c.op \in {"login", "create_user", "logout", "list_groups", "create_group", "join_group",
                      "stop_share"}
         /\ c.op \in {"create_group", "join_group"} => c.group \in Groups
BY DEF Command

LEMMA LinesOf ==
  ASSUME NEW v \in Peers
  PROVE  /\ Account(v) \in Lines /\ Online(v) \in Lines
         /\ \A h \in Groups : /\ Group(h, v) \in Lines /\ Member(h, v) \in Lines
                               /\ Asked(h, v) \in Lines /\ Share(h, v) \in Lines
<1> DEFINE Sets == {{Group(g, u), Member(g, u), Asked(g, u), Share(g, u)} : g \in Groups, u \in Peers}
<1>1. Account(v) \in Lines /\ Online(v) \in Lines
  BY DEF Lines
<1>2. UNION Sets \subseteq Lines
  <2> HIDE DEF Sets
  <2>1. \A A, B : UNION Sets \subseteq (A \cup B \cup UNION Sets)
    BY Zenon
  <2> QED
    BY <2>1 DEF Lines, Sets
<1>3. ASSUME NEW h \in Groups
      PROVE  /\ Group(h, v) \in Lines /\ Member(h, v) \in Lines
             /\ Asked(h, v) \in Lines /\ Share(h, v) \in Lines
  <2>1. {Group(h, v), Member(h, v), Asked(h, v), Share(h, v)} \in Sets
    OBVIOUS
  <2> HIDE DEF Sets
  <2> QED
    BY <1>2, <2>1
<1> QED
  BY <1>1, <1>3

\* The cases of Written and MapAfter.
LEMMA WrittenCases ==
  ASSUME NEW c, NEW u, NEW known, NEW lines
  PROVE  /\ c.op = "create_user" =>
              Written(c, u, known, lines)
                = (lines \ {Share(g, u) : g \in Groups}) \cup {Account(u), Online(u)}
         /\ c.op = "login" => Written(c, u, known, lines) = lines \cup {Online(u)}
         /\ c.op = "logout" => Written(c, u, known, lines) = lines \ {Online(u)}
         /\ c.op = "list_groups" => Written(c, u, known, lines) = lines
         /\ c.op = "create_group" =>
              Written(c, u, known, lines)
                = (lines \ {Member(c.group, v) : v \in Peers})
                    \cup {Group(c.group, u), Member(c.group, u)}
         /\ c.op = "join_group" =>
              Written(c, u, known, lines)
                = IF Member(c.group, u) \in lines \/ AlreadyAsked(c.group, u, known)
                  THEN lines ELSE lines \cup {Asked(c.group, u)}
         /\ c.op = "stop_share" => Written(c, u, known, lines) = lines \ {Share(c.group, u)}
BY Zenon DEF Written

LEMMA MapAfterCases ==
  ASSUME NEW c, NEW u, NEW known, NEW read, NEW loaded
  PROVE  /\ c.op \in {"create_user", "create_group", "logout"} =>
              MapAfter(c, u, known, read, loaded) = loaded
         /\ c.op = "login" => MapAfter(c, u, known, read, loaded) = known \cup {Online(u)}
         /\ c.op \in {"list_groups", "stop_share"} => MapAfter(c, u, known, read, loaded) = known
         /\ c.op = "join_group" =>
              MapAfter(c, u, known, read, loaded)
                = IF Member(c.group, u) \notin read THEN known \cup {Asked(c.group, u)}
                  ELSE known
BY Zenon DEF MapAfter

LEMMA WrittenLines ==
  ASSUME NEW c \in Command, NEW u \in Peers, NEW known, NEW lines \in SUBSET Lines
  PROVE  Written(c, u, known, lines) \in SUBSET Lines
<1>1. PICK w : w = Written(c, u, known, lines)
  OBVIOUS
<1>2. CASE c.op \in {"create_user", "login", "logout", "list_groups", "stop_share"}
  BY <1>1, <1>2, WrittenCases, LinesOf
<1>3. CASE c.op \in {"create_group", "join_group"}
  <2>1. Group(c.group, u) \in Lines /\ Member(c.group, u) \in Lines /\ Asked(c.group, u) \in Lines
    BY <1>3, Commands, LinesOf
  <2>2. c.op = "create_group" => w \in SUBSET Lines
    BY <1>1, <2>1, WrittenCases
  <2>3. c.op = "join_group" => w \in SUBSET Lines
    BY <1>1, <2>1, WrittenCases
  <2> QED
    BY <1>1, <1>3, <2>2, <2>3
<1> QED
  BY <1>2, <1>3, Commands

LEMMA TornLines ==
  ASSUME NEW c \in Command, NEW u \in Peers, NEW lines \in SUBSET Lines
  PROVE  Torn(c, u, lines) \in SUBSET Lines
BY LinesOf DEF Torn, Replace

LEMMA MapAfterLines ==
  ASSUME NEW c \in Command, NEW u \in Peers, NEW known \in SUBSET Lines, NEW read,
         NEW loaded \in SUBSET Lines
  PROVE  MapAfter(c, u, known, read, loaded) \in SUBSET Lines
<1>1. PICK w : w = MapAfter(c, u, known, read, loaded)
  OBVIOUS
<1>2. c.op # "join_group" => w \in SUBSET Lines
  BY <1>1, MapAfterCases, LinesOf, Commands
<1>3. CASE c.op = "join_group"
  <2>1. Asked(c.group, u) \in Lines
    BY <1>3, Commands, LinesOf
  <2> QED
    BY <1>1, <1>3, <2>1, MapAfterCases
<1> QED
  BY <1>1, <1>2, <1>3

\* A list of files is no part of the maps.
LEMMA NoLists ==
  ASSUME NEW c, c.op = "stop_share", NEW u, NEW old, NEW known
  PROVE  /\ FetchDetails(Written(c, u, known, old)) = FetchDetails(old)
         /\ FetchDetails(Torn(c, u, old)) = FetchDetails(old)
<1>1. Written(c, u, known, old) = old \ {Share(c.group, u)}
  BY WrittenCases
<1>2. Share(c.group, u)[1] = "files"
  BY DEF Share
<1>3. FetchDetails(old \ {Share(c.group, u)}) = FetchDetails(old)
  BY <1>2 DEF FetchDetails
<1>4. Synced(c, u) = {<<"files", u>>}
  BY Zenon DEF Synced
<1>5. Torn(c, u, old) = {l \in old : FileOf(l) # <<"files", u>>}
  BY <1>4 DEF Torn, Replace
<1>6. ASSUME NEW l, l[1] \in {"credential", "online", "group", "pending"}
      PROVE  FileOf(l) # <<"files", u>>
  BY <1>6 DEF FileOf
<1>7. FetchDetails(Torn(c, u, old)) = FetchDetails(old)
  BY <1>5, <1>6 DEF FetchDetails
<1> QED
  BY <1>1, <1>3, <1>7

\* What a handler that does not load its maps again puts into them is what it puts
\* into the files, when it went by the lines of the files.
LEMMA Follow ==
  ASSUME NEW c \in Command, NEW u \in Peers, NEW old, NEW loaded,
         c.op \in {"login", "list_groups", "join_group"}
  PROVE  MapAfter(c, u, FetchDetails(old), old, loaded)
           = FetchDetails(Written(c, u, FetchDetails(old), old))
<1>1. PICK known : known = FetchDetails(old)
  OBVIOUS
<1>2. PICK w : w = Written(c, u, known, old)
  OBVIOUS
<1>3. \A x : FetchDetails(x) = {l \in x : l[1] \in {"credential", "online", "group", "pending"}}
  BY DEF FetchDetails
<1>4. \A x : FetchDetails(x \cup {Online(u)}) = FetchDetails(x) \cup {Online(u)}
  <2>1. Online(u)[1] \in {"credential", "online", "group", "pending"}
    BY DEF Online
  <2> QED
    BY <1>3, <2>1
<1>5. \A x, g : FetchDetails(x \cup {Asked(g, u)}) = FetchDetails(x) \cup {Asked(g, u)}
  <2>1. \A g : Asked(g, u)[1] \in {"credential", "online", "group", "pending"}
    BY DEF Asked
  <2> QED
    BY <1>3, <2>1
<1>6. MapAfter(c, u, known, old, loaded) = FetchDetails(w)
  <2>2. CASE c.op = "login"
    <3>1. w = old \cup {Online(u)}
      BY <1>2, <2>2, WrittenCases
    <3>2. MapAfter(c, u, known, old, loaded) = known \cup {Online(u)}
      BY <2>2, MapAfterCases
    <3> QED
      BY <1>1, <1>4, <3>1, <3>2
  <2>3. CASE c.op = "list_groups"
    BY <1>1, <1>2, <2>3, MapAfterCases, WrittenCases
  <2>4. CASE c.op = "join_group"
    <3>1. PICK g, a, b : g = c.group /\ a = Asked(g, u) /\ b = Member(g, u)
      OBVIOUS
    <3>3. /\ w = IF b \in old \/ AlreadyAsked(g, u, known) THEN old ELSE old \cup {a}
          /\ MapAfter(c, u, known, old, loaded) = IF b \notin old THEN known \cup {a} ELSE known
      BY <1>2, <2>4, <3>1, MapAfterCases, WrittenCases
    <3>4. AlreadyAsked(g, u, known) => a \in known
      BY <3>1 DEF AlreadyAsked
    <3>5. FetchDetails(old \cup {a}) = known \cup {a}
      BY <1>1, <1>5, <3>1
    <3> QED
      BY <1>1, <3>3, <3>4, <3>5
  <2> QED
    BY <2>2, <2>3, <2>4
<1> QED
  BY <1>1, <1>2, <1>6

LEMMA InUseIs ==
  ASSUME NEW t \in Trackers
  PROVE  InUse(t) = leaked[t] + Cardinality(Sent(t))
BY DEF InUse, Sent

LEMMA AcceptStep ==
  ASSUME Inv, NEW p \in Peers, Accept(p)
  PROVE  Inv'
<1>1. PICK m \in Loop, s \in Server, n \in 0..MaxFds :
        m = main[p] /\ s = serve[p] /\ n = fds[p] /\ PeerInv(m, s, n, up, count)
  BY OfPeer
<1>2. PICK m2 : m2 = [m EXCEPT !.pc = "sent"]
  OBVIOUS
<1>3. /\ m.pc = "handshake" /\ CanAccept(m.si) /\ main' = [main EXCEPT ![p] = m2]
      /\ UNCHANGED <<trackers, up, leaked, serve, fds, count>>
  BY <1>1, <1>2 DEF Accept, SetMain, trackers
<1>4. m2 \in Loop /\ m2.pc = "sent" /\ m2.si = m.si /\ m2.gone = m.gone
      /\ m2.steady = m.steady /\ m2.done = m.done /\ m2.reply = m.reply /\ m2.logins = m.logins
  BY <1>2 DEF Loop
<1>5. m.si \in Trackers
  BY <1>1, <1>3 DEF PeerInv, Probing
<1>6. Resting(m2) /\ Answering(m2) /\ Probing(m2, up) /\ Serving(s, up)
  BY <1>1, <1>3, <1>4 DEF Resting, Answering, Probing, PeerInv
<1>7. Counted(m2, s, n, count)
  BY <1>1, <1>3, <1>4 DEF PeerInv, Counted, Held, MainHolds, Busy
<1>8. PeerInv(m2, s, n, up, count')
  BY <1>3, <1>6, <1>7 DEF PeerInv
<1>9. PeersInv'
  BY <1>1, <1>3, <1>4, <1>8, Untouched, OfCount, PeersStep DEF Inv
<1>10. \A q \in Peers : main'[q] = IF q = p THEN m2 ELSE main[q]
  BY <1>3 DEF Inv, PeersInv
<1>11. ASSUME NEW t \in Trackers
       PROVE  leaked'[t] + Cardinality(Sent(t)') <= TrackerFds
  <2>1. PICK a, b : a = Sent(t) /\ b = Sent(t)'
    OBVIOUS
  <2>2. IsFiniteSet(a) /\ Cardinality(a) \in Nat
    BY <2>1, Finite
  <2>3. leaked'[t] = leaked[t] /\ leaked[t] \in 0..TrackerFds /\ TrackerFds \in Nat
        /\ leaked[t] + Cardinality(a) <= TrackerFds
    BY <1>3, <2>1, BoundsAssumption DEF Inv, TrackersInv
  <2>4. CASE t = m.si
    <3>1. b = a \cup {p} /\ p \notin a
      BY <1>1, <1>3, <1>4, <1>10, <2>1, <2>4 DEF Sent
    <3>2. Cardinality(b) = Cardinality(a) + 1
      BY <2>2, <3>1, FS_AddElement
    <3>3. leaked[t] + Cardinality(a) < TrackerFds
      <4>1. TrackerFds - (leaked[t] + Cardinality(a)) > 0
        BY <1>3, <2>1, <2>4, InUseIs DEF CanAccept, Free
      <4> QED
        BY <2>2, <2>3, <4>1
    <3> QED
      BY <2>1, <2>2, <2>3, <3>2, <3>3
  <2>5. CASE t # m.si
    <3>1. b = a
      BY <1>1, <1>3, <1>4, <1>10, <2>1, <2>5 DEF Sent
    <3> QED
      BY <2>1, <2>3, <3>1
  <2> QED
    BY <2>4, <2>5
<1>12. MapsFollowFiles'
  BY <1>3 DEF Inv, TrackersInv, trackers, MapsFollowFiles
<1>13. TrackersInv'
  BY <1>3, <1>11, <1>12 DEF Inv, TrackersInv, trackers
<1> QED
  BY <1>9, <1>13 DEF Inv

\* A request that is answered: what becomes of the peer.
LEMMA HandlePeer ==
  ASSUME Inv, NEW p \in Peers, Handle(p)
  PROVE  /\ PeersInv'
         /\ \A t \in Trackers : Sent(t)' \subseteq Sent(t)
         /\ main'[p].pc = "reply"
         /\ count' \in Count /\ (count.trouble => count'.trouble)
<1>1. PICK m \in Loop, s \in Server, n \in 0..MaxFds :
        m = main[p] /\ s = serve[p] /\ n = fds[p] /\ PeerInv(m, s, n, up, count)
  BY OfPeer
<1>2. PICK sh \in BOOLEAN : sh <=> Free(m.si) < Needs(m.cmd.op)
  OBVIOUS
<1>3. PICK r \in {"0", "1"} : r = IF Accepts(p) THEN "1" ELSE "0"
  OBVIOUS
<1>a. PICK d \in BOOLEAN : d = (Accepts(p) /\ ~sh)
  BY Zenon
<1>b. r \in {"", "0", "1"} /\ ((r = "0" /\ ~d) \/ (r = "1" /\ (d \/ sh)))
  BY <1>3, <1>a
<1>4. PICK m2 : m2 = [m EXCEPT !.pc = "reply", !.reply = r, !.done = d, !.short = sh]
  OBVIOUS
<1>5. m.pc = "sent" /\ UNCHANGED <<up, serve, fds>>
  BY <1>1 DEF Handle
<1>c. PICK b \in BOOLEAN : count' = [count EXCEPT !.trouble = count.trouble \/ b]
  BY DEF Handle
<1>d. count' \in Count /\ count.event <= count'.event /\ (count.trouble => count'.trouble)
      /\ count'.event = count.event
  <2>1. PICK x \in BOOLEAN : x = (count.trouble \/ b)
    OBVIOUS
  <2>2. count' = [count EXCEPT !.trouble = x]
    BY <1>c, <2>1
  <2> QED
    BY <2>1, <2>2, OfCount, Troubled
<1>6. main' = [main EXCEPT ![p] = m2]
  <2>1. sh = (Free(main[p].si) < Needs(main[p].cmd.op))
    BY <1>1, <1>2
  <2>2. main' = [main EXCEPT ![p] = [main[p] EXCEPT !.pc = "reply",
                   !.reply = IF Accepts(p) THEN "1" ELSE "0", !.done = Accepts(p) /\ ~sh,
                   !.short = sh]]
    BY <2>1, Zenon DEF Handle, SetMain
  <2> QED
    BY <1>1, <1>3, <1>4, <1>a, <2>2, Zenon
<1>7. m2 \in Loop /\ m2.pc = "reply" /\ m2.si = m.si /\ m2.gone = m.gone
      /\ m2.steady = m.steady /\ m2.logins = m.logins /\ m2.reply = r
      /\ m2.done = d /\ m2.short = sh
  BY <1>4, <1>b DEF Loop
<1>8. Resting(m2) /\ Answering(m2) /\ Probing(m2, up) /\ Serving(s, up)
  BY <1>1, <1>5, <1>7, <1>b DEF Resting, Answering, Probing, PeerInv
<1>9. Counted(m2, s, n, count')
  <2>1. MainHolds(m2) = MainHolds(m) /\ Busy(m2.pc) = Busy(m.pc)
    BY <1>5, <1>7 DEF MainHolds, Busy
  <2> QED
    BY <1>1, <1>7, <1>d, <2>1 DEF PeerInv, Counted, Held
<1>10. PeerInv(m2, s, n, up, count')
  BY <1>8, <1>9 DEF PeerInv
<1>11. PeersInv'
  BY <1>1, <1>5, <1>6, <1>7, <1>10, <1>d, Untouched, PeersStep DEF Inv
<1>12. \A t \in Trackers : Sent(t)' \subseteq Sent(t)
  BY <1>6, <1>7, FewerSent DEF Inv
<1>13. main'[p].pc = "reply"
  BY <1>6, <1>7 DEF Inv, PeersInv
<1> QED
  BY <1>11, <1>12, <1>13, <1>d

LEMMA NumberOfCalls ==
  ASSUME NEW p \in Peers, main[p].cmd \in Command
  PROVE  Calls(p) \in Nat
<1>1. \A c \in Command : \A known, read : SyncCalls(c, p, known, read) \in {0, 1, 2, 3, 5}
  BY Commands, Zenon DEF SyncCalls
<1>2. \A c \in Command : \A known, read : SyncCalls(c, p, known, read) \in Nat
  BY <1>1
<1> QED
  BY <1>2 DEF Calls

LEMMA Siblings ==
  ASSUME NEW t \in Trackers
  PROVE  GetTracker2(t) \in Trackers /\ GetTracker2(t) # t
         /\ \A v \in Trackers : v = t \/ v = GetTracker2(t)
BY DEF Trackers, GetTracker2

\* What becomes of the tracker and of its sibling.
LEMMA HandleTracker ==
  ASSUME Inv, NEW p \in Peers, Handle(p)
  PROVE  TrackersInv'
<1> DEFINE m == main[p]
           t == m.si
           s == GetTracker2(t)
           c == m.cmd
           free == Free(t)
           short == free < Needs(c.op)
           known == Known(p)
           accepted == Accepts(p)
           lines == IF ~accepted \/ free = 0 THEN file[t]
                    ELSE IF short THEN Torn(c, p, file[t])
                    ELSE Written(c, p, known, file[t])
           avail == Avail(c.op, free)
           lost == Lost(Calls(p), avail, up[s])
           received == Pushes(p) /\ Free(s) >= 2
           reloads == accepted /\ c.op \in {"create_user", "create_group", "logout"}
           loads == free > 0 /\ (reloads => lost < avail)
           loaded == IF lost < avail THEN FetchDetails(lines) ELSE {}
           after == IF accepted THEN MapAfter(c, p, known, Read(p), loaded) ELSE known
           pushed == IF received THEN Replace(file[s], lines, Synced(c, p)) ELSE file[s]
<1>1. m \in Loop /\ c \in Command /\ m.pc = "sent" /\ up[t] /\ UNCHANGED <<up, joining>>
  BY DEF Handle, Inv, PeersInv, Loop
<1>2. t \in Trackers
  BY <1>1, OfPeer DEF PeerInv, Probing
<1>3. s \in Trackers /\ s # t /\ \A v \in Trackers : v = t \/ v = s
  BY <1>2, Siblings
<1>4. /\ up \in [Trackers -> BOOLEAN] /\ fresh \in [Trackers -> BOOLEAN]
      /\ joining \in [Trackers -> BOOLEAN]
      /\ file \in [Trackers -> SUBSET Lines] /\ map \in [Trackers -> SUBSET Lines]
      /\ leaked \in [Trackers -> 0..TrackerFds]
  BY DEF Inv, TrackersInv
<1>5. file' = [file EXCEPT ![t] = lines,
                           ![s] = IF received THEN Replace(@, lines, Synced(c, p)) ELSE @]
  BY DEF Handle
<1>6. map' = [map EXCEPT ![t] = after]
  BY DEF Handle
<1>7. fresh' = [fresh EXCEPT ![t] = loads /\ (c.op \in {"join_group", "stop_share"} => @),
                             ![s] = @ /\ ~received]
  BY DEF Handle
<1>8. leaked' = [leaked EXCEPT ![t] = @ + lost]
  BY DEF Handle
<1>a. count' = [count EXCEPT !.trouble = @ \/ short \/ lost > 0]
  BY DEF Handle
<1>c. free > 0 => Read(p) = file[t]
  BY DEF Read
<1>d. c.op \in {"join_group", "stop_share"} => known = map[t]
  BY DEF Known
<1>e. c.op \notin {"join_group", "stop_share"} => known = FetchDetails(Read(p))
  BY DEF Known
<1>f. Read(p) = file[t] \/ Read(p) = {}
  BY DEF Read
<1>g. lost = Lost(Calls(p), avail, up[s]) /\ avail = Avail(c.op, free)
  OBVIOUS
<1>h. free = TrackerFds - (leaked[t] + Cardinality(Sent(t)))
  BY <1>2, InUseIs DEF Free
<1>j. Calls(p) \in Nat
  BY <1>1, NumberOfCalls
<1> HIDE DEF m, t, s, c, free, short, lines, avail, lost, received, reloads, loads, loaded, after,
             known, accepted, pushed
<1>9. file'[t] = lines /\ file'[s] = pushed
  BY <1>2, <1>3, <1>4, <1>5 DEF pushed
<1>10. map'[t] = after /\ map'[s] = map[s] /\ leaked'[t] = leaked[t] + lost /\ leaked'[s] = leaked[s]
  BY <1>2, <1>3, <1>4, <1>6, <1>8
<1>11. /\ fresh'[t] => loads /\ (c.op \in {"join_group", "stop_share"} => fresh[t])
       /\ fresh'[s] => fresh[s] /\ ~received
  BY <1>2, <1>3, <1>4, <1>7
\* The descriptors that are lost.
<1>12. PICK k : k = Cardinality(Sent(t))
  OBVIOUS
<1>13. k \in Nat /\ TrackerFds \in Nat /\ leaked[t] \in Nat /\ leaked[t] + k <= TrackerFds
  BY <1>2, <1>4, <1>12, Finite, BoundsAssumption DEF Inv, TrackersInv
<1>14. free \in Nat /\ leaked[t] + k + free = TrackerFds
  BY <1>12, <1>13, <1>h
<1>15. avail \in Nat /\ avail <= free
  <2>1. Needs(c.op) \in {1, 2}
    BY DEF Needs
  <2> QED
    BY <1>14, <1>g, <2>1 DEF Avail
<1>16. lost \in Nat /\ lost <= avail
  <2>1. PICK x : x = Calls(p)
    OBVIOUS
  <2>2. lost = IF up[s] /\ avail >= 2 THEN 0 ELSE IF 2 * x < avail THEN 2 * x ELSE avail
    BY <1>g, <2>1 DEF Lost
  <2> QED
    BY <1>15, <1>j, <2>1, <2>2
<1>17. leaked[t] + lost \in 0..TrackerFds /\ leaked[t] + lost + k <= TrackerFds
  BY <1>13, <1>14, <1>15, <1>16
<1>18. ASSUME NEW v \in Trackers
       PROVE  leaked'[v] + Cardinality(Sent(v)') <= TrackerFds
  <2>1. PICK a, b : a = Sent(v) /\ b = Sent(v)'
    OBVIOUS
  <2>2. IsFiniteSet(a) /\ b \subseteq a
    BY <2>1, Finite, HandlePeer
  <2>3. Cardinality(a) \in Nat /\ Cardinality(b) \in Nat /\ Cardinality(b) <= Cardinality(a)
    BY <2>2, FS_Subset, FS_CardinalityType
  <2>4. leaked'[v] \in Nat /\ leaked'[v] + Cardinality(a) <= TrackerFds
    <3>1. CASE v = t
      BY <1>10, <1>12, <1>13, <1>16, <1>17, <2>1, <3>1
    <3>2. CASE v = s
      <4>1. leaked[v] + Cardinality(Sent(v)) <= TrackerFds
        BY DEF Inv, TrackersInv
      <4> QED
        BY <1>4, <1>10, <1>13, <2>1, <3>2, <4>1
    <3> QED
      BY <1>3, <3>1, <3>2
  <2> QED
    BY <1>13, <2>1, <2>3, <2>4
<1>19. leaked' \in [Trackers -> 0..TrackerFds]
  BY <1>4, <1>8, <1>17
<1>20. ~count'.trouble => \A v \in Trackers : up'[v] /\ leaked'[v] = 0
  <2>1. ~count.trouble => up[t] /\ up[s] /\ leaked[t] = 0 /\ leaked[s] = 0
    BY <1>2, <1>3 DEF Inv, TrackersInv
  <2>2. ~count'.trouble => ~count.trouble /\ ~(lost > 0)
    <3>1. PICK x : x = (count.trouble \/ short \/ lost > 0)
      OBVIOUS
    <3>2. count'.trouble = x
      BY <1>a, <3>1, OfCount DEF Count
    <3> QED
      BY <3>1, <3>2
  <2>3. ~(lost > 0) => lost = 0
    BY <1>16
  <2>4. 0 + 0 = 0
    OBVIOUS
  <2> QED
    BY <1>1, <1>3, <1>10, <2>1, <2>2, <2>3, <2>4
\* The lines of the files and of the maps.
<1>21. file[t] \in SUBSET Lines /\ file[s] \in SUBSET Lines /\ map[t] \in SUBSET Lines
  BY <1>2, <1>3, <1>4
<1>22. lines \in SUBSET Lines
  BY <1>1, <1>21, WrittenLines, TornLines DEF lines
<1>23. \A x \in SUBSET Lines : FetchDetails(x) \in SUBSET Lines
  BY DEF FetchDetails
<1>24. known \in SUBSET Lines /\ loaded \in SUBSET Lines
  <2>1. Read(p) \in SUBSET Lines
    BY <1>21, <1>f
  <2> QED
    BY <1>21, <1>22, <1>23, <1>d, <1>e, <2>1 DEF loaded
<1>25. after \in SUBSET Lines
  BY <1>1, <1>24, MapAfterLines DEF after
<1>26. pushed \in SUBSET Lines
  BY <1>21, <1>22 DEF pushed, Replace
<1>27. file' \in [Trackers -> SUBSET Lines]
  <2>1. PICK g : g = [file EXCEPT ![t] = lines]
    OBVIOUS
  <2>2. g \in [Trackers -> SUBSET Lines] /\ g[s] = file[s]
    BY <1>2, <1>3, <1>4, <1>22, <2>1
  <2>3. file' = [g EXCEPT ![s] = pushed]
    BY <1>2, <1>3, <1>4, <1>5, <2>1, <2>2 DEF pushed
  <2> QED
    BY <1>26, <2>2, <2>3
<1>28. map' \in [Trackers -> SUBSET Lines]
  BY <1>4, <1>6, <1>25
<1>29. fresh' \in [Trackers -> BOOLEAN]
  BY <1>4, <1>7
\* The maps follow the files.
<1>30. ASSUME fresh'[t]
       PROVE  after = FetchDetails(lines)
  <2>1. /\ free > 0 /\ (reloads => lost < avail)
        /\ c.op \in {"join_group", "stop_share"} => fresh[t]
    BY <1>11, <1>30 DEF loads
  <2>2. fresh[t] => map[t] = FetchDetails(file[t])
    BY <1>1, <1>2 DEF Inv, TrackersInv, MapsFollowFiles
  <2>3. known = FetchDetails(file[t]) /\ Read(p) = file[t]
    BY <1>c, <1>d, <1>e, <2>1, <2>2
  <2>4. CASE ~accepted
    BY <2>3, <2>4 DEF after, lines
  <2>5. CASE accepted
    <3>0. free # 0
      BY <1>14, <2>1
    <3>1. lines = IF short THEN Torn(c, p, file[t]) ELSE Written(c, p, known, file[t])
      BY <2>5, <3>0 DEF lines
    <3>2. after = MapAfter(c, p, known, file[t], loaded)
      BY <2>3, <2>5 DEF after
    <3>3. CASE c.op \in {"create_user", "create_group", "logout"}
      <4>1. loaded = FetchDetails(lines)
        BY <2>1, <2>5, <3>3 DEF loaded, reloads
      <4> QED
        BY <3>2, <3>3, <4>1, MapAfterCases
    <3>4. CASE c.op = "stop_share"
      <4>1. after = known
        BY <3>2, <3>4, MapAfterCases
      <4>2. FetchDetails(lines) = FetchDetails(file[t])
        BY <3>1, <3>4, NoLists
      <4> QED
        BY <2>3, <4>1, <4>2
    <3>5. CASE c.op \in {"login", "list_groups", "join_group"}
      <4>1. Needs(c.op) = 1
        BY <3>5 DEF Needs
      <4>2. ~short
        BY <1>14, <2>1, <4>1 DEF short
      <4>3. lines = Written(c, p, FetchDetails(file[t]), file[t])
        BY <2>3, <3>1, <4>2
      <4> QED
        BY <1>1, <2>3, <3>2, <3>5, <4>3, Follow
    <3> QED
      BY <1>1, <3>3, <3>4, <3>5, Commands
  <2> QED
    BY <2>4, <2>5
<1>31. MapsFollowFiles'
  <2> SUFFICES ASSUME NEW v \in Trackers, up'[v], fresh'[v]
               PROVE  map'[v] = FetchDetails(file'[v])
    BY DEF MapsFollowFiles, FetchDetails
  <2>1. CASE v = t
    BY <1>9, <1>10, <1>30, <2>1
  <2>2. CASE v = s
    <3>1. fresh[s] /\ ~received /\ up[s]
      BY <1>1, <1>11, <2>2
    <3>2. file'[s] = file[s]
      BY <1>9, <3>1 DEF pushed
    <3>3. map[s] = FetchDetails(file[s])
      BY <1>3, <3>1 DEF Inv, TrackersInv, MapsFollowFiles
    <3> QED
      BY <1>10, <2>2, <3>2, <3>3
  <2> QED
    BY <1>3, <2>1, <2>2
<1> QED
  BY <1>1, <1>4, <1>18, <1>19, <1>20, <1>27, <1>28, <1>29, <1>31, HandlePeer DEF TrackersInv

----------------------------------------------------------------------------
(* Trackers that go down and start.                                        *)

\* What a tracker that goes down does to one command loop.
LEMMA DownLoop ==
  ASSUME Inv, NEW t \in Trackers, NEW lost, NEW new, Down(t, lost, new), NEW p \in Peers,
         p \in lost => main[p].pc = "reply" /\ main[p].si = t
  PROVE  /\ main'[p] \in Loop
         /\ Resting(main'[p]) /\ Probing(main'[p], up') /\ Answering(main'[p])
         /\ main'[p].logins = main[p].logins /\ MainHolds(main'[p]) = MainHolds(main[p])
         /\ Busy(main'[p].pc) = Busy(main[p].pc)
         /\ main'[p].pc = "sent" => main[p].pc = "sent" /\ main[p].si = main'[p].si
<1>1. PICK m \in Loop, s \in Server, n \in 0..MaxFds :
        m = main[p] /\ s = serve[p] /\ n = fds[p] /\ PeerInv(m, s, n, up, count)
  BY OfPeer
<1>2. PICK noted : noted = [m EXCEPT !.steady = @ \ {t}, !.gone = @ \cup {t}]
  OBVIOUS
<1>3. PICK m2 : m2 = main'[p]
  OBVIOUS
<1>4. m2 = IF m.pc \in {"prompt", "exited"} THEN m
           ELSE IF m.si = t /\ m.pc = "handshake" THEN [noted EXCEPT !.pc = "nossl"]
           ELSE IF m.si = t /\ (m.pc = "sent" \/ p \in lost)
                THEN [noted EXCEPT !.pc = "cut", !.reply = ""]
           ELSE noted
  BY <1>1, <1>2, <1>3 DEF Down
<1>5. /\ noted \in Loop /\ noted.pc = m.pc /\ noted.i = m.i /\ noted.flag = m.flag
      /\ noted.full = m.full /\ noted.si = m.si /\ noted.reply = m.reply
      /\ noted.infile = m.infile /\ noted.done = m.done /\ noted.short = m.short /\ noted.logins = m.logins
      /\ noted.steady = m.steady \ {t} /\ noted.gone = m.gone \cup {t}
  BY <1>2 DEF Loop
<1>6. /\ \A v \in Trackers : up[v] => up'[v] \/ v = t
      /\ m.steady \subseteq Trackers
  BY <1>1 DEF Down, Loop, Inv, TrackersInv
<1>7. Resting(m) /\ Probing(m, up) /\ Answering(m)
  BY <1>1 DEF PeerInv
<1>8. CASE m2 = m /\ m.pc \in {"prompt", "exited"}
  BY <1>1, <1>3, <1>7, <1>8 DEF Resting, Probing, Answering
\* The loop goes on as noted, or it is at nossl or cut.
<1>9. ASSUME m2 = noted, m.pc \notin {"prompt", "exited"}
      PROVE  Resting(m2) /\ Probing(m2, up') /\ Answering(m2)
  <2>1. \A v \in m2.steady : up'[v]
    BY <1>5, <1>6, <1>7, <1>9 DEF Probing
  <2>2. m2.pc \in {"probe", "connect"} /\ m2.flag =>
          m2.si \in Trackers /\ (up'[m2.si] \/ m2.si \in m2.gone)
    BY <1>5, <1>6, <1>7, <1>9 DEF Probing
  <2>3. Probing(m2, up')
    BY <1>5, <1>7, <1>9, <2>1, <2>2 DEF Probing
  <2> QED
    BY <1>5, <1>7, <1>9, <2>3 DEF Resting, Answering
<1>10. CASE m2 = noted /\ m.pc \notin {"prompt", "exited"}
  BY <1>1, <1>3, <1>5, <1>9, <1>10 DEF MainHolds
<1>11. ASSUME m2 \in Loop, m2.logins = m.logins, m2.si = t, m2.steady = m.steady \ {t},
              m2.gone = m.gone \cup {t}, m2.reply = "", m.pc \notin {"prompt", "exited"},
              \/ m2.pc = "cut" /\ m.pc \in {"sent", "reply"}
              \/ m2.pc = "nossl" /\ m.pc = "handshake" /\ ~m2.done
       PROVE  /\ Resting(m2) /\ Probing(m2, up') /\ Answering(m2)
              /\ MainHolds(m2) = MainHolds(m) /\ Busy(m2.pc) = Busy(m.pc) /\ m2.pc # "sent"
  <2>1. \A v \in m2.steady : up'[v]
    BY <1>6, <1>7, <1>11 DEF Probing
  <2>2. Probing(m2, up')
    BY <1>11, <2>1 DEF Probing
  <2> QED
    BY <1>11, <2>2 DEF Resting, Answering, MainHolds, Busy
<1>12. CASE m2 = [noted EXCEPT !.pc = "nossl"] /\ m.pc = "handshake" /\ m.si = t
  <2>1. m2 \in Loop /\ m2.pc = "nossl" /\ m2.logins = m.logins /\ m2.si = t
        /\ m2.steady = m.steady \ {t} /\ m2.gone = m.gone \cup {t} /\ m2.reply = m.reply
        /\ m2.done = m.done
    BY <1>5, <1>12 DEF Loop
  <2>2. m.reply = "" /\ ~m.done
    BY <1>7, <1>12 DEF Answering
  <2> QED
    BY <1>1, <1>3, <1>11, <1>12, <2>1, <2>2
<1>13. CASE m2 = [noted EXCEPT !.pc = "cut", !.reply = ""] /\ m.pc \in {"sent", "reply"} /\ m.si = t
  <2>1. m2 \in Loop /\ m2.pc = "cut" /\ m2.logins = m.logins /\ m2.si = t
        /\ m2.steady = m.steady \ {t} /\ m2.gone = m.gone \cup {t} /\ m2.reply = ""
    BY <1>5, <1>13 DEF Loop
  <2> QED
    BY <1>1, <1>3, <1>11, <1>13, <2>1
<1> QED
  BY <1>1, <1>4, <1>8, <1>10, <1>12, <1>13

\* The same for a server thread.
LEMMA DownServer ==
  ASSUME Inv, NEW t \in Trackers, NEW lost, NEW new, Down(t, lost, new), NEW p \in Peers
  PROVE  /\ serve'[p] \in Server /\ Serving(serve'[p], up')
         /\ serve'[p].served = serve[p].served /\ ServeHolds(serve'[p]) \in 0..2
         /\ ServeHolds(serve'[p]) <= ServeHolds(serve[p])
         /\ Busy(serve'[p].pc) = Busy(serve[p].pc)
<1>1. PICK m \in Loop, s \in Server, n \in 0..MaxFds :
        m = main[p] /\ s = serve[p] /\ n = fds[p] /\ PeerInv(m, s, n, up, count)
  BY OfPeer
<1>2. PICK s2 : s2 = serve'[p]
  OBVIOUS
<1>3. s2 = IF s.pc = "idle" THEN s
           ELSE IF s.server = t /\ s.pc = "handshake"
                THEN [s EXCEPT !.pc = "path", !.server = 0, !.excused = TRUE]
           ELSE [s EXCEPT !.excused = TRUE]
  BY <1>1, <1>2 DEF Down
<1>4. Serving(s, up)
  BY <1>1 DEF PeerInv
<1>5. CASE s2 = s /\ s.pc = "idle"
  <2>1. Serving(s2, up') /\ ServeHolds(s) = 0 /\ 0 \in 0..2 /\ 0 <= 0
    BY <1>4, <1>5 DEF Serving, ServeHolds
  <2> QED
    BY <1>1, <1>2, <1>5, <2>1
<1>6. CASE s2 = [s EXCEPT !.pc = "path", !.server = 0, !.excused = TRUE] /\ s.pc = "handshake"
  <2>1. 0 \in 0..2 /\ 1 \in 0..2 /\ 1 <= 2
    OBVIOUS
  <2>2. s2 \in Server /\ s2.pc = "path" /\ s2.excused /\ s2.served = s.served
    <3>1. PICK z \in 0..2 : z = 0
      OBVIOUS
    <3>a. PICK b \in BOOLEAN : b = TRUE
      OBVIOUS
    <3>2. s2 = [s EXCEPT !.pc = "path", !.server = z, !.excused = b]
      BY <1>6, <3>1, <3>a
    <3>3. s2 \in Server /\ s2.pc = "path" /\ s2.excused = b /\ s2.served = s.served
      BY <3>2 DEF Server
    <3> QED
      BY <3>a, <3>3
  <2>3. Serving(s2, up') /\ ServeHolds(s2) = 1 /\ ServeHolds(s) = 2 /\ Busy(s2.pc) = Busy(s.pc)
    BY <1>6, <2>2 DEF Serving, ServeHolds, Busy
  <2> QED
    BY <1>1, <1>2, <2>1, <2>2, <2>3
<1>7. CASE s2 = [s EXCEPT !.excused = TRUE]
  <2>1. s2 \in Server /\ s2.pc = s.pc /\ s2.excused /\ s2.served = s.served /\ s2.server = s.server
        /\ s2.i = s.i
    <3>1. PICK b \in BOOLEAN : b = TRUE
      OBVIOUS
    <3>2. s2 = [s EXCEPT !.excused = b]
      BY <1>7, <3>1
    <3>3. s2 \in Server /\ s2.pc = s.pc /\ s2.excused = b /\ s2.served = s.served
          /\ s2.server = s.server /\ s2.i = s.i
      BY <3>2 DEF Server
    <3> QED
      BY <3>1, <3>3
  <2>2. Serving(s2, up') /\ ServeHolds(s2) = ServeHolds(s)
    BY <1>4, <2>1 DEF Serving, ServeHolds
  <2>3. ServeHolds(s) \in 0..2 /\ ServeHolds(s) <= ServeHolds(s)
    BY DEF ServeHolds
  <2> QED
    BY <1>1, <1>2, <2>1, <2>2, <2>3
<1> QED
  BY <1>3, <1>5, <1>6, <1>7

LEMMA DownStep ==
  ASSUME Inv, NEW t \in Trackers,
         NEW lost \in SUBSET {p \in Peers : main[p].pc = "reply" /\ main[p].si = t},
         NEW new \in [Trackers -> SUBSET Lines], Down(t, lost, new),
         count' \in Count, count'.trouble, count.event <= count'.event
  PROVE  Inv'
<1>1. ASSUME NEW p \in Peers
      PROVE  PeerInv(main'[p], serve'[p], fds'[p], up', count')
  <2>1. PICK m \in Loop, s \in Server, n \in 0..MaxFds :
          m = main[p] /\ s = serve[p] /\ n = fds[p] /\ PeerInv(m, s, n, up, count)
    BY OfPeer
  <2>2. PICK m2, s2, n2 : m2 = main'[p] /\ s2 = serve'[p] /\ n2 = fds'[p]
    OBVIOUS
  <2>3. /\ m2 \in Loop /\ Resting(m2) /\ Probing(m2, up') /\ Answering(m2)
        /\ m2.logins = m.logins /\ MainHolds(m2) = MainHolds(m) /\ Busy(m2.pc) = Busy(m.pc)
    BY <2>1, <2>2, DownLoop
  <2>4. /\ s2 \in Server /\ Serving(s2, up') /\ s2.served = s.served
        /\ ServeHolds(s2) \in 0..2 /\ ServeHolds(s2) <= ServeHolds(s) /\ Busy(s2.pc) = Busy(s.pc)
    BY <2>1, <2>2, DownServer
  <2>5. n2 = n
    BY <2>1, <2>2 DEF Down
  <2>6. /\ MainHolds(m) \in 0..1 /\ ServeHolds(s) \in 0..2
    BY DEF MainHolds, ServeHolds
  <2>7. n \in Nat /\ count.event \in Nat /\ count'.event \in Nat
    BY OfCount, BoundsAssumption DEF Count
  <2>8. Counted(m2, s2, n2, count')
    <3>1. Held(m2, s2) <= n2
      BY <2>1, <2>3, <2>4, <2>5, <2>6, <2>7, Sizes DEF PeerInv, Counted, Held
    <3>2. m2.logins + Busy(m2.pc) <= count'.event
      BY <2>1, <2>3, <2>7, Sizes DEF PeerInv, Counted
    <3>3. s2.served + Busy(s2.pc) <= MaxFds + count'.event
      BY <2>1, <2>4, <2>7, Sizes DEF PeerInv, Counted
    <3> QED
      BY <3>1, <3>2, <3>3 DEF Counted
  <2> QED
    BY <2>2, <2>3, <2>4, <2>8 DEF PeerInv
<1>2. main' \in [Peers -> Loop] /\ serve' \in [Peers -> Server]
  <2>1. \A p \in Peers : main'[p] \in Loop /\ serve'[p] \in Server
    BY DownLoop, DownServer
  <2>2. main' = [p \in Peers |-> main'[p]] /\ serve' = [p \in Peers |-> serve'[p]]
    BY DEF Down
  <2> QED
    BY <2>1, <2>2
<1>3. PeersInv'
  BY <1>1, <1>2 DEF PeersInv, Inv, Down
<1>4. /\ up' = [up EXCEPT ![t] = FALSE] /\ map' = [map EXCEPT ![t] = {}]
      /\ leaked' = [leaked EXCEPT ![t] = 0] /\ joining' = [joining EXCEPT ![t] = FALSE]
      /\ fresh' = [v \in Trackers |-> fresh[v] /\ v # t /\ new[v] = file[v]] /\ file' = new
  BY DEF Down
<1>5. TrackerFds \in Nat /\ 0 \in 0..TrackerFds /\ {} \in SUBSET Lines
  BY BoundsAssumption
<1>6. /\ up' \in [Trackers -> BOOLEAN] /\ fresh' \in [Trackers -> BOOLEAN]
      /\ joining' \in [Trackers -> BOOLEAN]
      /\ file' \in [Trackers -> SUBSET Lines] /\ map' \in [Trackers -> SUBSET Lines]
      /\ leaked' \in [Trackers -> 0..TrackerFds]
  BY <1>4, <1>5 DEF Inv, TrackersInv
<1>7. ASSUME NEW v \in Trackers
      PROVE  leaked'[v] + Cardinality(Sent(v)') <= TrackerFds
  <2>1. PICK a, b : a = Sent(v) /\ b = Sent(v)'
    OBVIOUS
  <2>2. b \subseteq a
    <3>1. \A p \in Peers : main'[p].pc = "sent" => main[p].pc = "sent" /\ main[p].si = main'[p].si
      BY DownLoop
    <3> QED
      BY <2>1, <3>1 DEF Sent
  <2>3. Cardinality(a) \in Nat /\ Cardinality(b) \in Nat /\ Cardinality(b) <= Cardinality(a)
    BY <2>1, <2>2, Finite, FS_Subset, FS_CardinalityType
  <2>4. leaked[v] \in Nat /\ leaked[v] + Cardinality(a) <= TrackerFds /\ leaked'[v] \in Nat
        /\ leaked'[v] <= leaked[v]
    BY <1>4, <1>5, <2>1 DEF Inv, TrackersInv
  <2> QED
    BY <1>5, <2>1, <2>3, <2>4
<1>8. MapsFollowFiles'
  <2> SUFFICES ASSUME NEW v \in Trackers, up'[v], fresh'[v]
               PROVE  map'[v] = FetchDetails(file'[v])
    BY DEF MapsFollowFiles, FetchDetails
  <2>1. v # t /\ up[v] /\ fresh[v] /\ map'[v] = map[v] /\ file'[v] = file[v]
    BY <1>4 DEF Inv, TrackersInv
  <2> QED
    BY <2>1 DEF Inv, TrackersInv, MapsFollowFiles
<1>9. TrackersInv'
  BY <1>6, <1>7, <1>8 DEF TrackersInv
<1> QED
  BY <1>3, <1>9 DEF Inv

LEMMA KillStep ==
  ASSUME Inv, NEW t \in Trackers, Kill(t) \/ AcceptFails(t)
  PROVE  Inv'
<1>1. PICK lost \in SUBSET {p \in Peers : main[p].pc = "reply" /\ main[p].si = t} :
        Down(t, lost, file)
  BY DEF Kill, AcceptFails
<1>a. file \in [Trackers -> SUBSET Lines]
  BY DEF Inv, TrackersInv
<1>2. PICK c \in Count : c = count
  BY OfCount
<1>3. /\ c.event \in 0..MaxEvents /\ c.kill \in 0..MaxKills
      /\ MaxEvents \in Nat /\ MaxKills \in Nat
  BY BoundsAssumption DEF Count
<1>4. CASE Kill(t)
  <2>1. c.event + 1 \in 0..MaxEvents /\ c.kill + 1 \in 0..MaxKills /\ c.event <= c.event + 1
    BY <1>2, <1>3, <1>4 DEF Kill
  <2>2. PICK c2 : c2 = [c EXCEPT !.kill = @ + 1, !.event = @ + 1, !.trouble = TRUE]
    OBVIOUS
  <2>3. c2 \in Count /\ c2.trouble /\ c2.event = c.event + 1
    BY <2>1, <2>2 DEF Count
  <2>4. count' = c2
    BY <1>2, <1>4, <2>2 DEF Kill
  <2> QED
    BY <1>1, <1>2, <1>a, <2>1, <2>3, <2>4, DownStep
<1>5. CASE AcceptFails(t)
  <2>1. PICK c2 : c2 = [c EXCEPT !.trouble = TRUE]
    OBVIOUS
  <2>2. c2 \in Count /\ c2.trouble /\ c2.event = c.event
    BY <2>1 DEF Count
  <2>3. count' = c2 /\ c.event <= c.event
    BY <1>2, <1>3, <1>5, <2>1 DEF AcceptFails
  <2> QED
    BY <1>1, <1>2, <1>a, <2>2, <2>3, DownStep
<1> QED
  BY <1>4, <1>5

\* A tracker that dies of a torn file.
LEMMA DiesDown ==
  ASSUME Inv, NEW p \in Peers, HandleDies(p)
  PROVE  \E t \in Trackers, new \in [Trackers -> SUBSET Lines] : Down(t, {}, new)
<1> DEFINE m == main[p]
           t == m.si
           s == GetTracker2(t)
           torn == Torn(m.cmd, p, file[t])
           emptied == IF m.cmd.op = "logout" /\ Free(s) >= 2
                      THEN Replace(file[s], {}, Synced(m.cmd, p)) ELSE file[s]
           new == [file EXCEPT ![t] = torn, ![s] = emptied]
<1>1. m \in Loop /\ m.cmd \in Command /\ m.pc = "sent"
  BY DEF HandleDies, Dies, Inv, PeersInv, Loop
<1>2. t \in Trackers /\ s \in Trackers /\ s # t
  BY <1>1, OfPeer, Siblings DEF PeerInv, Probing
<1>3. Down(t, {}, new)
  BY DEF HandleDies
<1>4. file \in [Trackers -> SUBSET Lines] /\ file[t] \in SUBSET Lines /\ file[s] \in SUBSET Lines
  BY <1>2 DEF Inv, TrackersInv
<1>5. torn \in SUBSET Lines
  BY <1>1, <1>4, TornLines
<1>6. emptied \in SUBSET Lines
  BY <1>4 DEF Replace
<1> HIDE DEF m, t, s, torn, emptied
<1>7. new \in [Trackers -> SUBSET Lines]
  BY <1>2, <1>4, <1>5, <1>6
<1> HIDE DEF new
<1> QED
  BY <1>2, <1>3, <1>7

LEMMA DiesStep ==
  ASSUME Inv, NEW p \in Peers, HandleDies(p)
  PROVE  Inv'
<1>1. PICK t \in Trackers, new \in [Trackers -> SUBSET Lines] : Down(t, {}, new)
  BY DiesDown
<1>2. count' = [count EXCEPT !.trouble = TRUE]
  BY DEF HandleDies
<1>3. count' \in Count /\ count'.trouble /\ count.event <= count'.event
  BY <1>2, OfCount, Troubled
<1>4. {} \in SUBSET {q \in Peers : main[q].pc = "reply" /\ main[q].si = t}
  OBVIOUS
<1> QED
  BY <1>1, <1>3, <1>4, DownStep

\* The accept loop waits for its threads, or goes on.
LEMMA JoinStep ==
  ASSUME Inv, NEW t \in Trackers, Join(t) \/ JoinEnds(t)
  PROVE  Inv'
<1>1. UNCHANGED <<up, file, map, fresh, leaked, main, serve, fds>>
  BY DEF Join, JoinEnds
<1>2. joining' \in [Trackers -> BOOLEAN]
  BY DEF Join, JoinEnds, Inv, TrackersInv
<1>3. count' \in Count /\ count.event <= count'.event /\ count'.trouble = count.trouble
  <2>1. CASE Join(t)
    BY <2>1, OfCount, Event DEF Join
  <2>2. CASE JoinEnds(t)
    BY <2>2, OfCount DEF JoinEnds
  <2> QED
    BY <2>1, <2>2
<1>4. \A v \in Trackers : Sent(v)' \subseteq Sent(v)
  BY <1>1 DEF Sent
<1>5. TrackersInv'
  BY <1>1, <1>2, <1>3, <1>4, TrackersStep DEF Inv
<1>6. PeersInv'
  <2>1. ASSUME NEW p \in Peers
        PROVE  PeerInv(main[p], serve[p], fds[p], up, count')
    <3>1. PICK m \in Loop, s \in Server, n \in 0..MaxFds :
            m = main[p] /\ s = serve[p] /\ n = fds[p] /\ PeerInv(m, s, n, up, count)
      BY OfPeer
    <3>2. PeerInv(m, s, n, up, count')
      BY <1>3, <3>1, OfCount, PeerMono
    <3> QED
      BY <3>1, <3>2
  <2> QED
    BY <1>1, <2>1 DEF Inv, PeersInv
<1> QED
  BY <1>5, <1>6 DEF Inv

LEMMA StartStep ==
  ASSUME Inv, NEW t \in Trackers, Start(t)
  PROVE  Inv'
<1>1. PICK dumped :
        /\ file' = [file EXCEPT ![t] = Replace(@, file[GetTracker2(t)], dumped)]
        /\ fresh' = [fresh EXCEPT ![t] = dumped = {}]
  BY DEF Start
<1>2. /\ ~up[t] /\ up' = [up EXCEPT ![t] = TRUE] /\ map' = [map EXCEPT ![t] = FetchDetails(file[t])]
      /\ UNCHANGED <<joining, leaked, main, serve, fds, count>>
  BY DEF Start
<1>3. /\ up \in [Trackers -> BOOLEAN] /\ fresh \in [Trackers -> BOOLEAN]
      /\ file \in [Trackers -> SUBSET Lines] /\ map \in [Trackers -> SUBSET Lines]
  BY DEF Inv, TrackersInv
<1>4. \A v \in Trackers : up[v] => up'[v]
  BY <1>2, <1>3
<1>5. PeersInv'
  <2>1. ASSUME NEW p \in Peers
        PROVE  PeerInv(main[p], serve[p], fds[p], up', count)
    <3>1. PICK m \in Loop, s \in Server, n \in 0..MaxFds :
            m = main[p] /\ s = serve[p] /\ n = fds[p] /\ PeerInv(m, s, n, up, count)
      BY OfPeer
    <3>2. PeerInv(m, s, n, up', count)
      BY <1>4, <3>1, OfCount, PeerMono, Untouched
    <3> QED
      BY <3>1, <3>2
  <2> QED
    BY <1>2, <2>1 DEF Inv, PeersInv
<1>6. \A x, y, z : Replace(x, y, z) \subseteq x \cup y
  BY DEF Replace
<1>7. file[t] \in SUBSET Lines /\ file[GetTracker2(t)] \in SUBSET Lines
  BY <1>3, Siblings
<1>8. FetchDetails(file[t]) \in SUBSET Lines
  BY <1>7 DEF FetchDetails
<1>9. PICK new : new = Replace(file[t], file[GetTracker2(t)], dumped)
  OBVIOUS
<1>10. new \in SUBSET Lines
  BY <1>6, <1>7, <1>9
<1>11. file' = [file EXCEPT ![t] = new]
  BY <1>1, <1>9
<1>12. /\ up' \in [Trackers -> BOOLEAN] /\ file' \in [Trackers -> SUBSET Lines]
       /\ map' \in [Trackers -> SUBSET Lines]
  BY <1>2, <1>3, <1>8, <1>10, <1>11
<1>13. fresh' \in [Trackers -> BOOLEAN]
  BY <1>1, <1>3
<1>14. MapsFollowFiles'
  <2> SUFFICES ASSUME NEW v \in Trackers, up'[v], fresh'[v]
               PROVE  map'[v] = FetchDetails(file'[v])
    BY DEF MapsFollowFiles, FetchDetails
  <2>1. CASE v = t
    <3>1. dumped = {}
      BY <1>1, <1>3, <2>1
    <3>2. new = file[t]
      BY <1>9, <3>1 DEF Replace
    <3>3. FetchDetails(new) = FetchDetails(file[t])
      BY <3>2
    <3>4. file'[t] = new /\ map'[t] = FetchDetails(file[t])
      BY <1>2, <1>3, <1>11
    <3> QED
      BY <2>1, <3>3, <3>4
  <2>2. CASE v # t
    <3>1. up[v] /\ fresh[v] /\ file'[v] = file[v] /\ map'[v] = map[v]
      BY <1>1, <1>2, <1>3, <1>11, <2>2
    <3> QED
      BY <3>1 DEF Inv, TrackersInv, MapsFollowFiles
  <2> QED
    BY <2>1, <2>2
<1>15. \A v \in Trackers : Sent(v)' = Sent(v)
  BY <1>2 DEF Sent
<1>16. \A v \in Trackers : leaked'[v] + Cardinality(Sent(v)') <= TrackerFds
  BY <1>2, <1>15 DEF Inv, TrackersInv
<1>17. TrackersInv'
  BY <1>2, <1>4, <1>12, <1>13, <1>14, <1>16 DEF Inv, TrackersInv
<1> QED
  BY <1>5, <1>17 DEF Inv

----------------------------------------------------------------------------
(* The invariant, and what follows.                                        *)

LEMMA RegisteredLines ==
  ASSUME NEW groups \in SUBSET Groups, NEW admin \in [groups -> Peers]
  PROVE  Registered(groups, admin) \in SUBSET Lines
<1>1. \A u \in Peers : Account(u) \in Lines /\ Online(u) \in Lines
  BY LinesOf
<1>2. \A g \in groups : Group(g, admin[g]) \in Lines
  BY LinesOf
<1>3. \A g \in groups : \A u \in Peers : Member(g, u) \in Lines /\ Share(g, u) \in Lines
  BY LinesOf
<1> QED
  BY <1>1, <1>2, <1>3 DEF Registered

LEMMA InitInv == Init => Inv
<1> SUFFICES ASSUME Init PROVE Inv
  OBVIOUS
<1>0. PICK groups \in SUBSET Groups, k \in ServedBefore \cup {0} : \E admin \in [groups -> Peers] :
        LET lines == IF groups = {} THEN {} ELSE Registered(groups, admin) IN
        /\ IF groups = {} THEN k = 0 ELSE k \in ServedBefore
        /\ file = [t \in Trackers |-> lines]
        /\ map = [t \in Trackers |-> FetchDetails(lines)]
        /\ main = [p \in Peers |-> [Prompt EXCEPT !.login = groups # {}]]
        /\ serve = [p \in Peers |-> [Idle EXCEPT !.served = k, !.offers = groups]]
        /\ fds = [p \in Peers |-> k]
  BY Zenon DEF Init
<1>1. PICK admin \in [groups -> Peers] :
        LET lines == IF groups = {} THEN {} ELSE Registered(groups, admin) IN
        /\ IF groups = {} THEN k = 0 ELSE k \in ServedBefore
        /\ file = [t \in Trackers |-> lines]
        /\ map = [t \in Trackers |-> FetchDetails(lines)]
        /\ main = [p \in Peers |-> [Prompt EXCEPT !.login = groups # {}]]
        /\ serve = [p \in Peers |-> [Idle EXCEPT !.served = k, !.offers = groups]]
        /\ fds = [p \in Peers |-> k]
  BY <1>0
<1>a. PICK lines : lines = IF groups = {} THEN {} ELSE Registered(groups, admin)
  OBVIOUS
<1>b. lines \in SUBSET Lines
  BY <1>a, RegisteredLines
<1>2. k \in 0..MaxFds /\ k \in Nat /\ k \in 0..(MaxFds + MaxEvents) /\ MaxFds \in Nat
      /\ TrackerFds \in Nat /\ 0 \in 0..TrackerFds
  BY BoundsAssumption
<1>3. PICK r0, i : r0 = Prompt /\ i = Idle
  OBVIOUS
<1>e. PICK lg \in BOOLEAN : lg = (groups # {})
  OBVIOUS
<1>c. PICK r : r = [r0 EXCEPT !.login = lg]
  OBVIOUS
<1>d. r0 \in Loop /\ AtRest(r0, 0) /\ i \in Server /\ i.pc = "idle" /\ i.i = 1
  BY <1>3, PromptRests, IdleServes
<1>4. r \in Loop /\ AtRest(r, 0)
  BY <1>c, <1>d DEF Loop, AtRest
<1>5. PICK s : s = [i EXCEPT !.served = k, !.offers = groups]
  OBVIOUS
<1>6. s \in Server /\ s.pc = "idle" /\ s.served = k /\ s.i = 1
  BY <1>2, <1>d, <1>5 DEF Server
<1>7. main = [p \in Peers |-> r] /\ serve = [p \in Peers |-> s] /\ fds = [p \in Peers |-> k]
  BY <1>1, <1>3, <1>5, <1>c, <1>e
<1>8. count \in Count /\ count.event = 0 /\ ~count.trouble
  <2>1. 0 \in 0..MaxEvents /\ 0 \in 0..MaxKills
    BY BoundsAssumption
  <2> QED
    BY <2>1 DEF Init, Count
<1>9. PeerInv(r, s, k, up, count)
  <2>1. Resting(r) /\ Probing(r, up) /\ Answering(r) /\ Serving(s, up)
    BY <1>4, <1>6 DEF Resting, Probing, Answering, Serving, AtRest
  <2>2. r.pc = "prompt" /\ r.logins = 0
    BY <1>4 DEF AtRest
  <2>3. MainHolds(r) = 0 /\ ServeHolds(s) = 0 /\ Busy(r.pc) = 0 /\ Busy(s.pc) = 0
    BY <1>6, <2>2 DEF MainHolds, ServeHolds, Busy
  <2>4. Held(r, s) = k
    BY <1>2, <1>6, <2>2, <2>3 DEF Held
  <2>5. Counted(r, s, k, count)
    BY <1>2, <1>6, <1>8, <2>2, <2>3, <2>4 DEF Counted
  <2> QED
    BY <2>1, <2>5 DEF PeerInv
<1>10. PeersInv
  BY <1>2, <1>4, <1>6, <1>7, <1>9 DEF PeersInv
<1>11. /\ up = [t \in Trackers |-> TRUE] /\ fresh = [t \in Trackers |-> TRUE]
       /\ joining = [t \in Trackers |-> FALSE]
       /\ file = [t \in Trackers |-> lines] /\ map = [t \in Trackers |-> FetchDetails(lines)]
       /\ leaked = [t \in Trackers |-> 0]
  BY <1>1, <1>a DEF Init
<1>12. ASSUME NEW t \in Trackers
       PROVE  leaked[t] + Cardinality(Sent(t)) <= TrackerFds
  <2>1. r.pc = "prompt"
    BY <1>4 DEF AtRest
  <2>2. Sent(t) = {}
    BY <1>7, <2>1 DEF Sent
  <2>3. Cardinality(Sent(t)) = 0
    BY <2>2, FS_EmptySet
  <2> QED
    BY <1>2, <1>11, <2>3
<1>13. MapsFollowFiles
  BY <1>11 DEF MapsFollowFiles
<1>g. FetchDetails(lines) \in SUBSET Lines
  BY <1>b DEF FetchDetails
<1>14. TrackersInv
  BY <1>2, <1>8, <1>11, <1>12, <1>13, <1>b, <1>g DEF TrackersInv
<1> QED
  BY <1>10, <1>14 DEF Inv

LEMMA NextInv == Inv /\ [Next]_vars => Inv'
<1> SUFFICES ASSUME Inv, [Next]_vars PROVE Inv'
  OBVIOUS
<1>1. ASSUME NEW p \in Peers, Step(p) \/ Serve(p) PROVE Inv'
  <2>1. CASE Handle(p)
    BY <2>1, HandlePeer, HandleTracker DEF Inv
  <2> QED
    BY <1>1, <2>1, ProbeStep, DispatchStep, ConnectStep, ReplyStep, FindTrackerStep,
       AskForPathStep, SendChunkStep, AcceptStep, GetFullPathStep, DiesStep DEF Step, Serve
<1>2. CASE UNCHANGED vars
  <2>1. \A t \in Trackers : Sent(t)' = Sent(t)
    BY <1>2 DEF vars, Sent
  <2>2. PeersInv'
    BY <1>2 DEF Inv, PeersInv, vars, trackers
  <2>3. TrackersInv'
    BY <1>2, <2>1 DEF Inv, TrackersInv, MapsFollowFiles, vars, trackers
  <2> QED
    BY <2>2, <2>3 DEF Inv
<1> QED
  BY <1>1, <1>2, AcceptChunkStep, TypeStep, KillStep, StartStep, JoinStep DEF Next

\* Every variable keeps its type; in particular no thread of a peer closes what it
\* does not hold, and a tracker's descriptors suffice for those it has lost and the
\* connections it handles (TrackerServer exits when accept fails).
THEOREM TypeCorrect == Spec => []TypeOK
<1>1. Inv => TypeOK
  BY DEF Inv, PeersInv, TrackersInv, TypeOK, Count
<1> QED
  BY <1>1, InitInv, NextInv, PTL DEF Spec

\* However many peers share them, the maps of a tracker are those of its files until
\* the sibling pushes a file or a reload finds no descriptor (tracker.cpp, FetchDetails).
THEOREM MapsAreCurrent == Spec => []MapsFollowFiles
<1>1. Inv => MapsFollowFiles
  BY DEF Inv, TrackersInv
<1> QED
  BY <1>1, InitInv, NextInv, PTL DEF Spec

\* As long as no tracker goes down or is short of descriptors, a peer at its prompt
\* holds the sockets of its logins and the files it served, and the trackers have
\* lost nothing.
THEOREM NothingElseIsLost == Spec => []DescriptorsAreReturned
<1>1. Inv => DescriptorsAreReturned
  <2> SUFFICES ASSUME Inv, ~count.trouble
               PROVE  /\ \A p \in Peers :
                           main[p].pc = "prompt" /\ serve[p].pc = "idle"
                             => fds[p] = main[p].logins + serve[p].served
                      /\ \A t \in Trackers : leaked[t] = 0
    BY DEF DescriptorsAreReturned
  <2>1. ASSUME NEW p \in Peers, main[p].pc = "prompt", serve[p].pc = "idle"
        PROVE  fds[p] = main[p].logins + serve[p].served
    <3>1. PICK m \in Loop, s \in Server, n \in 0..MaxFds :
            m = main[p] /\ s = serve[p] /\ n = fds[p] /\ PeerInv(m, s, n, up, count)
      BY OfPeer
    <3>2. MainHolds(m) = 0 /\ ServeHolds(s) = 0
      BY <2>1, <3>1 DEF MainHolds, ServeHolds
    <3>3. n = m.logins + 0 + s.served + 0
      BY <3>1, <3>2 DEF PeerInv, Counted, Held
    <3> QED
      BY <3>1, <3>3, Sizes
  <2> QED
    BY <2>1 DEF Inv, TrackersInv
<1> QED
  BY <1>1, InitInv, NextInv, PTL DEF Spec

----------------------------------------------------------------------------
(* What a step may never do.                                               *)

\* How a peer comes to its prompt or to its end.
Ends(p) ==
  /\ main'[p].pc = "exited"
  /\ Connect(p) \/ (\E g \in Groups : AcceptChunk(p, g)) \/ FindTracker(p) \/ AskForPath(p) \/ SendChunk(p)

LEMMA Moves ==
  ASSUME Inv, [Next]_vars, NEW p \in Peers
  PROVE  \/ main'[p] = main[p]
         \/ main'[p].pc \notin {"prompt", "exited"}
         \/ Dispatch(p) \/ Reply(p) \/ Ends(p)
<1>1. PICK m \in Loop : m = main[p]
  BY OfPeer
<1>2. \A q \in Peers : \A x : main' = [main EXCEPT ![q] = x] => main'[p] = IF q = p THEN x ELSE main[p]
  BY DEF Inv, PeersInv
<1>3. ASSUME NEW q \in Peers, q # p, ~HandleDies(q),
             \/ Step(q) \/ Serve(q)
             \/ \E g \in Groups : AcceptChunk(q, g)
             \/ \E c \in Command : Type(q, c)
      PROVE  main'[p] = main[p]
  BY <1>2, <1>3 DEF Step, Serve, CheckTracker, Dispatch, Connect, Reply, FindTracker, AskForPath,
                    SendChunk, Accept, Handle, GetFullPath, AcceptChunk, Type, SetMain, Exit
<1>4. ASSUME Exit(p) PROVE main'[p].pc = "exited"
  <2>1. main'[p] = [Prompt EXCEPT !.pc = "exited"]
    BY <1>2, <1>4 DEF Exit, SetMain
  <2> QED
    BY <2>1 DEF Prompt
<1>5. ASSUME NEW c \in Command, Type(p, c) PROVE main'[p].pc = "probe"
  <2>1. PICK x : x = [m EXCEPT !.pc = "probe", !.cmd = c, !.infile = (fds[p] < MaxFds),
                        !.i = IF fds[p] < MaxFds THEN 1 ELSE 3, !.full = ~(fds[p] < MaxFds),
                        !.steady = {t \in Trackers : up[t]}]
    OBVIOUS
  <2>2. main' = [main EXCEPT ![p] = x]
    BY <1>1, <1>5, <2>1 DEF Type, SetMain
  <2>3. x.pc = "probe"
    BY <2>1 DEF Loop
  <2> QED
    BY <1>2, <2>2, <2>3
<1>6. ASSUME CheckTracker(p) PROVE main'[p].pc = "probe"
  <2>1. PICK x, y, z : /\ x = [m EXCEPT !.i = @ + 1, !.flag = TRUE, !.si = m.i]
                       /\ y = [m EXCEPT !.i = @ + 1]
                       /\ z = [m EXCEPT !.i = @ + 1, !.full = TRUE]
    OBVIOUS
  <2>2. m.pc = "probe" /\ (main'[p] = x \/ main'[p] = y \/ main'[p] = z)
    BY <1>1, <1>2, <1>6, <2>1 DEF CheckTracker, SetMain
  <2>3. x.pc = m.pc /\ y.pc = m.pc /\ z.pc = m.pc
    BY <2>1 DEF Loop
  <2> QED
    BY <2>2, <2>3
<1>7. ASSUME Connect(p) PROVE main'[p].pc = "handshake" \/ Exit(p)
  <2>1. PICK x : x = [m EXCEPT !.pc = "handshake"]
    OBVIOUS
  <2>2. main' = [main EXCEPT ![p] = x] \/ Exit(p)
    BY <1>1, <1>7, <2>1 DEF Connect, SetMain
  <2>3. x.pc = "handshake"
    BY <2>1 DEF Loop
  <2> QED
    BY <1>2, <2>2, <2>3
<1>8. ASSUME Accept(p) PROVE main'[p].pc = "sent"
  <2>1. PICK x : x = [m EXCEPT !.pc = "sent"]
    OBVIOUS
  <2>2. main' = [main EXCEPT ![p] = x]
    BY <1>1, <1>8, <2>1 DEF Accept, SetMain
  <2>3. x.pc = "sent"
    BY <2>1 DEF Loop
  <2> QED
    BY <1>2, <2>2, <2>3
<1>9. ASSUME Handle(p) PROVE main'[p].pc = "reply"
  BY <1>9, HandlePeer
<1>10. ASSUME (\E g \in Groups : AcceptChunk(p, g)) \/ FindTracker(p) \/ AskForPath(p) \/ SendChunk(p) \/ GetFullPath(p)
       PROVE  main'[p] = main[p] \/ (Exit(p) /\ ~GetFullPath(p))
  BY <1>10 DEF AcceptChunk, FindTracker, AskForPath, SendChunk, GetFullPath
<1>a. ASSUME NEW t \in Trackers, NEW new,
             NEW lost \in SUBSET {q \in Peers : main[q].pc = "reply" /\ main[q].si = t},
             Down(t, lost, new)
      PROVE  main'[p] = main[p] \/ main'[p].pc \notin {"prompt", "exited"}
  <2>2. CASE m.pc \in {"prompt", "exited"}
    BY <1>1, <1>a, <2>2 DEF Down
  <2>3. CASE m.pc \notin {"prompt", "exited"}
    <3>1. Busy(m.pc) = 1
      BY <2>3 DEF Busy, Loop
    <3>2. Busy(main'[p].pc) = 1
      BY <1>1, <1>a, <3>1, DownLoop
    <3> QED
      BY <3>2 DEF Busy
  <2> QED
    BY <2>2, <2>3
<1>11. ASSUME NEW t \in Trackers, Kill(t) \/ AcceptFails(t)
       PROVE  main'[p] = main[p] \/ main'[p].pc \notin {"prompt", "exited"}
  BY <1>11, <1>a DEF Kill, AcceptFails
<1>b. ASSUME NEW q \in Peers, HandleDies(q)
      PROVE  main'[p] = main[p] \/ main'[p].pc \notin {"prompt", "exited"}
  BY <1>a, <1>b, DiesDown
<1>12. ASSUME NEW t \in Trackers, Start(t) \/ Join(t) \/ JoinEnds(t)
       PROVE  main'[p] = main[p]
  BY <1>12 DEF Start, Join, JoinEnds
<1>13. CASE UNCHANGED vars
  BY <1>13 DEF vars
<1>14. ASSUME \/ Step(p) \/ Serve(p)
              \/ \E g \in Groups : AcceptChunk(p, g)
              \/ \E c \in Command : Type(p, c)
       PROVE  \/ main'[p] = main[p]
              \/ main'[p].pc \notin {"prompt", "exited"}
              \/ Dispatch(p) \/ Reply(p) \/ Ends(p)
  BY <1>4, <1>5, <1>6, <1>7, <1>8, <1>9, <1>10, <1>14, <1>b DEF Step, Serve, Ends
<1> QED
  BY <1>3, <1>11, <1>12, <1>13, <1>14, <1>b DEF Next

LEMMA ReturnsFrom ==
  ASSUME Inv, [Next]_vars, NEW p \in Peers, Returned(p)
  PROVE  (main[p].pc = "probe" /\ main[p].i = 3) \/ main[p].pc \in {"nossl", "reply", "cut"}
<1>1. Dispatch(p) \/ Reply(p)
  BY Moves DEF Returned, Ends
<1> QED
  BY <1>1 DEF Dispatch, Reply

\* What a peer prints of its command is true, or else its tracker went down since
\* the command was typed or had no descriptor left (the functions of peer.cpp look
\* at output[0] only).
THEOREM ToldTheTruth == Spec => AnswersAreTrue
<1>1. Inv /\ [Next]_vars =>
        \A p \in Peers :
          LET m == main[p] IN
          Returned(p) =>
            /\ Told(m) = "failed" => ~m.done
            /\ Told(m) = "ok" => m.done \/ m.si \in m.gone \/ m.short
  <2> SUFFICES ASSUME Inv, [Next]_vars, NEW p \in Peers, Returned(p)
               PROVE  /\ Told(main[p]) = "failed" => ~main[p].done
                      /\ Told(main[p]) = "ok" =>
                           main[p].done \/ main[p].si \in main[p].gone \/ main[p].short
    OBVIOUS
  <2>1. Answering(main[p])
    BY OfPeer DEF PeerInv
  <2> QED
    BY <2>1, ReturnsFrom DEF Answering, Told
<1> QED
  BY <1>1, InitInv, NextInv, PTL DEF Spec, AnswersAreTrue

\* "No tracker online" is printed only if no tracker was up all through the probes,
\* or the peer had no descriptor to probe with (peer.cpp, CheckTracker).
THEOREM NoneMeansNone == Spec => NoTrackerMeansNone
<1>1. Inv /\ [Next]_vars =>
        \A p \in Peers : Returned(p) /\ Told(main[p]) = "none"
                           => main[p].steady = {} \/ main[p].full
  <2> SUFFICES ASSUME Inv, [Next]_vars, NEW p \in Peers, Returned(p), Told(main[p]) = "none",
                      ~main[p].full
               PROVE  main[p].steady = {}
    OBVIOUS
  <2>1. PICK m \in Loop : m = main[p] /\ Probing(m, up)
    BY OfPeer DEF PeerInv
  <2>2. m.pc = "probe" /\ ~m.flag /\ m.i = 3
    BY <2>1, ReturnsFrom DEF Told
  <2>3. \A t \in m.steady : 3 <= t
    BY <2>1, <2>2 DEF Probing
  <2>4. m.steady \subseteq Trackers
    BY DEF Loop
  <2> QED
    BY <2>1, <2>3, <2>4 DEF Trackers
<1> QED
  BY <1>1, InitInv, NextInv, PTL DEF Spec, NoTrackerMeansNone

\* A peer exits only if a tracker went down during its command or its search for
\* a path, if none was up, could read its files or lists the file, or without a
\* descriptor left (exit(-1) in peer.cpp and peerserver.cpp, fseek on a null FILE).
THEOREM ExitsHaveACause == Spec => ExitsOnlyOnFailure
<1>1. Inv /\ [Next]_vars =>
        \A p \in Peers :
          Running(p) /\ main'[p].pc = "exited" =>
            \/ main[p].gone # {}
            \/ serve[p].excused
            \/ serve[p].unlisted
            \/ fds[p] = MaxFds
  <2> SUFFICES ASSUME Inv, [Next]_vars, NEW p \in Peers, Running(p), main'[p].pc = "exited",
                      fds[p] # MaxFds
               PROVE  main[p].gone # {} \/ serve[p].excused \/ serve[p].unlisted
    OBVIOUS
  <2>1. PICK m \in Loop, s \in Server, n \in 0..MaxFds :
          m = main[p] /\ s = serve[p] /\ n = fds[p] /\ PeerInv(m, s, n, up, count)
    BY OfPeer
  <2>2. \A x : main' = [main EXCEPT ![p] = x] => main'[p] = x
    BY DEF Inv, PeersInv
  <2>3. ~Dispatch(p)
    <3>1. SUFFICES ASSUME Dispatch(p) PROVE FALSE
      OBVIOUS
    <3>2. main'[p] = Back(m) \/ main'[p] = [m EXCEPT !.pc = "connect", !.infile = FALSE]
      BY <2>1, <2>2, <3>1 DEF Dispatch, SetMain
    <3>3. Back(m).pc = "prompt"
      BY DEF Back, Prompt
    <3> QED
      BY <3>2, <3>3 DEF Loop
  <2>4. ~Reply(p)
    BY ReplyStep
  <2>5. Ends(p)
    BY <2>3, <2>4, Moves DEF Running
  <2>6. CASE Connect(p)
    <3>0. PICK x : x = [m EXCEPT !.pc = "handshake"]
      OBVIOUS
    <3>a. x.pc = "handshake"
      BY <3>0 DEF Loop
    <3>1. m.pc = "connect" /\ ~up[m.si]
      BY <2>1, <2>2, <2>6, <3>0, <3>a DEF Connect, SetMain
    <3>2. Probing(m, up)
      BY <2>1 DEF PeerInv
    <3> QED
      BY <2>1, <3>1, <3>2 DEF Probing
  <2>7. CASE FindTracker(p) \/ AskForPath(p) \/ SendChunk(p)
    <3>1. main' # main
      BY DEF Running
    <3>2. \/ s.pc = "probe" /\ s.i = 3
          \/ s.pc = "connect" /\ ~up[s.server]
          \/ s.pc = "path" /\ s.path # "file"
      BY <2>1, <2>7, <3>1 DEF FindTracker, AskForPath, SendChunk
    <3>3. Serving(s, up) /\ \A t \in Trackers : ~(3 <= t)
      BY <2>1 DEF PeerInv, Trackers
    <3> QED
      BY <2>1, <3>2, <3>3 DEF Serving
  <2>8. CASE \E g \in Groups : AcceptChunk(p, g)
    <3>1. main' # main
      BY DEF Running
    <3> QED
      BY <2>8, <3>1 DEF AcceptChunk
  <2> QED
    BY <2>5, <2>6, <2>7, <2>8 DEF Ends
<1> QED
  BY <1>1, InitInv, NextInv, PTL DEF Spec, ExitsOnlyOnFailure
=============================================================================
