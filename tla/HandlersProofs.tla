--------------------------- MODULE HandlersProofs ---------------------------
(***************************************************************************)
(* Proofs about Handlers, for any threads, users, groups, names and        *)
(* requests, and any files that earlier runs left.                         *)
(*                                                                         *)
(* The argument has two parts.  What every handler's sequence of steps     *)
(* looks like (Sound) is put together from its pieces: a piece that begins *)
(* and ends outside of a rewrite may follow another one.  What the threads *)
(* do to the files and the maps (Inv) then follows from where they are.    *)
(***************************************************************************)
EXTENDS Handlers, SequenceTheorems, TLAPS

----------------------------------------------------------------------------
(* What the handlers look like.                                            *)

\* A step at which the lock is held already is reached from the one before only.
Entry(x) == /\ x.op \notin {"remove", "rename"}
            /\ x.op = "copy" => x.take

\* Where a step may go besides to the next one.
Targets(x) ==
  CASE x.op \in {"look", "seek"} -> {x.else}
    [] x.op = "owner_online"     -> {x.then}
    [] x.op = "goto"             -> {x.to}
    [] OTHER                     -> {}

\* The files a step of r's handler may change, and with which lines.
Permitted(r, x) ==
  /\ x.op = "members" => x.file \in Files
  /\ x.op \in {"write", "append", "insert"} =>
       /\ \A a \in x.append : a[1] \in Files /\ a[2] \in LinesOf(a[1])
       /\ \A a \in x.insert : a[1] \in {Online, Pending} /\ a[2] \in LinesOf(a[1])
       /\ \A f \in x.empty : StartsAfresh(r, f)
       /\ x.op # "write" => x.empty = {} /\ \A a \in x.append : a[1] \notin Cached
  /\ x.op \in {"copy", "remove", "rename"} => x.file \in Files \ {Credential, Group}
  /\ x.op = "copy" => x.take \in BOOLEAN /\ \A line \in x.drop : Removes(r, x.file, line)
  /\ x.op = "rename" => x.release \in BOOLEAN

\* From step n of s on nothing comes before the files are loaded.
Reloading(s, n) ==
  \E m \in DOMAIN s : /\ n <= m /\ s[m].op = "load"
                      /\ \A i \in n..(m - 1) : s[i].op \in {"sync", "clear"}

\* The step after step n of s: a rewrite goes on to its end; the maps are loaded
\* after they were cleared and after accounts or groups were added; a request to
\* join is inserted into the map.
Followed(s, n) ==
  LET x == s[n]
      y == s[n + 1]
      more == n + 1 \in DOMAIN s
  IN
  /\ x.op = "copy" => more /\ y.op = "remove" /\ y.file = x.file
  /\ x.op = "remove" => more /\ y.op = "rename" /\ y.file = x.file
  /\ x.op = "rename" /\ ~x.release => more /\ y.op = "copy" /\ ~y.take
  /\ x.op \notin {"copy", "remove"} /\ (x.op = "rename" => x.release) /\ more => Entry(y)
  /\ x.op = "clear" => more /\ y.op = "load"
  /\ x.op = "write" => \A a \in x.append :
       /\ a[1] \in {Credential, Group} => Reloading(s, n + 1)
       /\ a[1] = Pending => a \in x.insert \/ (more /\ y.op = "insert" /\ a \in y.insert)

Sound(r, s) ==
  /\ s \in Seq({s[i] : i \in DOMAIN s}) /\ Len(s) > 0
  /\ Entry(s[1])
  /\ \A n \in DOMAIN s :
       /\ Permitted(r, s[n])
       /\ Followed(s, n)
       /\ \A m \in Targets(s[n]) \cap DOMAIN s : Entry(s[m])

\* A piece of a handler that jumps nowhere.
Piece(r, s) == Sound(r, s) /\ \A n \in DOMAIN s : Targets(s[n]) \subseteq {0}

\* A step that is a piece by itself.
Single(r, x) ==
  /\ Permitted(r, x)
  /\ x.op \notin {"copy", "remove", "rename", "clear"}
  /\ Targets(x) \subseteq {0}
  /\ x.op = "write" => \A a \in x.append :
       a[1] \notin {Credential, Group} /\ (a[1] = Pending => a \in x.insert)

----------------------------------------------------------------------------
(* The inductive invariant.                                                *)

Thread == [req : Requests \cup {None}, pc : Nat,
           iter : Users \cup {None}, view : (SUBSET Lines) \cup {None}]

\* A thread is free, or at a step of its request's handler.
Placed(t) == /\ t \in Thread
             /\ IF t.req # None THEN t.pc \in DOMAIN Program[t.req] ELSE t = Free

\* Thread k is where it holds the lock.
InSection(k) == Rewriting(k) \/ (At(k, "copy") /\ ~Step(k).take)

\* Thread k will load the files next, or after pushes.
Reloads(k) == Busy(k) /\ Reloading(Program[thread[k].req], thread[k].pc)

Placing == thread \in [Threads -> Thread] /\ \A k \in Threads : Placed(thread[k])

\* The groups file is never rewritten, so its lines are right in any case.
Data ==
  /\ disk \in [Files -> (SUBSET Lines) \cup {Gone}]
  /\ temp \in (SUBSET Lines) \cup {Gone}
  /\ map \in [Maps -> SUBSET Lines]
  /\ lock \in BOOLEAN /\ up \in BOOLEAN /\ intact \in BOOLEAN
  /\ requests \in 0..MaxRequests /\ kills \in 0..MaxKills
  /\ disk[Group] \subseteq LinesOf(Group) /\ map[Group] \subseteq LinesOf(Group)

Typed == /\ Placing /\ Data
         /\ ~up => \A k \in Threads : thread[k] = Free

\* One thread at a time is where it holds the lock, and it does hold it.
Locked ==
  \A k \in Threads : InSection(k) => lock /\ \A j \in Threads : InSection(j) => j = k

\* .temp.txt holds what is to be kept of the file that is being rewritten.
Kept ==
  /\ temp # Gone => \E k \in Threads : Rewriting(k)
  /\ \A f \in Files :
       IF disk[f] = Gone THEN \E k \in Threads : At(k, "rename") /\ Step(k).file = f
                         ELSE disk[f] \subseteq LinesOf(f)
  /\ \A k \in Threads : At(k, "remove") =>
       LET f == Step(k).file IN
       /\ temp # Gone /\ disk[f] # Gone /\ temp \subseteq disk[f]
       /\ \A line \in disk[f] \ temp : Removes(thread[k].req, f, line)
  /\ \A k \in Threads : At(k, "rename") =>
       /\ temp # Gone /\ temp \subseteq LinesOf(Step(k).file)
       /\ disk[Step(k).file] = Gone

\* Accounts, groups and requests that a map lacks will be loaded or inserted.
Followup ==
  /\ map[Credential] \subseteq disk[Credential] /\ map[Group] \subseteq disk[Group]
  /\ (\A k \in Threads : ~Reloads(k)) =>
       /\ disk[Credential] \subseteq map[Credential]
       /\ disk[Group] \subseteq map[Group]
       /\ \A line \in Content(Pending) \ map[Pending] :
            \E k \in Threads : /\ At(k, "insert")
                               /\ \E a \in Step(k).insert : a[1] = Pending /\ a[2] = line

Inv == /\ Typed
       /\ intact => Locked /\ Kept
       /\ intact => IF up THEN Followup ELSE map = [m \in Maps |-> {}]

----------------------------------------------------------------------------
(* Files, their lines, and the steps.                                      *)

LEMMA FileLines ==
  /\ \A u \in Users : /\ <<u>> \in LinesOf(Credential) /\ <<u>> \in LinesOf(Online)
                      /\ \A g : <<u>> \in LinesOf(MembersOf(g))
  /\ \A u \in Users, g \in Groups : <<g, u>> \in LinesOf(Group) /\ <<u, g>> \in LinesOf(Pending)
  /\ \A u \in Users, n \in Names : \A g : <<u, n>> \in LinesOf(FilesOf(g))
  /\ \A g \in Groups, n \in Names : \A u :
       /\ <<g, n>> \in LinesOf(UserFiles(u))
       /\ <<g, n>> \in LinesOf(Downloading(u))
       /\ <<g, n>> \in LinesOf(Downloaded(u))
<1>1. \A f : f[1] \in {"credential", "online", "members"} => LinesOf(f) = {<<u>> : u \in Users}
  BY DEF LinesOf
<1>2. /\ \A f : f[1] = "group" => LinesOf(f) = Groups \X Users
      /\ \A f : f[1] = "pending" => LinesOf(f) = Users \X Groups
      /\ \A f : f[1] = "files" => LinesOf(f) = Users \X Names
  BY DEF LinesOf
<1>3. \A f : f[1] \in {"user", "downloading", "downloaded"} => LinesOf(f) = Groups \X Names
  BY DEF LinesOf
<1> QED
  BY <1>1, <1>2, <1>3 DEF Credential, Online, MembersOf, Group, Pending, FilesOf, UserFiles,
                          Downloading, Downloaded

LEMMA FileNames ==
  /\ {Credential, Online, Group, Pending} \subseteq Files
  /\ \A g \in Groups : {MembersOf(g), FilesOf(g)} \subseteq Files \ Cached
  /\ \A u \in Users : {UserFiles(u), Downloading(u), Downloaded(u)} \subseteq Files \ Cached
  /\ Credential # Group /\ Credential # Online /\ Credential # Pending
  /\ Group # Online /\ Group # Pending /\ Online # Pending
  /\ GroupMembers \notin Cached
BY DEF Files, Cached, Credential, Online, Group, Pending, MembersOf, FilesOf, UserFiles,
       Downloading, Downloaded, GroupMembers

LEMMA NoEmptyLine == <<>> \notin Lines /\ Gone \notin SUBSET Lines
<1>1. \A f : <<>> \notin LinesOf(f)
  BY DEF LinesOf
<1> QED
  BY <1>1 DEF Lines, Gone

\* The steps that need nothing of their neighbours.
LEMMA Singles ==
  ASSUME NEW r \in Requests
  PROVE  /\ Single(r, Load) /\ Single(r, ReadLocked) /\ Single(r, Unlock)
         /\ \A f : Single(r, Sync(f))
         /\ \A f, m, w : Single(r, Look(f, m, w, 0)) /\ Single(r, Seek(f, m, w, 0))
         /\ \A g \in Groups : Single(r, FetchGroupMembers(g))
         /\ \A g : Single(r, Find(g))
         /\ \A u, w : Single(r, OwnerIs(u, w))
         /\ \A f, l : \A n \in DOMAIN CheckGroupFiles(f, l) : Single(r, CheckGroupFiles(f, l)[n])
  <1>1. Single(r, Load) /\ Single(r, Unlock)
    BY DEF Single, Permitted, Targets, Load, Unlock
  <1>2. Single(r, ReadLocked)
    BY DEF Single, Permitted, Targets, ReadLocked, Write
  <1>3. \A f : Single(r, Sync(f))
    BY DEF Single, Permitted, Targets, Sync
  <1>4. \A f, m, w : Single(r, Look(f, m, w, 0))
    BY DEF Single, Permitted, Targets, Look
  <1>5. \A f, m, w : Single(r, Seek(f, m, w, 0))
    BY DEF Single, Permitted, Targets, Look, Seek
  <1>6. \A g \in Groups : Single(r, FetchGroupMembers(g))
    BY FileNames DEF Single, Permitted, Targets, FetchGroupMembers
  <1>7. \A g : Single(r, Find(g))
    BY DEF Single, Permitted, Targets, Find
  <1>8. \A u, w : Single(r, OwnerIs(u, w))
    BY DEF Single, Permitted, Targets, OwnerIs
  <1>9. ASSUME NEW f, NEW l, NEW n \in DOMAIN CheckGroupFiles(f, l)
        PROVE  Single(r, CheckGroupFiles(f, l)[n])
    <2>1. \/ CheckGroupFiles(f, l)[n] = [op |-> "open", file |-> f]
          \/ CheckGroupFiles(f, l)[n] = [op |-> "absent", file |-> f, line |-> l]
      BY <1>9 DEF CheckGroupFiles
    <2>2. Single(r, [op |-> "open", file |-> f])
      BY DEF Single, Permitted, Targets
    <2>3. Single(r, [op |-> "absent", file |-> f, line |-> l])
      BY DEF Single, Permitted, Targets
    <2> QED
      BY <2>1, <2>2, <2>3
  <1> QED
    BY <1>1, <1>2, <1>3, <1>4, <1>5, <1>6, <1>7, <1>8, <1>9

\* A line appended to a file that is no map's, or inserted into the map as well.
LEMMA SingleWrites ==
  ASSUME NEW r \in Requests
  PROVE  /\ \A f \in Files \ {Credential, Group, Pending} : \A l \in LinesOf(f) :
              Single(r, Append1(f, l))
         /\ \A f \in Files \ Cached : \A l \in LinesOf(f) : Single(r, AppendUnlocked(f, l))
         /\ \A f \in {Online, Pending} : \A l \in LinesOf(f) : Single(r, Insert(f, l))
<1>1. \A f \in Files \ {Credential, Group, Pending} : \A l \in LinesOf(f) :
        Single(r, Append1(f, l))
  BY DEF Single, Permitted, Targets, Append1, Write
<1>2. \A f \in Files \ Cached : \A l \in LinesOf(f) : Single(r, AppendUnlocked(f, l))
  <2> SUFFICES ASSUME NEW f \in Files \ Cached, NEW l \in LinesOf(f)
               PROVE  Single(r, AppendUnlocked(f, l))
    OBVIOUS
  <2>1. AppendUnlocked(f, l) = [op |-> "append", empty |-> {}, append |-> {<<f, l>>}, insert |-> {}]
    BY DEF AppendUnlocked, Append1, Write
  <2> QED
    BY <2>1 DEF Single, Permitted, Targets
<1>3. \A f \in {Online, Pending} : \A l \in LinesOf(f) : Single(r, Insert(f, l))
  <2> SUFFICES ASSUME NEW f \in {Online, Pending}, NEW l \in LinesOf(f)
               PROVE  Single(r, Insert(f, l))
    OBVIOUS
  <2>1. Insert(f, l) = [op |-> "insert", empty |-> {}, append |-> {}, insert |-> {<<f, l>>}]
    BY DEF Insert, Write
  <2> QED
    BY <2>1 DEF Single, Permitted, Targets
<1> QED
  BY <1>1, <1>2, <1>3

\* Such steps one after the other are a piece of a handler.
LEMMA SinglesArePiece ==
  ASSUME NEW r, NEW s, s \in Seq({s[i] : i \in DOMAIN s}), Len(s) > 0,
         \A n \in DOMAIN s : Single(r, s[n])
  PROVE  Piece(r, s)
<1>1. Len(s) \in Nat /\ DOMAIN s = 1..Len(s) /\ 1 \in DOMAIN s
  OBVIOUS
<1>2. \A n \in DOMAIN s : Entry(s[n]) /\ Permitted(r, s[n]) /\ Targets(s[n]) \subseteq {0}
  BY DEF Single, Entry
<1>3. \A n \in DOMAIN s : Followed(s, n)
  BY <1>2 DEF Single, Followed
<1> QED
  BY <1>1, <1>2, <1>3 DEF Piece, Sound

LEMMA OwnRange ==
  ASSUME NEW S, NEW s \in Seq(S)
  PROVE  s \in Seq({s[i] : i \in DOMAIN s})
<1>1. Len(s) \in Nat /\ s \in [1..Len(s) -> S]
  OBVIOUS
<1>2. s \in [1..Len(s) -> {s[i] : i \in DOMAIN s}]
  BY <1>1
<1> QED
  BY <1>1, <1>2, SeqDef

LEMMA Regrouped ==
  ASSUME NEW s, NEW t, NEW v, s \in Seq({s[i] : i \in DOMAIN s}),
         t \in Seq({t[i] : i \in DOMAIN t}), v \in Seq({v[i] : i \in DOMAIN v})
  PROVE  (s \o t) \o v = s \o (t \o v)
<1> DEFINE S == {s[i] : i \in DOMAIN s} \cup {t[i] : i \in DOMAIN t} \cup {v[i] : i \in DOMAIN v}
<1>1. /\ Len(s) \in Nat /\ s \in [1..Len(s) -> S]
      /\ Len(t) \in Nat /\ t \in [1..Len(t) -> S]
      /\ Len(v) \in Nat /\ v \in [1..Len(v) -> S]
  OBVIOUS
<1> HIDE DEF S
<1>2. s \in Seq(S) /\ t \in Seq(S) /\ v \in Seq(S)
  BY <1>1, SeqDef
<1> QED
  BY <1>2, ConcatAssociative

LEMMA TwoMore ==
  ASSUME NEW S, NEW s \in Seq(S), NEW x \in S, NEW y \in S
  PROVE  /\ s \o <<x, y>> \in Seq(S) /\ Len(s \o <<x, y>>) = Len(s) + 2
         /\ DOMAIN (s \o <<x, y>>) = 1..(Len(s) + 2)
         /\ \A i \in 1..Len(s) : (s \o <<x, y>>)[i] = s[i]
         /\ (s \o <<x, y>>)[Len(s) + 1] = x /\ (s \o <<x, y>>)[Len(s) + 2] = y
OBVIOUS

\* A piece may follow a piece.
LEMMA PiecesFollow ==
  ASSUME NEW r, NEW s, NEW t, Piece(r, s), Piece(r, t)
  PROVE  Piece(r, s \o t)
<1> DEFINE S == {s[i] : i \in DOMAIN s} \cup {t[i] : i \in DOMAIN t}
           q == s \o t
<1>1. s \in Seq(S) /\ t \in Seq(S)
  <2>1. Len(s) \in Nat /\ s \in [1..Len(s) -> S] /\ Len(t) \in Nat /\ t \in [1..Len(t) -> S]
    BY DEF Piece, Sound
  <2> QED
    BY <2>1, SeqDef
<1>2. q \in Seq(S) /\ Len(q) = Len(s) + Len(t)
      /\ DOMAIN q = 1..(Len(s) + Len(t)) /\ DOMAIN s = 1..Len(s) /\ DOMAIN t = 1..Len(t)
      /\ Len(s) \in Nat /\ Len(t) \in Nat /\ Len(s) > 0 /\ Len(t) > 0
  BY <1>1 DEF Piece, Sound
<1>3. /\ \A n \in 1..Len(s) : q[n] = s[n]
      /\ \A n \in 1..Len(t) : q[Len(s) + n] = t[n]
  BY <1>1, <1>2
<1>4. q \in Seq({q[i] : i \in DOMAIN q})
  BY <1>2, OwnRange
<1> HIDE DEF q, S
<1>5. \A n \in 1..Len(s) : /\ Permitted(r, s[n]) /\ Targets(s[n]) \subseteq {0} /\ Followed(s, n)
  BY <1>2 DEF Piece, Sound
<1>6. \A n \in 1..Len(t) : /\ Permitted(r, t[n]) /\ Targets(t[n]) \subseteq {0} /\ Followed(t, n)
  BY <1>2 DEF Piece, Sound
<1>7. Entry(s[1]) /\ Entry(t[1])
  BY DEF Piece, Sound
<1>8. \A n \in DOMAIN q : n \in 1..Len(s) \/ n - Len(s) \in 1..Len(t)
  BY <1>2
<1>9. ASSUME NEW n \in Nat \ {0}, Reloading(s, n) PROVE Reloading(q, n)
  <2>1. PICK m \in 1..Len(s) : /\ n <= m /\ s[m].op = "load"
                               /\ \A i \in n..(m - 1) : s[i].op \in {"sync", "clear"}
    BY <1>9, <1>2 DEF Reloading
  <2>2. m \in DOMAIN q /\ q[m].op = "load"
    BY <2>1, <1>2, <1>3
  <2>3. \A i \in n..(m - 1) : i \in 1..Len(s)
    BY <2>1, <1>2
  <2> QED
    BY <2>1, <2>2, <2>3, <1>3 DEF Reloading
<1>10. ASSUME NEW n \in Nat \ {0}, Reloading(t, n) PROVE Reloading(q, Len(s) + n)
  <2>1. PICK m \in 1..Len(t) : /\ n <= m /\ t[m].op = "load"
                               /\ \A i \in n..(m - 1) : t[i].op \in {"sync", "clear"}
    BY <1>10, <1>2 DEF Reloading
  <2>2. Len(s) + m \in DOMAIN q /\ q[Len(s) + m].op = "load" /\ Len(s) + n <= Len(s) + m
    BY <2>1, <1>2, <1>3
  <2>3. ASSUME NEW i \in (Len(s) + n)..(Len(s) + m - 1)
        PROVE  q[i].op \in {"sync", "clear"}
    <3>1. i - Len(s) \in n..(m - 1) /\ i - Len(s) \in 1..Len(t) /\ i = Len(s) + (i - Len(s))
      BY <2>1, <1>2
    <3>2. q[i] = t[i - Len(s)]
      BY <3>1, <1>3
    <3> QED
      BY <3>1, <3>2, <2>1
  <2> QED
    BY <2>2, <2>3 DEF Reloading
<1>11. ASSUME NEW n \in 1..Len(s) PROVE Followed(q, n)
  <2>1. q[n] = s[n] /\ n + 1 \in DOMAIN q /\ n + 1 \in Nat \ {0}
    BY <1>2, <1>3
  <2>2. CASE n + 1 \in DOMAIN s
    <3>1. q[n + 1] = s[n + 1] /\ Followed(s, n)
      BY <2>2, <1>2, <1>3, <1>5
    <3> QED
      BY <2>1, <2>2, <3>1, <1>9 DEF Followed
  <2>3. CASE n + 1 \notin DOMAIN s
    <3>0. Len(s) \in Nat /\ Len(t) \in Nat /\ Len(t) > 0 /\ n + 1 \notin 1..Len(s)
      BY <2>3, <1>2
    <3>1. n = Len(s) /\ 1 \in 1..Len(t)
      BY <3>0
    <3>2. q[n + 1] = t[1]
      BY <3>1, <1>3
    <3> QED
      BY <2>1, <2>3, <3>2, <1>5, <1>7, <1>9 DEF Followed
  <2> QED
    BY <2>2, <2>3
<1>12. ASSUME NEW i \in 1..Len(t) PROVE Followed(q, Len(s) + i)
  <2>1. q[Len(s) + i] = t[i] /\ Followed(t, i) /\ i + 1 \in Nat \ {0}
        /\ (Len(s) + i) + 1 = Len(s) + (i + 1)
    BY <1>2, <1>3, <1>6
  <2>2. (Len(s) + i) + 1 \in DOMAIN q <=> i + 1 \in DOMAIN t
    BY <1>2
  <2>3. i + 1 \in DOMAIN t => q[(Len(s) + i) + 1] = t[i + 1]
    BY <2>1, <1>2, <1>3
  <2>4. Reloading(t, i + 1) => Reloading(q, (Len(s) + i) + 1)
    BY <2>1, <1>10
  <2> QED
    BY <2>1, <2>2, <2>3, <2>4 DEF Followed
<1>13. ASSUME NEW n \in DOMAIN q
       PROVE  Permitted(r, q[n]) /\ Followed(q, n) /\ Targets(q[n]) \subseteq {0}
  <2>1. CASE n \in 1..Len(s)
    BY <2>1, <1>3, <1>5, <1>11
  <2>2. CASE n - Len(s) \in 1..Len(t)
    <3>1. PICK i \in 1..Len(t) : n = Len(s) + i
      BY <2>2, <1>2
    <3> QED
      BY <3>1, <1>3, <1>6, <1>12
  <2> QED
    BY <2>1, <2>2, <1>8
<1>14. 0 \notin DOMAIN q /\ Entry(q[1]) /\ Len(q) > 0
  BY <1>2, <1>3, <1>7
<1>15. Piece(r, q)
  BY <1>4, <1>13, <1>14 DEF Piece, Sound
<1> QED
  BY <1>15 DEF q

LEMMA DeletesArePiece ==
  ASSUME NEW r, NEW f \in Files \ {Credential, Group}, NEW drop,
         \A line \in drop : Removes(r, f, line)
  PROVE  Piece(r, DeleteLine(f, drop))
<1> DEFINE a == [op |-> "copy", file |-> f, drop |-> drop, add |-> TRUE, take |-> TRUE]
           b == [op |-> "remove", file |-> f]
           c == [op |-> "rename", file |-> f, release |-> TRUE]
           s == <<a, b, c>>
<1>1. DeleteLine(f, drop) = s
  BY DEF DeleteLine, Rewrite
<1>2. s \in Seq({a, b, c}) /\ Len(s) = 3 /\ DOMAIN s = 1..3 /\ s[1] = a /\ s[2] = b /\ s[3] = c
  OBVIOUS
<1>3. Permitted(r, a) /\ Permitted(r, b) /\ Permitted(r, c)
  BY DEF Permitted
<1>4. Entry(a) /\ Targets(a) = {} /\ Targets(b) = {} /\ Targets(c) = {}
  BY DEF Entry, Targets
<1>5. /\ a.op = "copy" /\ a.file = f
      /\ b.op = "remove" /\ b.file = f
      /\ c.op = "rename" /\ c.file = f /\ c.release
  OBVIOUS
<1> HIDE DEF a, b, c, s
<1>6. \A n \in DOMAIN s : n = 1 \/ n = 2 \/ n = 3
  BY <1>2
<1>7. 2 \in DOMAIN s /\ 3 \in DOMAIN s /\ 4 \notin DOMAIN s /\ 1 + 1 = 2 /\ 2 + 1 = 3 /\ 3 + 1 = 4
  BY <1>2
<1>8. Followed(s, 1) /\ Followed(s, 2) /\ Followed(s, 3)
  BY <1>2, <1>5, <1>7 DEF Followed
<1>9. s \in Seq({s[i] : i \in DOMAIN s}) /\ Len(s) > 0
  BY <1>2, OwnRange
<1>10. Piece(r, s)
  BY <1>2, <1>3, <1>4, <1>6, <1>8, <1>9 DEF Piece, Sound
<1> QED
  BY <1>1, <1>10

\* GroupStopShare rewrites two files and keeps the lock in between.
LEMMA StopShareIsPiece ==
  ASSUME NEW r, NEW f \in Files \ {Credential, Group}, NEW h \in Files \ {Credential, Group},
         NEW x, NEW y, \A line \in x : Removes(r, f, line), \A line \in y : Removes(r, h, line)
  PROVE  Piece(r, Rewrite(f, x, FALSE, TRUE, FALSE) \o Rewrite(h, y, FALSE, FALSE, TRUE))
<1> DEFINE a == [op |-> "copy", file |-> f, drop |-> x, add |-> FALSE, take |-> TRUE]
           b == [op |-> "remove", file |-> f]
           c == [op |-> "rename", file |-> f, release |-> FALSE]
           d == [op |-> "copy", file |-> h, drop |-> y, add |-> FALSE, take |-> FALSE]
           e == [op |-> "remove", file |-> h]
           g == [op |-> "rename", file |-> h, release |-> TRUE]
           s == <<a, b, c>> \o <<d, e, g>>
<1>1. Rewrite(f, x, FALSE, TRUE, FALSE) \o Rewrite(h, y, FALSE, FALSE, TRUE) = s
  BY DEF Rewrite
<1>2. s \in Seq({a, b, c, d, e, g}) /\ Len(s) = 6 /\ DOMAIN s = 1..6
      /\ s[1] = a /\ s[2] = b /\ s[3] = c /\ s[4] = d /\ s[5] = e /\ s[6] = g
  <2> HIDE DEF a, b, c, d, e, g
  <2> QED
    OBVIOUS
<1>3. /\ Permitted(r, a) /\ Permitted(r, b) /\ Permitted(r, c)
      /\ Permitted(r, d) /\ Permitted(r, e) /\ Permitted(r, g)
  BY DEF Permitted
<1>4. /\ Entry(a) /\ Targets(a) = {} /\ Targets(b) = {} /\ Targets(c) = {}
      /\ Targets(d) = {} /\ Targets(e) = {} /\ Targets(g) = {}
  BY DEF Entry, Targets
<1>5. /\ a.op = "copy" /\ a.file = f
      /\ b.op = "remove" /\ b.file = f
      /\ c.op = "rename" /\ c.file = f /\ ~c.release
      /\ d.op = "copy" /\ d.file = h /\ ~d.take
      /\ e.op = "remove" /\ e.file = h
      /\ g.op = "rename" /\ g.file = h /\ g.release
  OBVIOUS
<1> HIDE DEF a, b, c, d, e, g, s
<1>6. \A n \in DOMAIN s : n = 1 \/ n = 2 \/ n = 3 \/ n = 4 \/ n = 5 \/ n = 6
  BY <1>2
<1>7. /\ 2 \in DOMAIN s /\ 3 \in DOMAIN s /\ 4 \in DOMAIN s /\ 5 \in DOMAIN s /\ 6 \in DOMAIN s
      /\ 7 \notin DOMAIN s
      /\ 1 + 1 = 2 /\ 2 + 1 = 3 /\ 3 + 1 = 4 /\ 4 + 1 = 5 /\ 5 + 1 = 6 /\ 6 + 1 = 7
  BY <1>2
<1>8. /\ Followed(s, 1) /\ Followed(s, 2) /\ Followed(s, 3)
      /\ Followed(s, 4) /\ Followed(s, 5) /\ Followed(s, 6)
  BY <1>2, <1>5, <1>7 DEF Followed
<1>9. s \in Seq({s[i] : i \in DOMAIN s}) /\ Len(s) > 0
  BY <1>2, OwnRange
<1>10. Piece(r, s)
  BY <1>2, <1>3, <1>4, <1>6, <1>8, <1>9 DEF Piece, Sound
<1> QED
  BY <1>1, <1>10

LEMMA FetchIsPiece == \A r : Piece(r, FetchDetails)
<1> SUFFICES ASSUME NEW r PROVE Piece(r, FetchDetails)
  OBVIOUS
<1> DEFINE s == <<Clear, Load>>
<1>1. s \in Seq({Clear, Load}) /\ Len(s) = 2 /\ DOMAIN s = 1..2 /\ s[1] = Clear /\ s[2] = Load
  OBVIOUS
<1>2. /\ Permitted(r, Clear) /\ Permitted(r, Load) /\ Entry(Clear)
      /\ Targets(Clear) = {} /\ Targets(Load) = {}
      /\ Clear.op = "clear" /\ Load.op = "load"
  BY DEF Permitted, Entry, Targets, Clear, Load
<1>3. Entry(Load)
  BY <1>2 DEF Entry
<1> HIDE DEF s
<1>4. /\ \A n \in DOMAIN s : n = 1 \/ n = 2
      /\ 2 \in DOMAIN s /\ 3 \notin DOMAIN s /\ 1 + 1 = 2 /\ 2 + 1 = 3
  BY <1>1
<1>5. Followed(s, 1) /\ Followed(s, 2)
  BY <1>1, <1>2, <1>3, <1>4 DEF Followed
<1>6. s \in Seq({s[i] : i \in DOMAIN s}) /\ Len(s) > 0
  BY <1>1, OwnRange
<1>7. Piece(r, s)
  BY <1>1, <1>2, <1>4, <1>5, <1>6 DEF Piece, Sound
<1> QED
  BY <1>7 DEF s, FetchDetails

LEMMA SinglesOf ==
  ASSUME NEW r, NEW S, NEW s \in Seq(S), Len(s) > 0, \A x \in S : Single(r, x)
  PROVE  Piece(r, s)
<1>1. s \in Seq({s[i] : i \in DOMAIN s})
  BY OwnRange
<1>2. \A n \in DOMAIN s : s[n] \in S
  OBVIOUS
<1>3. \A n \in DOMAIN s : Single(r, s[n])
  BY <1>2
<1> QED
  BY <1>1, <1>3, SinglesArePiece

LEMMA TuplesArePieces ==
  ASSUME NEW r
  PROVE  /\ \A a : Single(r, a) => Piece(r, <<a>>)
         /\ \A a, b : Single(r, a) /\ Single(r, b) => Piece(r, <<a, b>>)
         /\ \A a, b, c : Single(r, a) /\ Single(r, b) /\ Single(r, c) => Piece(r, <<a, b, c>>)
         /\ \A a, b, c, d : Single(r, a) /\ Single(r, b) /\ Single(r, c) /\ Single(r, d)
              => Piece(r, <<a, b, c, d>>)
         /\ \A a, b, c, d, e :
              Single(r, a) /\ Single(r, b) /\ Single(r, c) /\ Single(r, d) /\ Single(r, e)
                => Piece(r, <<a, b, c, d, e>>)
<1>1. ASSUME NEW a, Single(r, a) PROVE Piece(r, <<a>>)
  <2> DEFINE s == <<a>>
  <2>1. s \in Seq({a}) /\ Len(s) > 0
    OBVIOUS
  <2> HIDE DEF s
  <2>2. Piece(r, s)
    BY <2>1, <1>1, SinglesOf
  <2> QED
    BY <2>2 DEF s
<1>2. ASSUME NEW a, NEW b, Single(r, a), Single(r, b) PROVE Piece(r, <<a, b>>)
  <2> DEFINE s == <<a, b>>
  <2>1. s \in Seq({a, b}) /\ Len(s) > 0
    OBVIOUS
  <2> HIDE DEF s
  <2>2. Piece(r, s)
    BY <2>1, <1>2, SinglesOf
  <2> QED
    BY <2>2 DEF s
<1>3. ASSUME NEW a, NEW b, NEW c, Single(r, a), Single(r, b), Single(r, c)
      PROVE  Piece(r, <<a, b, c>>)
  <2> DEFINE s == <<a, b, c>>
  <2>1. s \in Seq({a, b, c}) /\ Len(s) > 0
    OBVIOUS
  <2> HIDE DEF s
  <2>2. Piece(r, s)
    BY <2>1, <1>3, SinglesOf
  <2> QED
    BY <2>2 DEF s
<1>4. ASSUME NEW a, NEW b, NEW c, NEW d, Single(r, a), Single(r, b), Single(r, c), Single(r, d)
      PROVE  Piece(r, <<a, b, c, d>>)
  <2> DEFINE s == <<a, b, c, d>>
  <2>1. s \in Seq({a, b, c, d}) /\ Len(s) > 0
    OBVIOUS
  <2> HIDE DEF s
  <2>2. Piece(r, s)
    BY <2>1, <1>4, SinglesOf
  <2> QED
    BY <2>2 DEF s
<1>5. ASSUME NEW a, NEW b, NEW c, NEW d, NEW e,
             Single(r, a), Single(r, b), Single(r, c), Single(r, d), Single(r, e)
      PROVE  Piece(r, <<a, b, c, d, e>>)
  <2> DEFINE s == <<a, b, c, d, e>>
  <2>1. s \in Seq({a, b, c, d, e}) /\ Len(s) > 0
    OBVIOUS
  <2> HIDE DEF s
  <2>2. Piece(r, s)
    BY <2>1, <1>5, SinglesOf
  <2> QED
    BY <2>2 DEF s
<1> QED
  BY <1>1, <1>2, <1>3, <1>4, <1>5

\* After an account was added, pushes and then FetchDetails.
LEMMA AdditionIsPiece ==
  ASSUME NEW r, NEW a, NEW w, NEW s, Single(r, a), Permitted(r, w), w.op = "write",
         \A b \in w.append : b[1] # Pending,
         s \in Seq({s[i] : i \in DOMAIN s}), Len(s) > 0,
         \A n \in DOMAIN s : s[n].op = "sync" /\ Single(r, s[n])
  PROVE  Piece(r, (<<a, w>> \o s) \o FetchDetails)
<1> DEFINE q == (<<a, w>> \o s) \o FetchDetails
           N == Len(s) + 4
           S == {a, w, Clear, Load} \cup {s[i] : i \in DOMAIN s}
<1>1. Len(s) \in Nat /\ DOMAIN s = 1..Len(s) /\ s \in Seq(S)
  <2>1. Len(s) \in Nat /\ s \in [1..Len(s) -> S]
    OBVIOUS
  <2> QED
    BY <2>1, SeqDef
<1>2. <<a, w>> \in Seq(S) /\ FetchDetails \in Seq(S) /\ Len(<<a, w>>) = 2
      /\ Len(FetchDetails) = 2 /\ FetchDetails[1] = Clear /\ FetchDetails[2] = Load
      /\ <<a, w>>[1] = a /\ <<a, w>>[2] = w
  BY DEF FetchDetails
<1> HIDE DEF S
<1>3. /\ q \in Seq(S) /\ Len(q) = N /\ DOMAIN q = 1..N
      /\ q[1] = a /\ q[2] = w /\ q[N - 1] = Clear /\ q[N] = Load
      /\ \A i \in 1..Len(s) : q[i + 2] = s[i]
  <2> DEFINE p == <<a, w>> \o s
  <2>1. p \in Seq(S) /\ Len(p) = Len(s) + 2
    BY <1>1, <1>2
  <2>2. p[1] = a /\ p[2] = w /\ \A i \in 1..Len(s) : p[i + 2] = s[i]
    BY <1>1, <1>2
  <2> DEFINE z == p \o <<Clear, Load>>
  <2>3. Clear \in S /\ Load \in S
    BY DEF S
  <2> HIDE DEF p
  <2>4. /\ z \in Seq(S) /\ Len(z) = Len(p) + 2 /\ DOMAIN z = 1..(Len(p) + 2)
        /\ \A i \in 1..Len(p) : z[i] = p[i]
        /\ z[Len(p) + 1] = Clear /\ z[Len(p) + 2] = Load
    BY <2>1, <2>3, TwoMore
  <2> HIDE DEF z
  <2>5. /\ 1 \in 1..Len(p) /\ 2 \in 1..Len(p)
        /\ N - 1 = Len(p) + 1 /\ N = Len(p) + 2
        /\ \A i \in 1..Len(s) : i + 2 \in 1..Len(p)
    BY <1>1, <2>1
  <2>6. /\ z[1] = a /\ z[2] = w /\ z[N - 1] = Clear /\ z[N] = Load
        /\ \A i \in 1..Len(s) : z[i + 2] = s[i]
        /\ z \in Seq(S) /\ Len(z) = N /\ DOMAIN z = 1..N
    BY <2>2, <2>4, <2>5
  <2> QED
    BY <2>6 DEF z, p, FetchDetails
<1>4. /\ q[1] = a /\ q[2] = w /\ q[N - 1] = Clear /\ q[N] = Load
      /\ \A i \in 1..Len(s) : q[i + 2] = s[i]
  BY <1>3
<1> HIDE DEF q
<1>5. q \in Seq({q[i] : i \in DOMAIN q}) /\ Len(q) > 0
  <2>1. Len(q) > 0
    BY <1>1, <1>3
  <2> QED
    BY <2>1, <1>3, OwnRange
<1>6. \A i \in 3..(N - 2) : q[i].op = "sync" /\ Single(r, q[i])
  <2> SUFFICES ASSUME NEW i \in 3..(N - 2) PROVE q[i].op = "sync" /\ Single(r, q[i])
    OBVIOUS
  <2>1. i - 2 \in 1..Len(s) /\ i = (i - 2) + 2
    BY <1>1
  <2>2. q[i] = s[i - 2]
    BY <2>1, <1>4
  <2> QED
    BY <2>1, <2>2, <1>1
<1>7. /\ Permitted(r, Clear) /\ Permitted(r, Load) /\ Entry(Clear) /\ Entry(Load)
      /\ Targets(Clear) = {} /\ Targets(Load) = {} /\ Targets(w) = {} /\ Entry(w)
      /\ Clear.op = "clear" /\ Load.op = "load"
  BY DEF Permitted, Entry, Targets, Clear, Load
<1>8. \A x : Single(r, x) => Permitted(r, x) /\ Entry(x) /\ Targets(x) \subseteq {0}
  BY DEF Single, Entry
<1>9. ASSUME NEW n \in DOMAIN q
      PROVE  n = 1 \/ n = 2 \/ n \in 3..(N - 2) \/ n = N - 1 \/ n = N
  <2>1. N \in Nat /\ n \in 1..N
    BY <1>1, <1>3
  <2> HIDE DEF N
  <2> QED
    BY <2>1
<1>10. \A n \in DOMAIN q : Permitted(r, q[n]) /\ Entry(q[n]) /\ Targets(q[n]) \subseteq {0}
  BY <1>4, <1>6, <1>7, <1>8, <1>9
<1>11. Reloading(q, 3)
  <2>1. N \in DOMAIN q /\ 3 <= N /\ q[N].op = "load"
    BY <1>1, <1>3, <1>4, <1>7
  <2>2. ASSUME NEW i \in 3..(N - 1) PROVE q[i].op \in {"sync", "clear"}
    <3>1. i \in 3..(N - 2) \/ i = N - 1
      BY <1>1
    <3> QED
      BY <3>1, <1>4, <1>6, <1>7
  <2> QED
    BY <2>1, <2>2 DEF Reloading
<1>12. ASSUME NEW n \in DOMAIN q PROVE Followed(q, n)
  <2>1. CASE n = 1 \/ n \in 3..(N - 2) \/ n = N
    <3>1. Single(r, q[n]) \/ q[n] = Load
      BY <2>1, <1>4, <1>6
    <3>2. q[n].op \notin {"copy", "remove", "rename", "clear"}
          /\ (q[n].op = "write" => \A b \in q[n].append :
                b[1] \notin {Credential, Group} /\ (b[1] = Pending => b \in q[n].insert))
      BY <3>1, <1>7 DEF Single
    <3> QED
      BY <3>2, <1>10 DEF Followed
  <2>2. CASE n = 2
    BY <2>2, <1>4, <1>10, <1>11 DEF Followed
  <2>3. CASE n = N - 1
    <3>1. n + 1 = N /\ N \in DOMAIN q
      BY <2>3, <1>1, <1>3
    <3> QED
      BY <2>3, <3>1, <1>4, <1>7 DEF Followed
  <2> QED
    BY <2>1, <2>2, <2>3, <1>9
<1>13. 1 \in DOMAIN q
  BY <1>1, <1>3
<1>14. Piece(r, q)
  BY <1>5, <1>10, <1>12, <1>13 DEF Piece, Sound
<1> QED
  BY <1>14 DEF q

\* Without a rewrite a handler may jump anywhere.
LEMMA NoRewriteIsSound ==
  ASSUME NEW r, NEW S, NEW s \in Seq(S), Len(s) > 0,
         \A n \in DOMAIN s :
           /\ Permitted(r, s[n]) /\ s[n].op \notin {"copy", "remove", "rename"}
           /\ s[n].op = "clear" => n + 1 \in DOMAIN s /\ s[n + 1].op = "load"
           /\ s[n].op = "write" => \A a \in s[n].append :
                /\ a[1] \notin {Credential, Group}
                /\ a[1] = Pending => \/ a \in s[n].insert
                                     \/ /\ n + 1 \in DOMAIN s /\ s[n + 1].op = "insert"
                                        /\ a \in s[n + 1].insert
  PROVE  Sound(r, s)
<1>1. s \in Seq({s[i] : i \in DOMAIN s}) /\ 1 \in DOMAIN s
  BY OwnRange
<1>2. \A n \in DOMAIN s : Entry(s[n])
  BY DEF Entry
<1>3. \A n \in DOMAIN s : Followed(s, n)
  BY <1>2 DEF Followed
<1> QED
  BY <1>1, <1>2, <1>3 DEF Sound

LEMMA PieceIsSound == \A r, s : Piece(r, s) => Sound(r, s)
BY DEF Piece

LEMMA UserLoginIsSound ==
  ASSUME NEW r \in Requests, NEW u \in Users
  PROVE  Sound(r, UserLogin(u))
<1> DEFINE t == <<Has(Credential, <<u>>), HasNot(Online, <<u>>), Insert(Online, <<u>>),
                  Append1(Online, <<u>>), Sync(Online)>>
<1>1. Single(r, Has(Credential, <<u>>)) /\ Single(r, HasNot(Online, <<u>>)) /\ Single(r, Sync(Online))
  BY Singles DEF Has, HasNot
<1>2. Single(r, Insert(Online, <<u>>)) /\ Single(r, Append1(Online, <<u>>))
  BY SingleWrites, FileLines, FileNames
<1>3. Piece(r, t)
  BY <1>1, <1>2, TuplesArePieces
<1> QED
  BY <1>3, FetchIsPiece, PiecesFollow, PieceIsSound DEF UserLogin

LEMMA GroupListIsSound ==
  ASSUME NEW r \in Requests
  PROVE  Sound(r, GroupList)
<1>1. Piece(r, <<Look(Group, {}, FALSE, 0)>>)
  BY Singles, TuplesArePieces
<1> QED
  BY <1>1, FetchIsPiece, PiecesFollow, PieceIsSound DEF GroupList

LEMMA GroupFileListIsSound ==
  ASSUME NEW r \in Requests, NEW g
  PROVE  Sound(r, GroupFileList(g))
<1>1. Single(r, HasGroup(g)) /\ Single(r, ReadLocked)
  BY Singles DEF HasGroup
<1>2. Piece(r, <<HasGroup(g), ReadLocked>>)
  BY <1>1, TuplesArePieces
<1> QED
  BY <1>2, FetchIsPiece, PiecesFollow, PieceIsSound DEF GroupFileList

LEMMA SendSHAIsSound ==
  ASSUME NEW r \in Requests, NEW g \in Groups, NEW n \in Names, NEW u \in Users
  PROVE  Sound(r, SendSHA(g, n, u))
<1>1. /\ Single(r, HasGroup(g)) /\ Single(r, FetchGroupMembers(g))
      /\ Single(r, Has(GroupMembers, <<u>>)) /\ Single(r, Sync(Downloading(u)))
  BY Singles DEF Has, HasGroup
<1>2. Single(r, Append1(Downloading(u), <<g, n>>))
  BY SingleWrites, FileLines, FileNames DEF Cached
<1>3. Piece(r, <<HasGroup(g), FetchGroupMembers(g), Has(GroupMembers, <<u>>),
                 Append1(Downloading(u), <<g, n>>), Sync(Downloading(u))>>)
  BY <1>1, <1>2, TuplesArePieces
<1> QED
  BY <1>3, FetchIsPiece, PiecesFollow, PieceIsSound DEF SendSHA

LEMMA GetFullPathIsSound ==
  ASSUME NEW r \in Requests, NEW g, NEW n, NEW u
  PROVE  Sound(r, GetFullPath(g, n, u))
<1>1. Piece(r, <<Seek(UserFiles(u), {<<g, n>>}, TRUE, 0)>>)
  BY Singles, TuplesArePieces
<1> QED
  BY <1>1, PieceIsSound DEF GetFullPath

LEMMA GroupFileUploadIsSound ==
  ASSUME NEW r \in Requests, NEW g \in Groups, NEW n \in Names, NEW u \in Users
  PROVE  Sound(r, GroupFileUpload(g, u, n))
<1> DEFINE w == Write({}, {<<FilesOf(g), <<u, n>>>>, <<UserFiles(u), <<g, n>>>>}, {})
<1>1. Piece(r, <<HasGroup(g), FetchGroupMembers(g), Has(GroupMembers, <<u>>)>>)
  <2>1. /\ Single(r, HasGroup(g)) /\ Single(r, FetchGroupMembers(g))
        /\ Single(r, Has(GroupMembers, <<u>>))
    BY Singles DEF Has, HasGroup
  <2> QED
    BY <2>1, TuplesArePieces
<1>2. Piece(r, CheckGroupFiles(FilesOf(g), <<u, n>>))
  <2> DEFINE s == CheckGroupFiles(FilesOf(g), <<u, n>>)
  <2>1. s \in Seq({s[i] : i \in DOMAIN s}) /\ Len(s) > 0
    BY DEF CheckGroupFiles
  <2>2. \A i \in DOMAIN s : Single(r, s[i])
    BY Singles
  <2> HIDE DEF s
  <2>3. Piece(r, s)
    BY <2>1, <2>2, SinglesArePiece
  <2> QED
    BY <2>3 DEF s
<1>3. Single(r, w)
  <2>1. \A a \in {<<FilesOf(g), <<u, n>>>>, <<UserFiles(u), <<g, n>>>>} :
          a[1] \in Files \ Cached /\ a[2] \in LinesOf(a[1])
    BY FileLines, FileNames
  <2> QED
    BY <2>1 DEF Single, Permitted, Targets, Write, Cached
<1>4. Piece(r, <<ReadLocked, ReadLocked, w, Sync(FilesOf(g)), Sync(UserFiles(u))>>)
  <2>1. Single(r, ReadLocked) /\ Single(r, Sync(FilesOf(g))) /\ Single(r, Sync(UserFiles(u)))
    BY Singles
  <2> HIDE DEF w
  <2> QED
    BY <2>1, <1>3, TuplesArePieces
<1> QED
  BY <1>1, <1>2, <1>4, PiecesFollow, PieceIsSound DEF GroupFileUpload

LEMMA GroupStopShareIsSound ==
  ASSUME NEW r \in Requests, NEW g \in Groups, NEW n \in Names, NEW u \in Users,
         r.cmd = "stop_share", r.user = u, r.group = g, r.name = n
  PROVE  Sound(r, GroupStopShare(g, n, u))
<1> DEFINE a == <<HasGroup(g), Has(Credential, <<u>>), FetchGroupMembers(g), Has(GroupMembers, <<u>>)>>
           b == Rewrite(FilesOf(g), {<<u, n>>}, FALSE, TRUE, FALSE)
           c == Rewrite(UserFiles(u), {<<g, n>>}, FALSE, FALSE, TRUE)
           d == <<Sync(FilesOf(g)), Sync(UserFiles(u))>>
<1>1. Piece(r, a)
  <2>1. /\ Single(r, HasGroup(g)) /\ Single(r, FetchGroupMembers(g))
        /\ Single(r, Has(GroupMembers, <<u>>)) /\ Single(r, Has(Credential, <<u>>))
    BY Singles DEF Has, HasGroup
  <2> QED
    BY <2>1, TuplesArePieces
<1>2. Piece(r, b \o c)
  <2>1. FilesOf(g) \in Files \ {Credential, Group} /\ UserFiles(u) \in Files \ {Credential, Group}
    BY FileNames DEF Cached
  <2>2. Removes(r, FilesOf(g), <<u, n>>) /\ Removes(r, UserFiles(u), <<g, n>>)
    BY DEF Removes
  <2> QED
    BY <2>1, <2>2, StopShareIsPiece
<1>3. Piece(r, d)
  BY Singles, TuplesArePieces
<1>4. (a \o b) \o c = a \o (b \o c)
  <2>1. ASSUME NEW x, NEW y, NEW z, NEW t, t = <<x, y, z>>
        PROVE  t \in Seq({t[i] : i \in DOMAIN t})
    <3>1. t \in Seq({x, y, z})
      BY <2>1
    <3> QED
      BY <3>1, OwnRange
  <2>2. (\E x, y, z : b = <<x, y, z>>) /\ (\E x, y, z : c = <<x, y, z>>)
    BY Zenon DEF Rewrite
  <2>3. a \in Seq({a[i] : i \in DOMAIN a})
    BY <1>1 DEF Piece, Sound
  <2> HIDE DEF a, b, c
  <2>4. b \in Seq({b[i] : i \in DOMAIN b}) /\ c \in Seq({c[i] : i \in DOMAIN c})
    BY <2>1, <2>2
  <2> QED
    BY <2>3, <2>4, Regrouped
<1>5. GroupStopShare(g, n, u) = (a \o (b \o c)) \o d
  BY <1>4 DEF GroupStopShare
<1> HIDE DEF a, b, c, d
<1> QED
  BY <1>1, <1>2, <1>3, <1>5, PiecesFollow, PieceIsSound

LEMMA GroupLeaveIsSound ==
  ASSUME NEW r \in Requests, NEW g \in Groups, NEW u \in Users,
         r.cmd = "leave_group", r.user = u, r.group = g
  PROVE  Sound(r, GroupLeave(g, u))
<1>1. Piece(r, <<Find(g), FetchGroupMembers(g), Has(GroupMembers, <<u>>), OwnerIs(u, FALSE)>>)
  <2>1. /\ Single(r, Find(g)) /\ Single(r, FetchGroupMembers(g))
        /\ Single(r, Has(GroupMembers, <<u>>)) /\ Single(r, OwnerIs(u, FALSE))
    BY Singles DEF Has
  <2> QED
    BY <2>1, TuplesArePieces
<1>2. {MembersOf(g), FilesOf(g), UserFiles(u)} \subseteq Files \ {Credential, Group}
  BY FileNames DEF Cached
<1>3. /\ \A line \in {<<u>>} : Removes(r, MembersOf(g), line)
      /\ \A line \in {u} \X Names : Removes(r, FilesOf(g), line)
      /\ \A line \in {g} \X Names : Removes(r, UserFiles(u), line)
  BY DEF Removes
<1>4. /\ Piece(r, DeleteLine(MembersOf(g), {<<u>>}))
      /\ Piece(r, DeleteLine(FilesOf(g), {u} \X Names))
      /\ Piece(r, DeleteLine(UserFiles(u), {g} \X Names))
  BY <1>2, <1>3, DeletesArePiece
<1>5. Piece(r, <<Sync(MembersOf(g)), Sync(FilesOf(g)), Sync(UserFiles(u))>>)
  BY Singles, TuplesArePieces
<1> QED
  BY <1>1, <1>4, <1>5, FetchIsPiece, PiecesFollow, PieceIsSound DEF GroupLeave

LEMMA CompleteDownloadIsSound ==
  ASSUME NEW r \in Requests, NEW g \in Groups, NEW n \in Names, NEW u \in Users,
         r.cmd = "complete", r.user = u, r.group = g, r.name = n
  PROVE  Sound(r, CompleteDownload(g, n, u))
<1>1. Downloading(u) \in Files \ {Credential, Group} /\ Removes(r, Downloading(u), <<g, n>>)
  BY FileNames DEF Cached, Removes
<1>2. Piece(r, DeleteLine(Downloading(u), {<<g, n>>}))
  BY <1>1, DeletesArePiece
<1>3. Single(r, AppendUnlocked(Downloaded(u), <<g, n>>))
  BY SingleWrites, FileLines, FileNames
<1>4. Piece(r, <<AppendUnlocked(Downloaded(u), <<g, n>>), Sync(Downloaded(u)), Sync(Downloading(u))>>)
  BY <1>3, Singles, TuplesArePieces
<1> QED
  BY <1>2, <1>4, FetchIsPiece, PiecesFollow, PieceIsSound DEF CompleteDownload

LEMMA LogoutIsSound ==
  ASSUME NEW r \in Requests, NEW u \in Users, r.cmd = "logout", r.user = u
  PROVE  Sound(r, Logout(u))
<1>1. Online \in Files \ {Credential, Group} /\ Removes(r, Online, <<u>>)
  BY FileNames DEF Removes
<1>2. Piece(r, DeleteLine(Online, {<<u>>}))
  BY <1>1, DeletesArePiece
<1>3. Piece(r, <<Has(Online, <<u>>)>>) /\ Piece(r, <<Sync(Online)>>)
  BY Singles, TuplesArePieces DEF Has
<1> QED
  BY <1>2, <1>3, FetchIsPiece, PiecesFollow, PieceIsSound DEF Logout

LEMMA GroupAcceptRequestIsSound ==
  ASSUME NEW r \in Requests, NEW g \in Groups, NEW v \in Users, NEW u \in Users,
         r.cmd = "accept_request", r.who = v, r.group = g
  PROVE  Sound(r, GroupAcceptRequest(g, v, u))
<1> DEFINE a == Find(g)
           b == Has(Credential, <<v>>)
           c == Has(Pending, <<v, g>>)
           d == OwnerIs(u, TRUE)
           e == FetchGroupMembers(g)
           h == HasNot(GroupMembers, <<v>>)
           w == Append1(MembersOf(g), <<v>>)
           s == <<a, b, c, d, e, h, w>>
<1>1. /\ Single(r, a) /\ Single(r, b) /\ Single(r, c) /\ Single(r, d) /\ Single(r, e)
      /\ Single(r, h)
  BY Singles DEF Has, HasNot
<1>2. Single(r, w)
  BY SingleWrites, FileLines, FileNames DEF Cached
<1>3. Piece(r, s)
  <2> HIDE DEF a, b, c, d, e, h, w
  <2>1. s \in Seq({a, b, c, d, e, h, w}) /\ Len(s) > 0
    OBVIOUS
  <2> HIDE DEF s
  <2> QED
    BY <2>1, <1>1, <1>2, SinglesOf
<1>4. Pending \in Files \ {Credential, Group} /\ Removes(r, Pending, <<v, g>>)
  BY FileNames DEF Removes
<1>5. Piece(r, DeleteLine(Pending, {<<v, g>>}))
  BY <1>4, DeletesArePiece
<1>6. Piece(r, <<Sync(Pending), Sync(MembersOf(g))>>)
  BY Singles, TuplesArePieces
<1> QED
  BY <1>3, <1>5, <1>6, PiecesFollow, PieceIsSound DEF GroupAcceptRequest

LEMMA UserCreateIsSound ==
  ASSUME NEW r \in Requests, NEW u \in Users, r.cmd = "create_user", r.user = u
  PROVE  Sound(r, UserCreate(u))
<1> DEFINE a == HasNot(Credential, <<u>>)
           w == Write({UserFiles(u), Downloading(u), Downloaded(u)},
                      {<<Online, <<u>>>>, <<Credential, <<u>>>>}, {<<Online, <<u>>>>})
           b == Sync(Online)
           c == Sync(Credential)
           d == Sync(UserFiles(u))
           e == Sync(Downloading(u))
           h == Sync(Downloaded(u))
           s == <<b, c, d, e, h>>
           q == <<a, w, b, c, d, e, h>>
           f == FetchDetails
<1>1. Single(r, a)
  BY Singles DEF HasNot
<1>2. Permitted(r, w) /\ w.op = "write" /\ \A x \in w.append : x[1] # Pending
  <2>1. /\ \A x \in {<<Online, <<u>>>>, <<Credential, <<u>>>>} :
             x[1] \in Files /\ x[1] # Pending /\ x[2] \in LinesOf(x[1])
        /\ <<u>> \in LinesOf(Online)
    BY FileLines, FileNames
  <2>2. \A x \in {UserFiles(u), Downloading(u), Downloaded(u)} : StartsAfresh(r, x)
    BY DEF StartsAfresh
  <2> QED
    BY <2>1, <2>2 DEF Permitted, Write
<1>3. \A x \in {b, c, d, e, h} : x.op = "sync" /\ Single(r, x)
  BY Singles DEF Sync
<1> HIDE DEF a, w, b, c, d, e, h
<1>4. s \in Seq({b, c, d, e, h}) /\ Len(s) > 0 /\ \A n \in DOMAIN s : s[n] \in {b, c, d, e, h}
  OBVIOUS
<1>5. <<a, w>> \o s = q
  <2> DEFINE S == {a, w, b, c, d, e, h}
             p == <<a, w>> \o s
  <2>1. q \in Seq(S) /\ Len(q) = 7 /\ p \in Seq(S) /\ Len(p) = 7
    OBVIOUS
  <2>2. \A i \in 1..7 : p[i] = q[i]
    OBVIOUS
  <2> HIDE DEF S, p, q
  <2>3. p = q
    BY <2>1, <2>2, SeqEqual
  <2> QED
    BY <2>3 DEF p
<1>6. s \in Seq({s[i] : i \in DOMAIN s}) /\ q \in Seq({q[i] : i \in DOMAIN q})
  <2>1. q \in Seq({a, w, b, c, d, e, h})
    OBVIOUS
  <2> QED
    BY <1>4, <2>1, OwnRange
<1>7. f \in Seq({f[i] : i \in DOMAIN f})
  BY FetchIsPiece DEF Piece, Sound
<1>8. UserCreate(u) = (f \o q) \o f
  BY Zenon DEF UserCreate, a, w, b, c, d, e, h
<1> HIDE DEF s, q, f
<1>9. Piece(r, (<<a, w>> \o s) \o FetchDetails)
  BY <1>1, <1>2, <1>3, <1>4, <1>6, AdditionIsPiece
<1>10. Piece(r, q \o f)
  BY <1>5, <1>9 DEF f
<1>11. Piece(r, f \o (q \o f))
  BY <1>10, FetchIsPiece, PiecesFollow DEF f
<1>12. (f \o q) \o f = f \o (q \o f)
  BY <1>6, <1>7, Regrouped
<1> QED
  BY <1>8, <1>11, <1>12, PieceIsSound

LEMMA GroupCreateIsSound ==
  ASSUME NEW r \in Requests, NEW g \in Groups, NEW u \in Users,
         r.cmd = "create_group", r.group = g
  PROVE  Sound(r, GroupCreate(g, u))
<1> DEFINE a == HasNoGroup(g)
           w == Write({MembersOf(g), FilesOf(g)},
                      {<<Group, <<g, u>>>>, <<MembersOf(g), <<u>>>>}, {})
           b == Sync(Group)
           c == Sync(MembersOf(g))
           d == Sync(FilesOf(g))
           s == <<b, c, d>>
           q == <<a, w, b, c, d>>
           f == FetchDetails
<1>1. Single(r, a)
  BY Singles DEF HasNoGroup
<1>2. Permitted(r, w) /\ w.op = "write" /\ \A x \in w.append : x[1] # Pending
  <2>1. \A x \in {<<Group, <<g, u>>>>, <<MembersOf(g), <<u>>>>} :
          x[1] \in Files /\ x[1] # Pending /\ x[2] \in LinesOf(x[1])
    <3>1. /\ Group \in Files /\ Group # Pending /\ <<g, u>> \in LinesOf(Group)
          /\ <<u>> \in LinesOf(MembersOf(g))
      BY FileLines, FileNames
    <3>2. MembersOf(g) \in Files /\ MembersOf(g) # Pending
      BY FileNames DEF Cached
    <3> QED
      BY <3>1, <3>2
  <2>2. \A x \in {MembersOf(g), FilesOf(g)} : StartsAfresh(r, x)
    BY DEF StartsAfresh
  <2> QED
    BY <2>1, <2>2 DEF Permitted, Write
<1>3. \A x \in {b, c, d} : x.op = "sync" /\ Single(r, x)
  BY Singles DEF Sync
<1> HIDE DEF a, w, b, c, d
<1>4. s \in Seq({b, c, d}) /\ Len(s) > 0 /\ \A n \in DOMAIN s : s[n] \in {b, c, d}
  OBVIOUS
<1>5. <<a, w>> \o s = q
  <2> DEFINE S == {a, w, b, c, d}
             p == <<a, w>> \o s
  <2>1. q \in Seq(S) /\ Len(q) = 5 /\ p \in Seq(S) /\ Len(p) = 5
    OBVIOUS
  <2>2. \A i \in 1..5 : p[i] = q[i]
    OBVIOUS
  <2> HIDE DEF S, p, q
  <2>3. p = q
    BY <2>1, <2>2, SeqEqual
  <2> QED
    BY <2>3 DEF p
<1>6. s \in Seq({s[i] : i \in DOMAIN s}) /\ q \in Seq({q[i] : i \in DOMAIN q})
  <2>1. q \in Seq({a, w, b, c, d})
    OBVIOUS
  <2> QED
    BY <1>4, <2>1, OwnRange
<1>7. f \in Seq({f[i] : i \in DOMAIN f})
  BY FetchIsPiece DEF Piece, Sound
<1>8. GroupCreate(g, u) = (f \o q) \o f
  BY Zenon DEF GroupCreate, a, w, b, c, d
<1> HIDE DEF s, q, f
<1>9. Piece(r, (<<a, w>> \o s) \o FetchDetails)
  BY <1>1, <1>2, <1>3, <1>4, <1>6, AdditionIsPiece
<1>10. Piece(r, q \o f)
  BY <1>5, <1>9 DEF f
<1>11. Piece(r, f \o (q \o f))
  BY <1>10, FetchIsPiece, PiecesFollow DEF f
<1>12. (f \o q) \o f = f \o (q \o f)
  BY <1>6, <1>7, Regrouped
<1> QED
  BY <1>8, <1>11, <1>12, PieceIsSound

LEMMA GroupJoinIsSound ==
  ASSUME NEW r \in Requests, NEW g \in Groups, NEW u \in Users
  PROVE  Sound(r, GroupJoin(g, u))
<1> DEFINE l == <<Pending, <<u, g>>>>
           a == Find(g)
           b == FetchGroupMembers(g)
           c == HasNot(GroupMembers, <<u>>)
           d == OwnerOnline(8)
           e == Look(Pending, {<<u, g>>}, FALSE, 10)
           f == Write({}, {l}, {l})
           h == Goto(10)
           i == Append1(Pending, <<u, g>>)
           j == Insert(Pending, <<u, g>>)
           k == Sync(Pending)
           s == <<a, b, c, d, e, f, h, i, j, k>>
           S == {a, b, c, d, e, f, h, i, j, k}
           Loose(x) == Permitted(r, x) /\ x.op \notin {"copy", "remove", "rename", "clear", "write"}
<1>1. l[1] = Pending /\ l[1] \in Files /\ l[2] \in LinesOf(Pending) /\ Pending \notin {Credential, Group}
  BY FileLines, FileNames
<1>2. Loose(a) /\ Loose(b) /\ Loose(c) /\ Loose(j) /\ Loose(k)
  <2>1. Single(r, a) /\ Single(r, b) /\ Single(r, c) /\ Single(r, k)
    BY Singles DEF HasNot
  <2>2. Single(r, j)
    BY SingleWrites, FileLines
  <2>3. a.op = "find" /\ b.op = "members" /\ c.op = "look" /\ k.op = "sync"
    BY DEF Find, FetchGroupMembers, HasNot, Look, Sync
  <2>4. j.op = "insert"
    BY DEF Insert, Write
  <2> QED
    BY <2>1, <2>2, <2>3, <2>4 DEF Single
<1>3. Loose(d) /\ Loose(e) /\ Loose(h)
  BY DEF Permitted, OwnerOnline, Look, Goto
<1>4. Permitted(r, f) /\ f.op = "write" /\ f.append = {l} /\ f.insert = {l}
  <2>1. f.op = "write" /\ f.append = {l} /\ f.insert = {l} /\ f.empty = {}
    BY DEF Write
  <2> HIDE DEF f, l
  <2> QED
    BY <1>1, <2>1 DEF Permitted
<1>5. Permitted(r, i) /\ i.op = "write" /\ i.append = {l}
  <2>1. i.op = "write" /\ i.append = {l} /\ i.insert = {} /\ i.empty = {}
    BY DEF Append1, Write
  <2> HIDE DEF i, l
  <2> QED
    BY <1>1, <2>1 DEF Permitted
<1>6. j.op = "insert" /\ l \in j.insert
  BY DEF Insert, Write
<1>7. GroupJoin(g, u) = s
  BY Zenon DEF GroupJoin
<1> HIDE DEF a, b, c, d, e, f, h, i, j, k, l
<1>8. /\ s \in Seq(S) /\ Len(s) = 10 /\ DOMAIN s = 1..10
      /\ s[1] = a /\ s[2] = b /\ s[3] = c /\ s[4] = d /\ s[5] = e
      /\ s[6] = f /\ s[7] = h /\ s[8] = i /\ s[9] = j /\ s[10] = k
  OBVIOUS
<1> HIDE DEF s, S
<1>9. ASSUME NEW n \in DOMAIN s
      PROVE  \/ Loose(s[n])
             \/ n = 6 /\ s[n] = f
             \/ n = 8 /\ s[n] = i /\ s[n + 1] = j /\ n + 1 \in DOMAIN s
  <2>1. n \in 1..10
    BY <1>8
  <2>2. n = 1 \/ n = 2 \/ n = 3 \/ n = 4 \/ n = 5 \/ n = 6 \/ n = 7 \/ n = 8 \/ n = 9 \/ n = 10
    BY <2>1
  <2>3. 8 + 1 = 9 /\ 9 \in DOMAIN s
    BY <1>8
  <2> HIDE DEF Loose
  <2> QED
    BY <1>2, <1>3, <1>8, <2>2, <2>3
<1>10. ASSUME NEW n \in DOMAIN s
       PROVE  /\ Permitted(r, s[n]) /\ s[n].op \notin {"copy", "remove", "rename", "clear"}
              /\ s[n].op = "write" => \A x \in s[n].append :
                /\ x[1] \notin {Credential, Group}
                /\ x[1] = Pending => \/ x \in s[n].insert
                                     \/ /\ n + 1 \in DOMAIN s /\ s[n + 1].op = "insert"
                                        /\ x \in s[n + 1].insert
  BY <1>1, <1>4, <1>5, <1>6, <1>9
<1>11. s \in Seq(S) /\ Len(s) > 0
  BY <1>8
<1>12. \A n \in DOMAIN s :
         /\ Permitted(r, s[n]) /\ s[n].op \notin {"copy", "remove", "rename"}
         /\ s[n].op = "clear" => n + 1 \in DOMAIN s /\ s[n + 1].op = "load"
         /\ s[n].op = "write" => \A x \in s[n].append :
              /\ x[1] \notin {Credential, Group}
              /\ x[1] = Pending => \/ x \in s[n].insert
                                   \/ /\ n + 1 \in DOMAIN s /\ s[n + 1].op = "insert"
                                      /\ x \in s[n + 1].insert
  BY <1>10
<1>13. Sound(r, s)
  BY <1>11, <1>12, NoRewriteIsSound
<1> QED
  BY <1>7, <1>13

LEMMA UpdateDownloadIsSound ==
  ASSUME NEW r \in Requests, NEW g \in Groups, NEW n \in Names, NEW u \in Users
  PROVE  Sound(r, UpdateDownload(g, n, u))
<1> DEFINE a == Seek(UserFiles(u), Groups \X {n}, FALSE, 9)
           b == AppendUnlocked(UserFiles(u), <<g, n>>)
           c == AppendUnlocked(FilesOf(g), <<u, n>>)
           d == Sync(FilesOf(g))
           e == Sync(UserFiles(u))
           f == Goto(0)
           h == Unlock
           t == <<a, b, c, d, e, f, h>>
           s == <<Clear, Load>> \o t
           S == {Clear, Load, a, b, c, d, e, f, h}
           Loose(x) == Permitted(r, x) /\ x.op \notin {"copy", "remove", "rename", "clear", "write"}
<1>1. Loose(a) /\ Loose(f)
  BY DEF Permitted, Seek, Look, Goto
<1>2. Loose(b) /\ Loose(c)
  <2>1. Single(r, b) /\ Single(r, c)
    BY SingleWrites, FileLines, FileNames
  <2>2. b.op = "append" /\ c.op = "append"
    BY DEF AppendUnlocked, Append1, Write
  <2> QED
    BY <2>1, <2>2 DEF Single
<1>3. Loose(d) /\ Loose(e) /\ Loose(h) /\ Loose(Load)
  <2>1. Single(r, d) /\ Single(r, e) /\ Single(r, h) /\ Single(r, Load)
    BY Singles
  <2>2. d.op = "sync" /\ e.op = "sync" /\ h.op = "unlock" /\ Load.op = "load"
    BY DEF Sync, Unlock, Load
  <2> QED
    BY <2>1, <2>2 DEF Single
<1>4. Permitted(r, Clear) /\ Clear.op = "clear" /\ Load.op = "load"
  BY DEF Permitted, Clear, Load
<1>5. UpdateDownload(g, n, u) = s
  BY Zenon DEF UpdateDownload, FetchDetails
<1> HIDE DEF a, b, c, d, e, f, h
<1>6. /\ s \in Seq(S) /\ Len(s) = 9 /\ DOMAIN s = 1..9
      /\ s[1] = Clear /\ s[2] = Load /\ s[3] = a /\ s[4] = b /\ s[5] = c /\ s[6] = d
      /\ s[7] = e /\ s[8] = f /\ s[9] = h
  OBVIOUS
<1> HIDE DEF s, S
<1>7. ASSUME NEW i \in DOMAIN s
      PROVE  \/ Loose(s[i])
             \/ i = 1 /\ s[i] = Clear /\ i + 1 \in DOMAIN s /\ s[i + 1] = Load
  <2>1. i \in 1..9
    BY <1>6
  <2>2. i = 1 \/ i = 2 \/ i = 3 \/ i = 4 \/ i = 5 \/ i = 6 \/ i = 7 \/ i = 8 \/ i = 9
    BY <2>1
  <2>3. 1 + 1 = 2 /\ 2 \in DOMAIN s
    BY <1>6
  <2> HIDE DEF Loose
  <2> QED
    BY <1>1, <1>2, <1>3, <1>6, <2>2, <2>3
<1>8. ASSUME NEW i \in DOMAIN s
      PROVE  /\ Permitted(r, s[i]) /\ s[i].op \notin {"copy", "remove", "rename", "write"}
             /\ s[i].op = "clear" => i + 1 \in DOMAIN s /\ s[i + 1].op = "load"
  BY <1>4, <1>7
<1>9. s \in Seq(S) /\ Len(s) > 0
  BY <1>6
<1>10. \A i \in DOMAIN s :
         /\ Permitted(r, s[i]) /\ s[i].op \notin {"copy", "remove", "rename"}
         /\ s[i].op = "clear" => i + 1 \in DOMAIN s /\ s[i + 1].op = "load"
         /\ s[i].op = "write" => \A x \in s[i].append :
              /\ x[1] \notin {Credential, Group}
              /\ x[1] = Pending => \/ x \in s[i].insert
                                   \/ /\ i + 1 \in DOMAIN s /\ s[i + 1].op = "insert"
                                      /\ x \in s[i + 1].insert
  BY <1>8
<1>11. Sound(r, s)
  BY <1>9, <1>10, NoRewriteIsSound
<1> QED
  BY <1>5, <1>11

\* Every handler is sound.
LEMMA HandlersAreSound == \A r \in Requests : Sound(r, Program[r])
<1> SUFFICES ASSUME NEW r \in Requests PROVE Sound(r, Handler(r))
  BY DEF Program
<1>1. /\ r.user \in Users /\ r.group \in Groups /\ r.name \in Names /\ r.who \in Users
      /\ r.cmd \in {"login", "create_user", "create_group", "list_groups", "list_files",
                    "join_group", "accept_request", "upload_file", "stop_share",
                    "leave_group", "give_sha", "add_file", "complete", "logout",
                    "send_full_path"}
  BY RequestsAssumption DEF Request
<1>2. CASE r.cmd \in {"login", "create_user", "create_group", "list_groups", "list_files"}
  BY <1>1, <1>2, UserLoginIsSound, UserCreateIsSound, GroupCreateIsSound, GroupListIsSound,
     GroupFileListIsSound DEF Handler
<1>3. CASE r.cmd \in {"join_group", "accept_request", "upload_file", "stop_share", "leave_group"}
  BY <1>1, <1>3, GroupJoinIsSound, GroupAcceptRequestIsSound, GroupFileUploadIsSound,
     GroupStopShareIsSound, GroupLeaveIsSound DEF Handler
<1>4. CASE r.cmd \in {"give_sha", "add_file", "complete", "logout", "send_full_path"}
  BY <1>1, <1>4, SendSHAIsSound, UpdateDownloadIsSound, CompleteDownloadIsSound,
     LogoutIsSound, GetFullPathIsSound DEF Handler
<1> QED
  BY <1>1, <1>2, <1>3, <1>4

----------------------------------------------------------------------------
(* Where a thread is, and where it goes.                                   *)

LEMMA Positions ==
  ASSUME NEW r \in Requests
  PROVE  /\ DOMAIN Program[r] \subseteq Nat \ {0}
         /\ \A m \in DOMAIN Program[r] : 1..m \subseteq DOMAIN Program[r]
         /\ 1 \in DOMAIN Program[r] /\ Entry(Program[r][1])
         /\ \A n \in DOMAIN Program[r] :
              /\ Permitted(r, Program[r][n])
              /\ Followed(Program[r], n)
              /\ \A m \in Targets(Program[r][n]) \cap DOMAIN Program[r] : Entry(Program[r][m])
<1> DEFINE s == Program[r]
<1>1. Sound(r, s)
  BY HandlersAreSound
<1> HIDE DEF s
<1>2. s \in Seq({s[i] : i \in DOMAIN s}) /\ Len(s) > 0
  BY <1>1 DEF Sound
<1>3. DOMAIN s = 1..Len(s) /\ Len(s) \in Nat
  BY <1>2
<1>4. /\ DOMAIN s \subseteq Nat \ {0} /\ 1 \in DOMAIN s
      /\ \A m \in DOMAIN s : 1..m \subseteq DOMAIN s
  BY <1>2, <1>3
<1> QED
  BY <1>1, <1>4 DEF Sound, s

\* What is known of a thread at work.
LEMMA AtWork ==
  ASSUME Typed, NEW k \in Threads, Busy(k)
  PROVE  /\ thread[k] \in Thread /\ thread[k].req \in Requests
         /\ thread[k].pc \in DOMAIN Program[thread[k].req]
         /\ thread[k].pc \in Nat \ {0}
         /\ Step(k) = Program[thread[k].req][thread[k].pc]
         /\ Permitted(thread[k].req, Step(k))
         /\ Followed(Program[thread[k].req], thread[k].pc)
         /\ \A m \in Targets(Step(k)) \cap DOMAIN Program[thread[k].req] :
              Entry(Program[thread[k].req][m])
<1>1. thread[k] \in Thread /\ thread[k].req \in Requests
      /\ thread[k].pc \in DOMAIN Program[thread[k].req]
  BY DEF Typed, Placing, Placed, Thread, Busy
<1>2. PICK r \in Requests : r = thread[k].req
  BY <1>1
<1>3. PICK n \in DOMAIN Program[r] : n = thread[k].pc
  BY <1>1, <1>2
<1>4. Step(k) = Program[r][n]
  BY <1>2, <1>3 DEF Step
<1>5. /\ n \in Nat \ {0} /\ Permitted(r, Program[r][n]) /\ Followed(Program[r], n)
      /\ \A m \in Targets(Program[r][n]) \cap DOMAIN Program[r] : Entry(Program[r][m])
  BY Positions
<1>6. /\ Permitted(r, Step(k)) /\ Followed(Program[r], n)
      /\ \A m \in Targets(Step(k)) \cap DOMAIN Program[r] : Entry(Program[r][m])
  BY <1>4, <1>5, Zenon
<1>7. thread[k].pc \in Nat \ {0} /\ Step(k) = Program[thread[k].req][thread[k].pc]
  BY <1>2, <1>3, <1>4, <1>5
<1>8. /\ Permitted(thread[k].req, Step(k))
      /\ Followed(Program[thread[k].req], thread[k].pc)
      /\ \A m \in Targets(Step(k)) \cap DOMAIN Program[thread[k].req] :
           Entry(Program[thread[k].req][m])
  BY <1>2, <1>3, <1>6
<1> QED
  BY <1>1, <1>7, <1>8

LEMMA FreeIsPlaced == Placed(Free) /\ Free.req = None
<1>1. Free \in Thread /\ Free.req = None
  BY DEF Free, Thread
<1> QED
  BY <1>1 DEF Placed

\* Where Jump takes a thread.
LEMMA Jumping ==
  ASSUME NEW t \in Thread, t.req \in Requests, NEW n
  PROVE  /\ Placed(Jump(t, n))
         /\ \/ Jump(t, n) = Free
            \/ /\ n \in DOMAIN Program[t.req]
               /\ Jump(t, n).req = t.req /\ Jump(t, n).pc = n
<1>1. CASE n \in DOMAIN Program[t.req]
  <2>1. Jump(t, n) = [t EXCEPT !.pc = n] /\ n \in Nat
    BY <1>1, Positions DEF Jump
  <2>2. [t EXCEPT !.pc = n] \in Thread
    BY <2>1 DEF Thread
  <2>3. [t EXCEPT !.pc = n].req = t.req /\ [t EXCEPT !.pc = n].pc = n
    BY DEF Thread
  <2>4. t.req # None
    BY NoneAssumption
  <2> QED
    BY <1>1, <2>1, <2>2, <2>3, <2>4 DEF Placed
<1>2. CASE n \notin DOMAIN Program[t.req]
  BY <1>2, FreeIsPlaced DEF Jump
<1> QED
  BY <1>1, <1>2

\* Thread k goes to its step m, if there is such a step; the others stay.
Stays(j) == thread'[j].req = thread[j].req /\ thread'[j].pc = thread[j].pc
Lands(k, m) ==
  IF m \in DOMAIN Program[thread[k].req]
  THEN thread'[k].req = thread[k].req /\ thread'[k].pc = m
  ELSE thread'[k] = Free
Moves(k, m) == Placing' /\ Lands(k, m) /\ \A j \in Threads \ {k} : Stays(j)

LEMMA OneMoves ==
  ASSUME Typed, NEW k \in Threads, Busy(k), NEW m, NEW t \in Thread, t.req = thread[k].req,
         thread' = [thread EXCEPT ![k] = Jump(t, m)]
  PROVE  Moves(k, m)
<1>1. PICK x : x = Jump(t, m)
  OBVIOUS
<1>2. t.req \in Requests
  BY AtWork
<1>3. Placed(x) /\ x \in Thread
  BY <1>1, <1>2, Jumping DEF Placed
<1>4. IF m \in DOMAIN Program[thread[k].req] THEN x.req = thread[k].req /\ x.pc = m ELSE x = Free
  <2>1. CASE m \in DOMAIN Program[thread[k].req]
    <3>1. x = [t EXCEPT !.pc = m]
      BY <1>1, <2>1 DEF Jump
    <3>2. [t EXCEPT !.pc = m].req = t.req /\ [t EXCEPT !.pc = m].pc = m
      BY DEF Thread
    <3> QED
      BY <2>1, <3>1, <3>2
  <2>2. CASE m \notin DOMAIN Program[thread[k].req]
    BY <2>2, <1>1 DEF Jump
  <2> QED
    BY <2>1, <2>2
<1>5. /\ thread \in [Threads -> Thread] /\ thread' = [thread EXCEPT ![k] = x]
      /\ \A j \in Threads : Placed(thread[j])
  BY <1>1 DEF Typed, Placing
<1>6. thread' \in [Threads -> Thread] /\ thread'[k] = x
      /\ \A j \in Threads \ {k} : thread'[j] = thread[j]
  BY <1>3, <1>5
<1>7. Placing'
  BY <1>3, <1>5, <1>6 DEF Placing
<1> QED
  BY <1>4, <1>6, <1>7 DEF Moves, Lands, Stays

LEMMA Proceeding ==
  ASSUME Typed, NEW k \in Threads, Busy(k), NEW m, Proceed(k, m)
  PROVE  Moves(k, m)
<1>1. thread' = [thread EXCEPT ![k] = Jump(thread[k], m)]
  BY DEF Proceed
<1>2. thread[k] \in Thread
  BY AtWork
<1> QED
  BY <1>1, <1>2, OneMoves

LEMMA Continuing ==
  ASSUME Typed, NEW k \in Threads, Busy(k), Continue(k)
  PROVE  Moves(k, thread[k].pc + 1)
BY Proceeding DEF Continue

\* A move in which other threads lose their iterator or keep an open file.
LEMMA ManyMove ==
  ASSUME Typed, NEW k \in Threads, Busy(k), NEW m,
         thread' \in [Threads -> Thread], thread'[k] = Jump(thread[k], m),
         \A j \in Threads \ {k} :
           /\ Stays(j)
           /\ thread[j].req = None => thread'[j] = thread[j]
  PROVE  Moves(k, m)
<1>1. PICK x : x = Jump(thread[k], m)
  OBVIOUS
<1>2. PICK t \in Thread : t = thread[k]
  BY AtWork
<1>3. Placed(x)
  BY <1>1, <1>2, Jumping, AtWork
<1>4. IF m \in DOMAIN Program[t.req] THEN x.req = t.req /\ x.pc = m ELSE x = Free
  <2>1. CASE m \in DOMAIN Program[t.req]
    <3>1. x = [t EXCEPT !.pc = m]
      BY <1>1, <1>2, <2>1 DEF Jump
    <3>2. [t EXCEPT !.pc = m].req = t.req /\ [t EXCEPT !.pc = m].pc = m
      BY DEF Thread
    <3> QED
      BY <2>1, <3>1, <3>2
  <2>2. CASE m \notin DOMAIN Program[t.req]
    BY <2>2, <1>1, <1>2 DEF Jump
  <2> QED
    BY <2>1, <2>2
<1>5. Lands(k, m)
  BY <1>1, <1>2, <1>4 DEF Lands
<1>6. ASSUME NEW j \in Threads, j # k PROVE Placed(thread'[j])
  <2>1. Placed(thread[j]) /\ Stays(j) /\ (thread[j].req = None => thread'[j] = thread[j])
    BY <1>6 DEF Typed, Placing
  <2> QED
    BY <2>1 DEF Stays, Placed
<1>7. Placing'
  BY <1>1, <1>3, <1>6 DEF Placing
<1> QED
  BY <1>5, <1>7 DEF Moves

----------------------------------------------------------------------------
(* Where each step takes its thread.                                       *)

LEMMA ClearMoves ==
  ASSUME Typed, NEW k \in Threads, ClearMaps(k)
  PROVE  Moves(k, thread[k].pc + 1)
<1>1. Busy(k) /\ thread \in [Threads -> Thread]
  BY DEF ClearMaps, At, Typed, Placing
<1>2. PICK x : x = Jump(thread[k], thread[k].pc + 1)
  OBVIOUS
<1>3. x \in Thread
  BY <1>1, <1>2, AtWork, Jumping DEF Placed
<1>4. thread' = [j \in Threads |-> IF j = k THEN x ELSE [thread[j] EXCEPT !.iter = None]]
  BY <1>2 DEF ClearMaps
<1>5. ASSUME NEW t \in Thread
      PROVE  /\ [t EXCEPT !.iter = None] \in Thread
             /\ [t EXCEPT !.iter = None].req = t.req /\ [t EXCEPT !.iter = None].pc = t.pc
             /\ t = Free => [t EXCEPT !.iter = None] = t
  BY DEF Thread, Free
<1>6. thread' \in [Threads -> Thread] /\ thread'[k] = x
  BY <1>1, <1>3, <1>4, <1>5
<1>7. ASSUME NEW j \in Threads \ {k}
      PROVE  Stays(j) /\ (thread[j].req = None => thread'[j] = thread[j])
  <2>1. PICK t \in Thread : t = thread[j]
    BY <1>1
  <2>2. thread'[j] = [t EXCEPT !.iter = None]
    BY <1>4, <2>1
  <2>3. thread[j].req = None => t = Free
    BY <2>1 DEF Typed, Placing, Placed
  <2> QED
    BY <1>5, <2>1, <2>2, <2>3 DEF Stays
<1> QED
  BY <1>1, <1>2, <1>6, <1>7, ManyMove

LEMMA RemoveMoves ==
  ASSUME Typed, NEW k \in Threads, RemoveFile(k)
  PROVE  Moves(k, thread[k].pc + 1)
<1>1. Busy(k) /\ thread \in [Threads -> Thread]
  BY DEF RemoveFile, At, Typed, Placing
<1>2. PICK x : x = Jump(thread[k], thread[k].pc + 1)
  OBVIOUS
<1>3. x \in Thread
  BY <1>1, <1>2, AtWork, Jumping DEF Placed
<1>4. PICK v : v = Read(Step(k).file)
  OBVIOUS
<1>5. v \in SUBSET Lines
  <2>1. PICK f : f = Step(k).file
    OBVIOUS
  <2>2. f \in Files
    BY <1>1, <2>1, AtWork DEF RemoveFile, At, Permitted
  <2> QED
    BY <1>4, <2>1, <2>2 DEF Typed, Data, Read
<1>6. thread' = [j \in Threads |->
                   IF j = k THEN x
                   ELSE IF At(j, "absent") /\ Step(j).file = Step(k).file /\ thread[j].view = None
                   THEN [thread[j] EXCEPT !.view = v]
                   ELSE thread[j]]
  BY <1>2, <1>4 DEF RemoveFile
<1>7. ASSUME NEW t \in Thread
      PROVE  /\ [t EXCEPT !.view = v] \in Thread
             /\ [t EXCEPT !.view = v].req = t.req /\ [t EXCEPT !.view = v].pc = t.pc
  BY <1>5 DEF Thread
<1>8. thread' \in [Threads -> Thread] /\ thread'[k] = x
  BY <1>1, <1>3, <1>6, <1>7
<1>9. ASSUME NEW j \in Threads \ {k}
      PROVE  Stays(j) /\ (thread[j].req = None => thread'[j] = thread[j])
  <2>1. PICK t \in Thread : t = thread[j]
    BY <1>1
  <2>2. thread'[j] = t \/ (At(j, "absent") /\ thread'[j] = [t EXCEPT !.view = v])
    BY <1>6, <2>1
  <2>3. At(j, "absent") => t.req # None
    BY <2>1 DEF At, Busy
  <2> QED
    BY <1>7, <2>1, <2>2, <2>3 DEF Stays
<1> QED
  BY <1>1, <1>2, <1>8, <1>9, ManyMove

LEMMA FindMoves ==
  ASSUME Typed, NEW k \in Threads, FindGroup(k)
  PROVE  Moves(k, 0) \/ Moves(k, thread[k].pc + 1)
<1>1. Busy(k)
  BY DEF FindGroup, At
<1>2. PICK t \in Thread : t = thread[k]
  BY <1>1, AtWork
<1> DEFINE owners == {l[2] : l \in {e \in map[Group] : e[1] = Step(k).group}}
<1>3. owners \subseteq Users
  <2>1. LinesOf(Group) = Groups \X Users
    BY DEF LinesOf, Group
  <2>2. map[Group] \subseteq LinesOf(Group)
    BY DEF Typed, Data
  <2> QED
    BY <2>1, <2>2
<1>4. CASE owners = {}
  BY <1>1, <1>4, Proceeding DEF FindGroup
<1>5. CASE owners # {}
  <2>1. PICK o \in owners : thread' = [thread EXCEPT ![k] = Jump([@ EXCEPT !.iter = o], @.pc + 1)]
    BY <1>5 DEF FindGroup
  <2>2. thread' = [thread EXCEPT ![k] = Jump([t EXCEPT !.iter = o], t.pc + 1)]
    BY <2>1, <1>2 DEF Typed, Placing
  <2>3. [t EXCEPT !.iter = o] \in Thread /\ [t EXCEPT !.iter = o].req = t.req
    BY <1>3 DEF Thread
  <2> QED
    BY <1>1, <1>2, <2>2, <2>3, OneMoves
<1> QED
  BY <1>4, <1>5

LEMMA OpenMoves ==
  ASSUME Typed, NEW k \in Threads, OpenFile(k)
  PROVE  Moves(k, thread[k].pc + 1)
<1>1. Busy(k)
  BY DEF OpenFile, At
<1>2. PICK t \in Thread : t = thread[k]
  BY <1>1, AtWork
<1>3. PICK v \in {{}, None} : thread' = [thread EXCEPT ![k] = Jump([@ EXCEPT !.view = v], @.pc + 1)]
  BY DEF OpenFile
<1>4. thread' = [thread EXCEPT ![k] = Jump([t EXCEPT !.view = v], t.pc + 1)]
  BY <1>2, <1>3 DEF Typed, Placing
<1>5. [t EXCEPT !.view = v] \in Thread /\ [t EXCEPT !.view = v].req = t.req
  BY DEF Thread
<1> QED
  BY <1>1, <1>2, <1>4, <1>5, OneMoves

LEMMA SearchMoves ==
  ASSUME Typed, NEW k \in Threads, SearchFile(k)
  PROVE  Moves(k, 0) \/ Moves(k, thread[k].pc + 1)
<1>1. Busy(k)
  BY DEF SearchFile, At
<1>2. PICK t \in Thread : t = thread[k]
  BY <1>1, AtWork
<1>3. CASE Proceed(k, 0)
  BY <1>1, <1>3, Proceeding
<1>4. CASE thread' = [thread EXCEPT ![k] = Jump([@ EXCEPT !.view = None], @.pc + 1)]
  <2>1. thread' = [thread EXCEPT ![k] = Jump([t EXCEPT !.view = None], t.pc + 1)]
    BY <1>2, <1>4 DEF Typed, Placing
  <2>2. [t EXCEPT !.view = None] \in Thread /\ [t EXCEPT !.view = None].req = t.req
    BY DEF Thread
  <2> QED
    BY <1>1, <1>2, <2>1, <2>2, OneMoves
<1> QED
  BY <1>3, <1>4 DEF SearchFile

LEMMA LookMoves ==
  ASSUME Typed, NEW k \in Threads, LookUp(k)
  PROVE  Moves(k, thread[k].pc + 1) \/ \E m \in Targets(Step(k)) : Moves(k, m)
<1>1. Busy(k) /\ Step(k).op \in {"look", "seek"}
  BY DEF LookUp, At
<1>2. Continue(k) \/ Proceed(k, Step(k).else)
  BY DEF LookUp
<1>3. Targets(Step(k)) = {Step(k).else}
  BY <1>1 DEF Targets
<1> QED
  BY <1>1, <1>2, <1>3, Continuing, Proceeding

LEMMA CompareMoves ==
  ASSUME Typed, NEW k \in Threads, CompareOwner(k)
  PROVE  \/ Moves(k, 0) \/ Moves(k, thread[k].pc + 1)
         \/ \E m \in Targets(Step(k)) : Moves(k, m)
<1>1. Busy(k)
  BY DEF CompareOwner, At
<1>2. \/ Continue(k) \/ Proceed(k, 0)
      \/ At(k, "owner_online") /\ Proceed(k, Step(k).then)
  BY DEF CompareOwner
<1>3. At(k, "owner_online") => Targets(Step(k)) = {Step(k).then}
  BY DEF At, Targets
<1> QED
  BY <1>1, <1>2, <1>3, Continuing, Proceeding

LEMMA GotoMoves ==
  ASSUME Typed, NEW k \in Threads, Jumps(k)
  PROVE  \E m \in Targets(Step(k)) : Moves(k, m)
<1>1. Busy(k) /\ Proceed(k, Step(k).to) /\ Targets(Step(k)) = {Step(k).to}
  BY DEF Jumps, At, Targets
<1> QED
  BY <1>1, Proceeding

----------------------------------------------------------------------------
(* What a move does to the sections of the lock.                           *)

LEMMA Staying ==
  ASSUME NEW j \in Threads, Stays(j)
  PROVE  /\ Busy(j)' <=> Busy(j)
         /\ Step(j)' = Step(j)
         /\ \A op : At(j, op)' <=> At(j, op)
         /\ Rewriting(j)' <=> Rewriting(j)
         /\ InSection(j)' <=> InSection(j)
         /\ Reloads(j)' <=> Reloads(j)
         /\ thread'[j].req = thread[j].req
<1>1. thread'[j].req = thread[j].req /\ thread'[j].pc = thread[j].pc
  BY DEF Stays
<1>2. (Busy(j)' <=> Busy(j)) /\ Step(j)' = Step(j)
  BY <1>1 DEF Busy, Step
<1>3. \A op : At(j, op)' <=> At(j, op)
  BY <1>2 DEF At
<1>4. Rewriting(j)' <=> Rewriting(j)
  BY <1>3 DEF Rewriting
<1>5. InSection(j)' <=> InSection(j)
  BY <1>2, <1>3, <1>4 DEF InSection
<1>6. Reloads(j)' <=> Reloads(j)
  BY <1>1, <1>2 DEF Reloads
<1> QED
  BY <1>1, <1>2, <1>3, <1>4, <1>5, <1>6

LEMMA Landing ==
  ASSUME Typed, NEW k \in Threads, Busy(k), NEW m, Moves(k, m)
  PROVE  IF m \in DOMAIN Program[thread[k].req]
         THEN /\ Busy(k)' /\ thread'[k].req = thread[k].req /\ thread'[k].pc = m
              /\ Step(k)' = Program[thread[k].req][m]
         ELSE ~Busy(k)'
<1>1. CASE m \in DOMAIN Program[thread[k].req]
  BY <1>1 DEF Moves, Lands, Busy, Step
<1>2. CASE m \notin DOMAIN Program[thread[k].req]
  BY <1>2, FreeIsPlaced DEF Moves, Lands, Busy
<1> QED
  BY <1>1, <1>2

\* Thread k neither was nor is in a section, and the others stay.
Away(k) == /\ ~InSection(k) /\ (~InSection(k))'
           /\ \A j \in Threads \ {k} : Stays(j)

LEMMA Outside ==
  ASSUME NEW k \in Threads
  PROVE  /\ ~Busy(k) \/ Entry(Step(k)) => ~InSection(k)
         /\ (~Busy(k))' \/ Entry(Step(k)') => (~InSection(k))'
         /\ Rewriting(k) => InSection(k)
         /\ Rewriting(k)' => InSection(k)'
<1>1. ~Busy(k) \/ Entry(Step(k)) => ~InSection(k)
  BY DEF InSection, Rewriting, At, Entry
<1>2. (~Busy(k))' \/ Entry(Step(k)') => (~InSection(k))'
  BY DEF InSection, Rewriting, At, Entry
<1> QED
  BY <1>1, <1>2 DEF InSection

\* A step that is no part of a rewrite leads to one that is not inside of a section.
LEMMA QuietStep ==
  ASSUME Typed, NEW k \in Threads, Busy(k), Step(k).op \notin {"copy", "remove", "rename"},
         \/ Moves(k, 0) \/ Moves(k, thread[k].pc + 1)
         \/ \E m \in Targets(Step(k)) : Moves(k, m)
  PROVE  Away(k)
<1>1. PICK m \in {0, thread[k].pc + 1} \cup Targets(Step(k)) : Moves(k, m)
  OBVIOUS
<1>2. PICK r \in Requests : r = thread[k].req
  BY AtWork
<1>3. PICK n \in DOMAIN Program[r] : n = thread[k].pc
  BY <1>2, AtWork
<1>4. PICK x : x = Step(k) /\ x = Program[r][n]
  BY <1>2, <1>3, AtWork
<1>5. m \in DOMAIN Program[r] => Entry(Program[r][m])
  <2>1. CASE m = 0
    BY <2>1, Positions
  <2>2. CASE m = n + 1
    <3>1. Followed(Program[r], n)
      BY Positions
    <3> QED
      BY <2>2, <1>4, <3>1 DEF Followed
  <2>3. CASE m \in Targets(x)
    BY <2>3, <1>4, Positions
  <2> QED
    BY <1>1, <1>3, <1>4, <2>1, <2>2, <2>3
<1>6. (~InSection(k))'
  <2>1. CASE m \in DOMAIN Program[r]
    BY <2>1, <1>1, <1>2, <1>5, Landing, Outside
  <2>2. CASE m \notin DOMAIN Program[r]
    BY <2>2, <1>1, <1>2, Landing, Outside
  <2> QED
    BY <2>1, <2>2
<1>7. ~InSection(k)
  BY DEF InSection, Rewriting, At
<1> QED
  BY <1>1, <1>6, <1>7 DEF Away, Moves

LEMMA LinesAreLines == \A f \in Files : LinesOf(f) \subseteq Lines
BY DEF Lines

\* A file that has lines of its own kind is not a missing one.
LEMMA NotGone ==
  ASSUME NEW f \in Files, NEW s, s \subseteq LinesOf(f)
  PROVE  s # Gone /\ s \in SUBSET Lines
BY LinesAreLines, NoEmptyLine

\* A file that is being rewritten is left alone, and what is written belongs there.
LEMMA WritingKeeps ==
  ASSUME Typed, Locked, Kept, NEW k \in Threads, Away(k), UNCHANGED <<temp, lock>>,
         \A f \in Files : \/ disk'[f] = disk[f]
                          \/ ~BeingRewritten(f) /\ disk'[f] \subseteq LinesOf(f)
  PROVE  Locked' /\ Kept'
<1>1. \A j \in Threads : \/ ~InSection(j) /\ (~InSection(j))'
                         \/ Stays(j)
  BY DEF Away
<1>2. \A j \in Threads : InSection(j)' <=> InSection(j)
  BY <1>1, Staying
<1>3. Locked'
  BY <1>2 DEF Locked
<1>4. ASSUME NEW j \in Threads
      PROVE  /\ Rewriting(j)' <=> Rewriting(j)
             /\ At(j, "remove")' <=> At(j, "remove")
             /\ At(j, "rename")' <=> At(j, "rename")
             /\ Rewriting(j) => Step(j)' = Step(j) /\ thread'[j].req = thread[j].req
  <2>1. CASE ~InSection(j) /\ (~InSection(j))'
    BY <2>1 DEF InSection, Rewriting
  <2>2. CASE Stays(j)
    BY <2>2, Staying
  <2> QED
    BY <1>1, <2>1, <2>2
<1>5. \A j \in Threads : Rewriting(j) => BeingRewritten(Step(j).file)
  BY DEF BeingRewritten
<1>6. Kept'
  <2>1. (temp # Gone => \E j \in Threads : Rewriting(j))'
    BY <1>4 DEF Kept
  <2>2. ASSUME NEW f \in Files
        PROVE  IF disk'[f] = Gone THEN \E j \in Threads : At(j, "rename")' /\ Step(j)'.file = f
                                  ELSE disk'[f] \subseteq LinesOf(f)
    <3>1. CASE disk'[f] = disk[f]
      BY <3>1, <1>4 DEF Kept, Rewriting
    <3>2. CASE disk'[f] \subseteq LinesOf(f)
      BY <3>2, NotGone
    <3> QED
      BY <3>1, <3>2
  <2>3. ASSUME NEW j \in Threads, Rewriting(j)
        PROVE  disk'[Step(j).file] = disk[Step(j).file]
    <3>1. Step(j).file \in Files
      BY <2>3, AtWork DEF Rewriting, At, Permitted
    <3> QED
      BY <3>1, <2>3, <1>5
  <2>4. ASSUME NEW j \in Threads, At(j, "remove")'
        PROVE  /\ temp' # Gone /\ disk'[Step(j)'.file] # Gone /\ temp' \subseteq disk'[Step(j)'.file]
               /\ \A line \in disk'[Step(j)'.file] \ temp' :
                    Removes(thread'[j].req, Step(j)'.file, line)
    BY <1>4, <2>3, <2>4 DEF Kept, Rewriting
  <2>5. ASSUME NEW j \in Threads, At(j, "rename")'
        PROVE  /\ temp' # Gone /\ temp' \subseteq LinesOf(Step(j)'.file)
               /\ disk'[Step(j)'.file] = Gone
    BY <1>4, <2>3, <2>5 DEF Kept, Rewriting
  <2> QED
    BY <2>1, <2>2, <2>4, <2>5 DEF Kept
<1> QED
  BY <1>3, <1>6

----------------------------------------------------------------------------
(* Each step keeps the files in order.                                     *)

\* What a step makes go away was to be removed, or its file starts afresh.
AskedFor ==
  \A f \in Files : \A line \in Content(f) \ Content(f)' :
    \E k \in Threads : \/ Busy(k) /\ Removes(thread[k].req, f, line)
                       \/ At(k, "write") /\ StartsAfresh(thread[k].req, f)

Safe == Typed' /\ (intact' => Locked' /\ Kept' /\ AskedFor)

LEMMA BusyIsUp ==
  ASSUME Typed, NEW k \in Threads, Busy(k)
  PROVE  up
BY FreeIsPlaced DEF Typed, Busy

LEMMA NothingGone ==
  ASSUME UNCHANGED <<disk, temp>>
  PROVE  AskedFor
BY DEF AskedFor, Content

LEMMA QuietSafe ==
  ASSUME Inv, NEW k \in Threads, Busy(k), Step(k).op \notin {"copy", "remove", "rename"},
         \/ Moves(k, 0) \/ Moves(k, thread[k].pc + 1)
         \/ \E m \in Targets(Step(k)) : Moves(k, m),
         UNCHANGED <<disk, temp, lock, intact>>, Unchanged,
         map' \in [Maps -> SUBSET Lines], map'[Group] \subseteq LinesOf(Group)
  PROVE  Safe
<1>1. Typed'
  <2>1. up /\ Data
    BY BusyIsUp DEF Inv, Typed
  <2>2. Data'
    BY <2>1 DEF Data, Unchanged
  <2>3. Placing' /\ up'
    BY <2>1 DEF Moves, Unchanged
  <2> QED
    BY <2>2, <2>3 DEF Typed
<1>2. Away(k)
  BY QuietStep DEF Inv
<1>3. intact' => Locked' /\ Kept'
  BY <1>2, WritingKeeps DEF Inv
<1> QED
  BY <1>1, <1>3, NothingGone DEF Safe

LEMMA ReadType ==
  ASSUME Data, NEW f \in Files
  PROVE  Read(f) \subseteq Lines
BY DEF Data, Read

LEMMA QuietActions ==
  ASSUME Inv, NEW k \in Threads,
         \/ ClearMaps(k) \/ LoadMembers(k) \/ LookUp(k) \/ FindGroup(k) \/ CompareOwner(k)
         \/ OpenFile(k) \/ SearchFile(k) \/ Jumps(k)
         \/ SyncFile(k) /\ Continue(k) /\ UNCHANGED <<shared, intact>> /\ Unchanged
  PROVE  Safe
<1>1. /\ Typed /\ map \in [Maps -> SUBSET Lines] /\ map[Group] \subseteq LinesOf(Group)
      /\ Group \in Cached /\ Group \in Maps /\ GroupMembers \in Maps /\ GroupMembers # Group
  BY FileNames DEF Inv, Typed, Data, Cached, Maps
<1>2. CASE ClearMaps(k)
  <2>1. Busy(k) /\ Step(k).op = "clear"
    BY <1>2 DEF ClearMaps, At
  <2>2. map' \in [Maps -> SUBSET Lines] /\ map'[Group] \subseteq LinesOf(Group)
    BY <1>1, <1>2 DEF ClearMaps
  <2>3. UNCHANGED <<disk, temp, lock, intact>> /\ Unchanged
    BY <1>2 DEF ClearMaps
  <2> QED
    BY <1>1, <1>2, <2>1, <2>2, <2>3, ClearMoves, QuietSafe
<1>3. CASE LoadMembers(k)
  <2>1. Busy(k) /\ Step(k).op = "members"
    BY <1>3 DEF LoadMembers, At
  <2>2. PICK f \in Files : f = Step(k).file
    BY <1>1, <2>1, AtWork DEF Permitted
  <2>3. Read(f) \subseteq Lines
    BY ReadType DEF Inv, Typed
  <2>4. map' = [map EXCEPT ![GroupMembers] = Read(f)]
    BY <1>3, <2>2 DEF LoadMembers
  <2>5. map' \in [Maps -> SUBSET Lines] /\ map'[Group] \subseteq LinesOf(Group)
    BY <1>1, <2>3, <2>4
  <2>6. UNCHANGED <<disk, temp, lock, intact>> /\ Unchanged /\ Continue(k)
    BY <1>3 DEF LoadMembers
  <2> QED
    BY <1>1, <2>1, <2>5, <2>6, Continuing, QuietSafe
<1>4. ASSUME LookUp(k) \/ FindGroup(k) \/ CompareOwner(k) \/ OpenFile(k) \/ SearchFile(k)
               \/ Jumps(k)
               \/ (SyncFile(k) /\ Continue(k) /\ UNCHANGED <<shared, intact>> /\ Unchanged)
      PROVE  Safe
  <2>1. Busy(k) /\ Step(k).op \notin {"copy", "remove", "rename"}
    BY <1>4 DEF LookUp, FindGroup, CompareOwner, OpenFile, SearchFile, Jumps, SyncFile, At
  <2>2. UNCHANGED <<shared, intact>> /\ Unchanged
    BY <1>4 DEF LookUp, FindGroup, CompareOwner, OpenFile, SearchFile, Jumps, SyncFile
  <2>3. \/ Moves(k, 0) \/ Moves(k, thread[k].pc + 1)
        \/ \E m \in Targets(Step(k)) : Moves(k, m)
    BY <1>1, <1>4, <2>1, LookMoves, FindMoves, CompareMoves, OpenMoves, SearchMoves, GotoMoves,
       Continuing
  <2>4. UNCHANGED <<disk, temp, lock, intact, map>>
    BY <2>2 DEF shared
  <2> QED
    BY <1>1, <2>1, <2>2, <2>3, <2>4, QuietSafe
<1> QED
  BY <1>2, <1>3, <1>4

\* While nobody is in a section no file is missing, so loading changes none.
LEMMA LoadingChangesNothing ==
  ASSUME Inv, intact, \A k \in Threads : ~InSection(k), LoadFiles
  PROVE  disk' = disk
<1>1. \A f \in Files : disk[f] # Gone
  BY DEF Inv, Kept, InSection, Rewriting
<1>2. disk' = [f \in Files |-> disk[f]]
  BY <1>1 DEF LoadFiles, Read
<1> QED
  BY <1>2 DEF Inv, Typed, Data

LEMMA LoadingTypes ==
  ASSUME Data, LoadFiles
  PROVE  /\ disk' \in [Files -> (SUBSET Lines) \cup {Gone}]
         /\ map' \in [Maps -> SUBSET Lines]
         /\ disk'[Group] \subseteq LinesOf(Group) /\ map'[Group] \subseteq LinesOf(Group)
<1>1. Group \in Files /\ Group \in Cached /\ Cached \subseteq Files /\ Cached \subseteq Maps
  BY FileNames DEF Cached, Maps
<1>2. Read(Group) \subseteq LinesOf(Group)
  BY DEF Data, Read
<1>3. \A f \in Files : Read(f) \subseteq Lines
  BY ReadType
<1>4. disk' = [f \in Files |-> IF f \in Cached THEN Read(f) ELSE disk[f]]
      /\ map' = [m \in Maps |-> IF m \in Cached THEN map[m] \cup Read(m) ELSE map[m]]
  BY DEF LoadFiles
<1>5. disk' \in [Files -> (SUBSET Lines) \cup {Gone}]
  BY <1>3, <1>4 DEF Data
<1>6. map' \in [Maps -> SUBSET Lines]
  BY <1>1, <1>3, <1>4 DEF Data
<1> QED
  BY <1>1, <1>2, <1>4, <1>5, <1>6 DEF Data

LEMMA LoadSafe ==
  ASSUME Inv, NEW k \in Threads, LoadMaps(k)
  PROVE  Safe
<1>1. /\ Busy(k) /\ Step(k).op = "load" /\ ~lock /\ LoadFiles /\ Continue(k)
      /\ UNCHANGED <<temp, lock, intact>> /\ Unchanged
  BY DEF LoadMaps, At
<1>2. Moves(k, thread[k].pc + 1) /\ up /\ Typed
  BY <1>1, Continuing, BusyIsUp DEF Inv
<1>3. Typed'
  <2>1. Data'
    BY <1>1, LoadingTypes DEF Inv, Typed, Data, Unchanged
  <2> QED
    BY <1>1, <1>2, <2>1 DEF Typed, Moves, Unchanged
<1>4. Away(k)
  BY <1>1, <1>2, QuietStep
<1>5. intact' => disk' = disk /\ UNCHANGED <<disk, temp, lock>>
  BY <1>1, LoadingChangesNothing DEF Inv, Locked
<1>6. intact' => Locked' /\ Kept'
  BY <1>1, <1>4, <1>5, WritingKeeps DEF Inv
<1> QED
  BY <1>3, <1>5, <1>6, NothingGone DEF Safe


\* What a step w of r's handler puts into the files and the maps.
LEMMA Puts ==
  ASSUME Data, NEW r, NEW w, w.op \in {"write", "append", "insert"}, Permitted(r, w),
         NEW f \in Files
  PROVE  /\ Put(w, f) = disk[f] \/ Put(w, f) \subseteq LinesOf(f) \cup Read(f)
         /\ disk[f] \subseteq LinesOf(f) => Put(w, f) \subseteq LinesOf(f)
         /\ Put(w, f) # disk[f] => f \in w.empty \/ \E a \in w.append : a[1] = f
         /\ f \notin w.empty => Read(f) \subseteq Put(w, f)
         /\ disk[f] # Gone => \A line \in Put(w, f) \ disk[f] :
              \E a \in w.append : a[1] = f /\ a[2] = line
<1> DEFINE added == {a[2] : a \in {b \in w.append : b[1] = f}}
<1>1. added \subseteq LinesOf(f)
  BY DEF Permitted
<1>2. Put(w, f) = IF f \in w.empty THEN added
                  ELSE IF added = {} THEN disk[f] ELSE Read(f) \cup added
  BY DEF Put
<1>3. disk[f] \subseteq LinesOf(f) => disk[f] # Gone /\ Read(f) = disk[f]
  BY NotGone DEF Read
<1>4. /\ added # {} => \E a \in w.append : a[1] = f
      /\ \A line \in added : \E a \in w.append : a[1] = f /\ a[2] = line
  OBVIOUS
<1>5. Read(f) \subseteq disk[f] /\ (disk[f] # Gone => Read(f) = disk[f])
  BY DEF Read
<1> HIDE DEF added
<1> QED
  BY <1>1, <1>2, <1>3, <1>4, <1>5

LEMMA WriteTypes ==
  ASSUME Typed, NEW k \in Threads, WriteFiles(k)
  PROVE  Typed'
<1>1. PICK w : w = Step(k)
  OBVIOUS
<1>2. /\ Busy(k) /\ w.op \in {"write", "append", "insert"}
      /\ disk' = [f \in Files |-> Put(w, f)]
      /\ map' = [m \in Maps |-> map[m] \cup {a[2] : a \in {b \in w.insert : b[1] = m}}]
      /\ intact' \in BOOLEAN /\ Continue(k) /\ UNCHANGED <<temp, lock>> /\ Unchanged
  BY <1>1 DEF WriteFiles, At
<1>3. PICK r \in Requests : Permitted(r, w)
  BY <1>1, <1>2, AtWork
<1>4. Data /\ Group \in Files /\ Group \in Maps /\ Group # Online /\ Group # Pending
  BY FileNames DEF Typed, Cached, Maps
<1>5. \A f \in Files : Put(w, f) \in (SUBSET Lines) \cup {Gone}
  <2> SUFFICES ASSUME NEW f \in Files PROVE Put(w, f) \in (SUBSET Lines) \cup {Gone}
    OBVIOUS
  <2>1. Put(w, f) = disk[f] \/ Put(w, f) \subseteq LinesOf(f) \cup Read(f)
    BY <1>2, <1>3, <1>4, Puts
  <2>2. Read(f) \subseteq Lines /\ LinesOf(f) \subseteq Lines
    BY <1>4, ReadType, LinesAreLines
  <2> QED
    BY <2>1, <2>2, <1>4 DEF Data
<1>6. Put(w, Group) \subseteq LinesOf(Group)
  BY <1>2, <1>3, <1>4, Puts DEF Data
<1>7. \A m \in Maps : {a[2] : a \in {b \in w.insert : b[1] = m}} \subseteq Lines
  <2>1. \A a \in w.insert : a[1] \in Files /\ a[2] \in LinesOf(a[1])
    BY <1>2, <1>3, FileNames DEF Permitted
  <2>2. \A a \in w.insert : a[2] \in Lines
    BY <2>1, LinesAreLines
  <2> QED
    BY <2>2
<1>8. map' \in [Maps -> SUBSET Lines]
  BY <1>2, <1>4, <1>7 DEF Data
<1>9. map'[Group] = map[Group]
  <2>1. {b \in w.insert : b[1] = Group} = {}
    BY <1>2, <1>3, <1>4 DEF Permitted
  <2> QED
    BY <1>2, <1>4, <2>1
<1>10. Data'
  <2>1. disk' \in [Files -> (SUBSET Lines) \cup {Gone}] /\ disk'[Group] \subseteq LinesOf(Group)
    BY <1>2, <1>4, <1>5, <1>6
  <2> QED
    BY <1>2, <1>4, <1>8, <1>9, <2>1 DEF Data, Unchanged
<1>11. Moves(k, thread[k].pc + 1) /\ up
  BY <1>2, Continuing, BusyIsUp
<1> QED
  BY <1>2, <1>10, <1>11 DEF Typed, Moves, Unchanged

LEMMA WriteSafe ==
  ASSUME Inv, NEW k \in Threads, WriteFiles(k)
  PROVE  Safe
<1>1. PICK w : w = Step(k)
  OBVIOUS
<1>2. /\ Busy(k) /\ w.op \in {"write", "append", "insert"} /\ (w.op = "write" => ~lock)
      /\ disk' = [f \in Files |-> Put(w, f)]
      /\ intact' => intact /\ \A a \in w.append : ~BeingRewritten(a[1])
      /\ Continue(k) /\ UNCHANGED <<temp, lock>>
  BY <1>1 DEF WriteFiles, At
<1>3. PICK r \in Requests : r = thread[k].req /\ Permitted(r, w)
  BY <1>1, <1>2, AtWork DEF Inv
<1>4. Typed /\ Data /\ Typed'
  BY WriteTypes DEF Inv, Typed
<1>5. ASSUME intact' PROVE Locked' /\ Kept' /\ AskedFor
  <2>1. Locked /\ Kept
    BY <1>2, <1>5 DEF Inv
  <2>2. Away(k)
    BY <1>1, <1>2, <1>4, Continuing, QuietStep
  <2>3. w.empty # {} => \A j \in Threads : ~InSection(j)
    BY <1>2, <1>3, <2>1 DEF Permitted, Locked
  <2>4. ASSUME NEW f \in Files, disk'[f] # disk[f]
        PROVE  ~BeingRewritten(f) /\ disk[f] # Gone /\ disk[f] \subseteq LinesOf(f)
    <3>1. f \in w.empty \/ \E a \in w.append : a[1] = f
      BY <1>2, <1>3, <1>4, <2>4, Puts
    <3>2. ~BeingRewritten(f)
      BY <3>1, <1>2, <1>5, <2>3 DEF BeingRewritten, InSection
    <3> QED
      BY <3>2, <2>1 DEF Kept, BeingRewritten, Rewriting
  <2>5. \A f \in Files : disk'[f] # disk[f] => disk'[f] \subseteq LinesOf(f)
    BY <1>2, <1>3, <1>4, <2>4, Puts
  <2>6. Locked' /\ Kept'
    BY <1>2, <1>4, <2>1, <2>2, <2>4, <2>5, WritingKeeps
  <2>7. ASSUME NEW f \in Files, NEW line \in Content(f) \ Content(f)'
        PROVE  StartsAfresh(r, f) /\ w.op = "write"
    <3>1. disk'[f] # disk[f]
      BY <1>2, <2>7 DEF Content
    <3>2. disk[f] # Gone /\ disk'[f] # Gone
      BY <3>1, <2>4, <2>5, NotGone
    <3>3. Read(f) = Content(f) /\ disk'[f] = Content(f)'
      BY <3>2 DEF Content, Read
    <3>4. f \in w.empty
      BY <3>3, <1>2, <1>3, <1>4, <2>7, Puts
    <3> QED
      BY <3>4, <1>2, <1>3 DEF Permitted
  <2>8. AskedFor
    BY <1>1, <1>2, <1>3, <2>7 DEF AskedFor, At
  <2> QED
    BY <2>6, <2>8
<1> QED
  BY <1>4, <1>5 DEF Safe

\* A rewrite goes on, and ends outside of the section.
LEMMA RewriteGoesOn ==
  ASSUME Typed, NEW k \in Threads, Busy(k), Moves(k, thread[k].pc + 1)
  PROVE  /\ Step(k).op = "copy" => /\ At(k, "remove")' /\ Step(k)'.file = Step(k).file
                                   /\ thread'[k].req = thread[k].req
         /\ Step(k).op = "remove" => /\ At(k, "rename")' /\ Step(k)'.file = Step(k).file
                                     /\ thread'[k].req = thread[k].req
         /\ Step(k).op = "rename" /\ ~Step(k).release => At(k, "copy")' /\ ~Step(k)'.take
         /\ Step(k).op = "rename" /\ Step(k).release => (~InSection(k))'
<1>1. PICK s : s = Program[thread[k].req]
  OBVIOUS
<1>2. PICK n \in Nat : n = thread[k].pc
  BY AtWork
<1>3. PICK x : x = Step(k) /\ x = s[n]
  BY <1>1, <1>2, AtWork
<1>4. Followed(s, n)
  BY <1>1, <1>2, AtWork
<1>5. IF n + 1 \in DOMAIN s
      THEN Busy(k)' /\ thread'[k].req = thread[k].req /\ Step(k)' = s[n + 1]
      ELSE ~Busy(k)'
  BY <1>1, <1>2, Landing
<1>6. CASE x.op \in {"copy", "remove"} \/ (x.op = "rename" /\ ~x.release)
  BY <1>3, <1>4, <1>5, <1>6 DEF Followed, At
<1>7. CASE x.op = "rename" /\ x.release
  <2>1. n + 1 \in DOMAIN s => Entry(s[n + 1])
    BY <1>3, <1>4, <1>7 DEF Followed
  <2> QED
    BY <1>3, <1>5, <1>7, <2>1, Outside
<1> QED
  BY <1>3, <1>6, <1>7, <1>4, <1>5 DEF Followed

\* A thread that begins to rewrite a file is the only one.
LEMMA NobodyRewrites ==
  ASSUME Typed, Locked, Kept, NEW k \in Threads, At(k, "copy"), Step(k).take => ~lock
  PROVE  /\ \A j \in Threads \ {k} : ~InSection(j)
         /\ \A j \in Threads : ~Rewriting(j)
         /\ temp = Gone
         /\ \A f \in Files : disk[f] # Gone /\ disk[f] \subseteq LinesOf(f)
         /\ lock \/ Step(k).take
<1>1. \A j \in Threads \ {k} : ~InSection(j)
  BY DEF Locked, InSection
<1>2. ~Rewriting(k)
  BY DEF Rewriting, At
<1>3. \A j \in Threads : ~Rewriting(j)
  BY <1>1, <1>2 DEF InSection
<1>4. temp = Gone /\ \A f \in Files : disk[f] # Gone /\ disk[f] \subseteq LinesOf(f)
  BY <1>3 DEF Kept, Rewriting
<1>5. lock \/ Step(k).take
  BY DEF Locked, InSection
<1> QED
  BY <1>1, <1>3, <1>4, <1>5

LEMMA CopySafe ==
  ASSUME Inv, NEW k \in Threads, CopyFile(k)
  PROVE  Safe
<1>1. /\ Typed /\ Data /\ Busy(k) /\ Step(k).op = "copy" /\ At(k, "copy")
      /\ Step(k).take => ~lock
      /\ lock' = (lock \/ Step(k).take)
      /\ Continue(k) /\ UNCHANGED <<disk, map, intact>> /\ Unchanged
  BY DEF CopyFile, At, Inv, Typed
<1>2. PICK f \in Files : f = Step(k).file
  BY <1>1, AtWork DEF Permitted
<1>3. PICK d : d = Step(k).drop
  OBVIOUS
<1>4. \A line \in d : Removes(thread[k].req, f, line)
  BY <1>1, <1>2, <1>3, AtWork DEF Permitted
<1>5. \E old \in {temp, {}} : old \subseteq Lines /\ temp' = old \cup (Read(f) \ d)
  <2>1. temp # Gone => temp \subseteq Lines
    BY <1>1 DEF Data
  <2> QED
    BY <1>2, <1>3, <2>1 DEF CopyFile
<1>6. temp = Gone => temp' = Read(f) \ d
  BY <1>2, <1>3 DEF CopyFile
<1>7. Moves(k, thread[k].pc + 1) /\ up
  BY <1>1, Continuing, BusyIsUp
<1>8. Typed'
  <2>1. temp' \in SUBSET Lines
    BY <1>1, <1>5, ReadType
  <2>2. lock' \in BOOLEAN
    BY <1>1
  <2>3. Data'
    BY <1>1, <2>1, <2>2 DEF Data, Unchanged
  <2> QED
    BY <1>1, <1>7, <2>3 DEF Typed, Moves, Unchanged
<1>9. ASSUME intact' PROVE Locked' /\ Kept' /\ AskedFor
  <2>1. /\ \A j \in Threads \ {k} : ~InSection(j)
        /\ temp = Gone
        /\ \A h \in Files : disk[h] # Gone /\ disk[h] \subseteq LinesOf(h)
        /\ lock'
    BY <1>1, <1>9, NobodyRewrites DEF Inv
  <2>2. At(k, "remove")' /\ Step(k)'.file = f /\ thread'[k].req = thread[k].req
    BY <1>1, <1>2, <1>7, RewriteGoesOn
  <2>3. \A j \in Threads \ {k} : (~InSection(j))'
    BY <1>7, <2>1, Staying DEF Moves
  <2>4. Locked'
    BY <2>1, <2>3 DEF Locked
  <2>5. \A j \in Threads \ {k} : (~Rewriting(j))'
    BY <2>3 DEF InSection
  <2>6. temp' = disk[f] \ d /\ disk' = disk
    BY <1>1, <1>6, <2>1 DEF Read
  <2>7. temp' # Gone
    BY <2>1, <2>6, NotGone
  <2>8. \A j \in Threads : (At(j, "rename") => FALSE)'
    BY <2>2, <2>5 DEF Rewriting, At
  <2>9. \A j \in Threads : At(j, "remove")' => j = k
    BY <2>5 DEF Rewriting
  <2>10. \A line \in disk[f] \ temp' : Removes(thread'[k].req, f, line)
    BY <1>4, <2>2, <2>6
  <2>11. Kept'
    <3>1. (temp # Gone => \E j \in Threads : Rewriting(j))'
      BY <2>2 DEF Rewriting
    <3>2. \A h \in Files : disk'[h] # Gone /\ disk'[h] \subseteq LinesOf(h)
      BY <2>1, <2>6
    <3>3. ASSUME NEW j \in Threads, At(j, "remove")'
          PROVE  /\ temp' # Gone /\ disk'[Step(j)'.file] # Gone
                 /\ temp' \subseteq disk'[Step(j)'.file]
                 /\ \A line \in disk'[Step(j)'.file] \ temp' :
                      Removes(thread'[j].req, Step(j)'.file, line)
      BY <2>1, <2>2, <2>6, <2>7, <2>9, <2>10, <3>3
    <3> QED
      BY <3>1, <3>2, <3>3, <2>8 DEF Kept
  <2>12. AskedFor
    BY <2>1, <2>6 DEF AskedFor, Content
  <2> QED
    BY <2>4, <2>11, <2>12
<1> QED
  BY <1>8, <1>9 DEF Safe

\* While a thread rewrites a file it is the only one, and no other file is missing.
LEMMA OneRewrites ==
  ASSUME Typed, Locked, Kept, NEW k \in Threads, Rewriting(k)
  PROVE  /\ lock /\ \A j \in Threads \ {k} : ~InSection(j)
         /\ \A h \in Files \ {Step(k).file} : disk[h] # Gone /\ disk[h] \subseteq LinesOf(h)
<1>1. lock /\ \A j \in Threads \ {k} : ~InSection(j)
  BY DEF Locked, InSection
<1>2. \A j \in Threads : At(j, "rename") => j = k
  BY <1>1 DEF InSection, Rewriting
<1>3. \A h \in Files \ {Step(k).file} : disk[h] # Gone /\ disk[h] \subseteq LinesOf(h)
  BY <1>2 DEF Kept
<1> QED
  BY <1>1, <1>3

LEMMA RemoveSafe ==
  ASSUME Inv, NEW k \in Threads, RemoveFile(k)
  PROVE  Safe
<1>1. /\ Typed /\ Data /\ Busy(k) /\ Step(k).op = "remove" /\ At(k, "remove") /\ Rewriting(k)
      /\ UNCHANGED <<temp, map, lock, intact>> /\ Unchanged
  BY DEF RemoveFile, At, Inv, Typed, Rewriting
<1>2. PICK f \in Files \ {Group} : f = Step(k).file
  BY <1>1, AtWork DEF Permitted
<1>3. disk' = [disk EXCEPT ![f] = Gone]
  BY <1>2 DEF RemoveFile
<1>4. Moves(k, thread[k].pc + 1) /\ up
  BY <1>1, RemoveMoves, BusyIsUp
<1>5. Typed'
  <2>1. disk' \in [Files -> (SUBSET Lines) \cup {Gone}] /\ disk'[Group] = disk[Group]
    BY <1>1, <1>2, <1>3, FileNames DEF Data
  <2>2. Data'
    BY <1>1, <2>1 DEF Data, Unchanged
  <2> QED
    BY <1>1, <1>4, <2>2 DEF Typed, Moves, Unchanged
<1>6. ASSUME intact' PROVE Locked' /\ Kept' /\ AskedFor
  <2>1. Locked /\ Kept
    BY <1>1, <1>6 DEF Inv
  <2>2. /\ lock /\ \A j \in Threads \ {k} : ~InSection(j)
        /\ \A h \in Files \ {f} : disk[h] # Gone /\ disk[h] \subseteq LinesOf(h)
    BY <1>1, <1>2, <2>1, OneRewrites
  <2>3. /\ temp # Gone /\ disk[f] # Gone /\ temp \subseteq disk[f] /\ disk[f] \subseteq LinesOf(f)
        /\ \A line \in disk[f] \ temp : Removes(thread[k].req, f, line)
    BY <1>1, <1>2, <2>1 DEF Kept
  <2>4. At(k, "rename")' /\ Step(k)'.file = f
    BY <1>1, <1>2, <1>4, RewriteGoesOn
  <2>5. \A j \in Threads \ {k} : (~InSection(j))'
    BY <1>4, <2>2, Staying DEF Moves
  <2>6. Locked'
    BY <1>1, <2>2, <2>5 DEF Locked
  <2>7. /\ disk \in [Files -> (SUBSET Lines) \cup {Gone}]
        /\ disk'[f] = Gone /\ \A h \in Files \ {f} : disk'[h] = disk[h]
    BY <1>1, <1>3 DEF Data
  <2>8. Kept'
    <3>1. (temp # Gone => \E j \in Threads : Rewriting(j))'
      BY <2>4 DEF Rewriting
    <3>2. ASSUME NEW h \in Files
          PROVE  IF disk'[h] = Gone THEN \E j \in Threads : At(j, "rename")' /\ Step(j)'.file = h
                                    ELSE disk'[h] \subseteq LinesOf(h)
      BY <2>2, <2>4, <2>7
    <3>3. \A j \in Threads : ~At(j, "remove")'
      <4>1. ~At(k, "remove")'
        BY <2>4 DEF At
      <4> QED
        BY <4>1, <2>5 DEF InSection, Rewriting
    <3>4. \A j \in Threads : At(j, "rename")' => j = k
      BY <2>5 DEF InSection, Rewriting
    <3>5. ASSUME NEW j \in Threads, At(j, "rename")'
          PROVE  /\ temp' # Gone /\ temp' \subseteq LinesOf(Step(j)'.file)
                 /\ disk'[Step(j)'.file] = Gone
      BY <1>1, <2>3, <2>4, <2>7, <3>4, <3>5
    <3> QED
      BY <3>1, <3>2, <3>3, <3>5 DEF Kept
  <2>9. AskedFor
    <3>1. \A h \in Files \ {f} : Content(h)' = Content(h)
      BY <1>1, <2>7 DEF Content
    <3>2. Content(f) = disk[f] /\ Content(f)' = temp
      BY <1>1, <2>3, <2>7 DEF Content
    <3> QED
      BY <1>1, <2>3, <3>1, <3>2 DEF AskedFor
  <2> QED
    BY <2>6, <2>8, <2>9
<1> QED
  BY <1>5, <1>6 DEF Safe

LEMMA RenameSafe ==
  ASSUME Inv, NEW k \in Threads, RenameFile(k)
  PROVE  Safe
<1>1. /\ Typed /\ Data /\ Busy(k) /\ Step(k).op = "rename" /\ At(k, "rename") /\ Rewriting(k)
      /\ temp' = Gone /\ lock' = (lock /\ ~Step(k).release)
      /\ Continue(k) /\ UNCHANGED <<map, intact>> /\ Unchanged
  BY DEF RenameFile, At, Inv, Typed, Rewriting
<1>2. PICK f \in Files \ {Group} : f = Step(k).file
  BY <1>1, AtWork DEF Permitted
<1>3. disk' = [disk EXCEPT ![f] = IF temp = Gone THEN @ ELSE temp]
  BY <1>2 DEF RenameFile
<1>4. Moves(k, thread[k].pc + 1) /\ up
  BY <1>1, Continuing, BusyIsUp
<1>5. Typed'
  <2>1. disk' \in [Files -> (SUBSET Lines) \cup {Gone}] /\ disk'[Group] = disk[Group]
    BY <1>1, <1>2, <1>3, FileNames DEF Data
  <2>2. lock' \in BOOLEAN
    BY <1>1
  <2>3. Data'
    BY <1>1, <2>1, <2>2 DEF Data, Unchanged
  <2> QED
    BY <1>1, <1>4, <2>3 DEF Typed, Moves, Unchanged
<1>6. ASSUME intact' PROVE Locked' /\ Kept' /\ AskedFor
  <2>1. Locked /\ Kept
    BY <1>1, <1>6 DEF Inv
  <2>2. /\ lock /\ \A j \in Threads \ {k} : ~InSection(j)
        /\ \A h \in Files \ {f} : disk[h] # Gone /\ disk[h] \subseteq LinesOf(h)
    BY <1>1, <1>2, <2>1, OneRewrites
  <2>3. temp # Gone /\ temp \subseteq LinesOf(f) /\ disk[f] = Gone
    BY <1>1, <1>2, <2>1 DEF Kept
  <2>4. \A j \in Threads \ {k} : (~InSection(j))'
    BY <1>4, <2>2, Staying DEF Moves
  <2>5. InSection(k)' => lock' /\ ~Rewriting(k)'
    <3>1. CASE Step(k).release
      BY <1>1, <1>4, <3>1, RewriteGoesOn, Outside
    <3>2. CASE ~Step(k).release
      <4>1. At(k, "copy")'
        BY <1>1, <1>4, <3>2, RewriteGoesOn
      <4>2. ~Rewriting(k)'
        BY <4>1 DEF Rewriting, At
      <4> QED
        BY <1>1, <2>2, <3>2, <4>2
    <3> QED
      BY <3>1, <3>2
  <2>6. Locked'
    BY <2>4, <2>5 DEF Locked
  <2>7. /\ disk \in [Files -> (SUBSET Lines) \cup {Gone}]
        /\ disk'[f] = temp /\ \A h \in Files \ {f} : disk'[h] = disk[h]
    BY <1>1, <1>3, <2>3 DEF Data
  <2>8. \A h \in Files : disk'[h] # Gone /\ disk'[h] \subseteq LinesOf(h)
    BY <2>2, <2>3, <2>7
  <2>9. \A j \in Threads : ~Rewriting(j)'
    BY <2>4, <2>5 DEF InSection
  <2>10. Kept'
    BY <1>1, <2>8, <2>9 DEF Kept, Rewriting
  <2>11. AskedFor
    <3>1. \A h \in Files : Content(h)' = Content(h)
      BY <2>2, <2>3, <2>7 DEF Content
    <3> QED
      BY <3>1 DEF AskedFor
  <2> QED
    BY <2>6, <2>10, <2>11
<1> QED
  BY <1>5, <1>6 DEF Safe

LEMMA UnlockSafe ==
  ASSUME Inv, NEW k \in Threads, StrayUnlock(k)
  PROVE  Safe
<1>1. /\ Typed /\ Data /\ Busy(k) /\ Step(k).op = "unlock" /\ lock' = FALSE
      /\ (intact' => intact /\ ~lock) /\ intact' \in BOOLEAN /\ Continue(k)
      /\ UNCHANGED <<disk, temp, map>> /\ Unchanged
  BY DEF StrayUnlock, At, Inv, Typed
<1>2. Moves(k, thread[k].pc + 1) /\ up
  BY <1>1, Continuing, BusyIsUp
<1>3. Typed'
  <2>1. Data'
    BY <1>1 DEF Data, Unchanged
  <2> QED
    BY <1>1, <1>2, <2>1 DEF Typed, Moves, Unchanged
<1>4. Away(k)
  BY <1>1, <1>2, QuietStep
<1>5. ASSUME intact' PROVE Locked' /\ Kept'
  <2>1. Locked /\ Kept /\ ~lock
    BY <1>1, <1>5 DEF Inv
  <2>2. lock' = lock
    BY <1>1, <2>1 DEF Data
  <2> QED
    BY <1>1, <1>4, <2>1, <2>2, WritingKeeps
<1> QED
  BY <1>1, <1>3, <1>5, NothingGone DEF Safe

LEMMA DieSafe ==
  ASSUME Inv, Die, kills' \in 0..MaxKills
  PROVE  Safe
<1>1. Typed /\ Data
  BY DEF Inv, Typed
<1>2. /\ up' = FALSE /\ thread' = [k \in Threads |-> Free] /\ map' = [m \in Maps |-> {}]
      /\ lock' = FALSE /\ intact' = (intact /\ \A k \in Threads : ~Rewriting(k))
      /\ UNCHANGED <<disk, temp, requests>>
  BY DEF Die
<1>3. \A k \in Threads : (~Busy(k))'
  BY <1>2, FreeIsPlaced DEF Busy
<1>4. Typed'
  <2>1. Placing'
    BY <1>2, FreeIsPlaced DEF Placing, Placed
  <2>2. Group \in Maps
    BY FileNames DEF Maps, Cached
  <2>3. Data'
    BY <1>1, <1>2, <2>2 DEF Data
  <2> QED
    BY <1>2, <2>1, <2>3 DEF Typed
<1>5. \A k \in Threads : (~InSection(k) /\ ~Rewriting(k))'
  BY <1>3 DEF InSection, Rewriting, At
<1>6. ASSUME intact' PROVE Locked' /\ Kept'
  <2>1. Kept /\ \A k \in Threads : ~Rewriting(k)
    BY <1>2, <1>6 DEF Inv
  <2>2. temp = Gone /\ \A f \in Files : disk[f] # Gone /\ disk[f] \subseteq LinesOf(f)
    BY <2>1 DEF Kept, Rewriting
  <2>3. Locked'
    BY <1>5 DEF Locked
  <2>4. Kept'
    BY <1>2, <1>5, <2>2 DEF Kept, Rewriting
  <2> QED
    BY <2>3, <2>4
<1> QED
  BY <1>2, <1>4, <1>6, NothingGone DEF Safe

LEMMA RestartSafe ==
  ASSUME Inv, Restart
  PROVE  Safe
<1>1. /\ Typed /\ Data /\ ~up /\ up' = TRUE /\ LoadFiles
      /\ UNCHANGED <<temp, lock, thread, requests, kills, intact>>
  BY DEF Restart, Inv, Typed
<1>2. Typed'
  <2>1. Data'
    BY <1>1, LoadingTypes DEF Data
  <2>2. Placing'
    BY <1>1 DEF Typed, Placing
  <2> QED
    BY <1>1, <2>1, <2>2 DEF Typed
<1>3. \A k \in Threads : ~Busy(k) /\ ~InSection(k)
  BY <1>1, FreeIsPlaced DEF Typed, Busy, InSection, Rewriting, At
<1>4. ASSUME intact' PROVE Locked' /\ Kept' /\ disk' = disk
  <2>1. disk' = disk
    BY <1>1, <1>3, <1>4, LoadingChangesNothing
  <2>2. Locked /\ Kept
    BY <1>1, <1>4 DEF Inv
  <2>3. \A k \in Threads : (Busy(k) <=> Busy(k)') /\ Step(k)' = Step(k)
    BY <1>1 DEF Busy, Step
  <2>4. \A k \in Threads : (~InSection(k) /\ ~Rewriting(k))'
    BY <1>3, <2>3 DEF InSection, Rewriting, At
  <2>5. \A k \in Threads : ~Rewriting(k)
    BY <1>3 DEF InSection
  <2>6. temp = Gone /\ \A f \in Files : disk[f] # Gone /\ disk[f] \subseteq LinesOf(f)
    BY <2>2, <2>5 DEF Kept, Rewriting
  <2>7. Locked'
    BY <2>4 DEF Locked
  <2>8. Kept'
    BY <1>1, <2>1, <2>4, <2>6 DEF Kept, Rewriting
  <2> QED
    BY <2>1, <2>7, <2>8
<1> QED
  BY <1>1, <1>2, <1>4, NothingGone DEF Safe

LEMMA AcceptSafe ==
  ASSUME Inv, NEW k \in Threads, NEW r \in Requests, Accept(k, r)
  PROVE  Safe
<1>1. /\ Typed /\ Data /\ up /\ ~Busy(k) /\ requests < MaxRequests /\ requests' = requests + 1
      /\ UNCHANGED <<disk, temp, map, lock, up, kills, intact>>
  BY DEF Accept, Inv, Typed, shared
<1>2. PICK t : t = [Free EXCEPT !.req = r, !.pc = 1]
  OBVIOUS
<1>3. t = [req |-> r, pc |-> 1, iter |-> None, view |-> None]
  BY <1>2 DEF Free
<1>4. t \in Thread /\ t.req = r /\ t.pc = 1 /\ Placed(t)
  <2>1. t \in Thread /\ t.req = r /\ t.pc = 1
    BY <1>3 DEF Thread
  <2>2. 1 \in DOMAIN Program[r]
    BY Positions
  <2>3. t.req # None
    BY <2>1, NoneAssumption
  <2> QED
    BY <2>1, <2>2, <2>3 DEF Placed
<1>5. thread' = [thread EXCEPT ![k] = t] /\ thread \in [Threads -> Thread]
  BY <1>1, <1>2 DEF Accept, Typed, Placing
<1>6. thread'[k] = t /\ \A j \in Threads \ {k} : thread'[j] = thread[j]
  BY <1>5
<1>7. Typed'
  <2>1. Placing'
    BY <1>1, <1>4, <1>5, <1>6 DEF Typed, Placing
  <2>2. requests' \in 0..MaxRequests
    BY <1>1, BoundsAssumption DEF Data
  <2>3. Data'
    BY <1>1, <2>2 DEF Data
  <2> QED
    BY <1>1, <2>1, <2>3 DEF Typed
<1>8. Away(k)
  <2>1. Step(k)' = Program[r][1]
    BY <1>4, <1>6 DEF Step
  <2>2. (~InSection(k))'
    BY <2>1, Positions, Outside
  <2>3. ~InSection(k)
    BY <1>1, Outside
  <2> QED
    BY <1>6, <2>2, <2>3 DEF Away, Stays
<1>9. intact' => Locked' /\ Kept'
  BY <1>1, <1>8, WritingKeeps DEF Inv
<1> QED
  BY <1>1, <1>7, <1>9, NothingGone DEF Safe

LEMMA SyncSafe ==
  ASSUME Inv, NEW k \in Threads, SyncFile(k)
  PROVE  Safe
<1>1. CASE Continue(k) /\ UNCHANGED <<shared, intact>> /\ Unchanged
  BY <1>1, QuietActions
<1>2. CASE Die /\ UNCHANGED kills
  BY <1>2, DieSafe DEF Inv, Typed, Data
<1> QED
  BY <1>1, <1>2 DEF SyncFile

LEMMA EveryStepIsSafe ==
  ASSUME Inv, Next
  PROVE  Safe
<1>1. ASSUME NEW k \in Threads, Run(k) PROVE Safe
  BY <1>1, QuietActions, LoadSafe, WriteSafe, CopySafe, RemoveSafe, RenameSafe, UnlockSafe,
     SyncSafe DEF Run
<1>2. ASSUME NEW k \in Threads, NEW r \in Requests, Accept(k, r) PROVE Safe
  BY <1>2, AcceptSafe
<1>3. CASE Race
  BY <1>3, DieSafe DEF Race, Inv, Typed, Data
<1>4. CASE Kill
  <2>1. kills \in 0..MaxKills /\ kills < MaxKills /\ kills' = kills + 1
    BY <1>4 DEF Kill, Inv, Typed, Data
  <2>2. kills' \in 0..MaxKills
    BY <2>1, BoundsAssumption
  <2> QED
    BY <1>4, <2>2, DieSafe DEF Kill
<1>5. CASE Restart
  BY <1>5, RestartSafe
<1> QED
  BY <1>1, <1>2, <1>3, <1>4, <1>5 DEF Next

----------------------------------------------------------------------------
(* Each step keeps the maps coming after the files.                        *)

\* Only pushes and the clearing of the maps come before a load, and they lead there.
LEMMA Reloaders ==
  ASSUME Typed, NEW k \in Threads, Reloads(k)
  PROVE  /\ Step(k).op \in {"sync", "clear", "load"}
         /\ Step(k).op # "load" /\ Moves(k, thread[k].pc + 1) => Reloads(k)'
<1>1. Busy(k)
  BY DEF Reloads
<1>2. PICK s : s = Program[thread[k].req]
  OBVIOUS
<1>3. PICK n \in Nat : n = thread[k].pc
  BY <1>1, AtWork
<1>4. /\ DOMAIN s \subseteq Nat /\ Step(k) = s[n]
      /\ \A m \in DOMAIN s : 1..m \subseteq DOMAIN s
  BY <1>1, <1>2, <1>3, AtWork, Positions
<1>5. PICK m \in DOMAIN s : /\ n <= m /\ s[m].op = "load"
                            /\ \A i \in n..(m - 1) : s[i].op \in {"sync", "clear"}
  BY <1>2, <1>3 DEF Reloads, Reloading
<1>6. CASE n = m
  BY <1>4, <1>5, <1>6
<1>7. CASE n # m
  <2>1. m \in Nat /\ n \in n..(m - 1) /\ n + 1 <= m /\ n + 1 \in 1..m
        /\ (n + 1)..(m - 1) \subseteq n..(m - 1)
    BY <1>4, <1>5, <1>7
  <2>2. s[n].op \in {"sync", "clear"}
    BY <1>5, <2>1
  <2>3. Reloading(s, n + 1)
    BY <1>5, <2>1 DEF Reloading
  <2>4. ASSUME Moves(k, thread[k].pc + 1), s[n].op # "load" PROVE Reloads(k)'
    <3>1. n + 1 \in DOMAIN s
      BY <1>4, <2>1
    <3>2. Busy(k)' /\ thread'[k].req = thread[k].req /\ thread'[k].pc = n + 1
      BY <1>1, <1>2, <1>3, <2>4, <3>1, Landing
    <3> QED
      BY <1>2, <2>3, <3>2 DEF Reloads
  <2> QED
    BY <1>4, <2>2, <2>4
<1> QED
  BY <1>6, <1>7

\* The accounts and the groups are never rewritten, so these files are there.
LEMMA RegistersAreThere ==
  ASSUME Inv, intact, NEW c \in {Credential, Group}
  PROVE  c \in Files /\ c \in Cached /\ c \in Maps /\ disk[c] # Gone /\ Content(c) = disk[c]
<1>1. c \in Files /\ c \in Cached /\ c \in Maps
  BY FileNames DEF Cached, Maps
<1>2. \A k \in Threads : At(k, "rename") => Step(k).file # c
  BY AtWork DEF Inv, At, Permitted
<1>3. disk[c] # Gone
  BY <1>1, <1>2 DEF Inv, Kept
<1> QED
  BY <1>1, <1>3 DEF Content

\* What a step must do so that the maps still come after the files.
LEMMA FollowupStays ==
  ASSUME Followup, NEW k \in Threads, \A j \in Threads \ {k} : Stays(j),
         Reloads(k) => Reloads(k)',
         \A c \in {Credential, Group} :
           /\ map'[c] = map[c] /\ disk[c] \subseteq disk'[c]
           /\ disk'[c] # disk[c] => Reloads(k)',
         map[Pending] \subseteq map'[Pending],
         \A line \in Content(Pending)' \ Content(Pending) :
           \/ line \in map'[Pending]
           \/ At(k, "insert")' /\ \E a \in Step(k)'.insert : a[1] = Pending /\ a[2] = line,
         At(k, "insert") => \A a \in Step(k).insert : a[1] = Pending => a[2] \in map'[Pending]
  PROVE  Followup'
<1>1. \A c \in {Credential, Group} : map'[c] \subseteq disk'[c]
  BY DEF Followup
<1>2. ASSUME \A j \in Threads : ~Reloads(j)'
      PROVE  /\ \A c \in {Credential, Group} : disk'[c] \subseteq map'[c]
             /\ \A line \in Content(Pending)' \ map'[Pending] :
                  \E j \in Threads : /\ At(j, "insert")'
                                     /\ \E a \in Step(j)'.insert : a[1] = Pending /\ a[2] = line
  <2>1. \A j \in Threads : ~Reloads(j)
    BY <1>2, Staying
  <2>2. \A c \in {Credential, Group} : disk'[c] = disk[c]
    BY <1>2
  <2>3. \A c \in {Credential, Group} : disk'[c] \subseteq map'[c]
    BY <2>1, <2>2 DEF Followup
  <2>4. ASSUME NEW line \in Content(Pending)' \ map'[Pending], line \in Content(Pending)
        PROVE  \E j \in Threads : /\ At(j, "insert")'
                                  /\ \E a \in Step(j)'.insert : a[1] = Pending /\ a[2] = line
    <3>1. line \notin map[Pending]
      OBVIOUS
    <3>2. PICK j \in Threads : /\ At(j, "insert")
                               /\ \E a \in Step(j).insert : a[1] = Pending /\ a[2] = line
      BY <2>1, <2>4, <3>1 DEF Followup
    <3>3. j # k
      BY <3>2
    <3> QED
      BY <3>2, <3>3, Staying
  <2> QED
    BY <2>3, <2>4
<1> QED
  BY <1>1, <1>2 DEF Followup

\* Such a step without a write.
LEMMA QuietFollowup ==
  ASSUME Inv, Followup, NEW k \in Threads, Busy(k),
         Step(k).op \notin {"clear", "load", "write", "append", "insert"},
         Step(k).op = "sync" => Moves(k, thread[k].pc + 1),
         \A j \in Threads \ {k} : Stays(j),
         \A c \in {Credential, Group} : map'[c] = map[c] /\ disk'[c] = disk[c],
         map'[Pending] = map[Pending], Content(Pending)' \subseteq Content(Pending)
  PROVE  Followup'
<1>1. Reloads(k) => Reloads(k)'
  BY Reloaders DEF Inv
<1>2. ~At(k, "insert")
  BY DEF At
<1> QED
  BY <1>1, <1>2, FollowupStays

LEMMA ClearFollowup ==
  ASSUME Inv, intact, NEW k \in Threads, ClearMaps(k)
  PROVE  Followup'
<1>1. /\ Busy(k) /\ Step(k).op = "clear" /\ disk' = disk
      /\ map' = [m \in Maps |-> IF m \in Cached THEN {} ELSE map[m]]
  BY DEF ClearMaps, At
<1>2. Moves(k, thread[k].pc + 1) /\ Typed
  BY ClearMoves DEF Inv
<1>3. PICK s : s = Program[thread[k].req]
  OBVIOUS
<1>4. PICK n \in Nat : n = thread[k].pc
  BY <1>1, <1>2, AtWork
<1>5. n + 1 \in DOMAIN s /\ s[n + 1].op = "load"
  BY <1>1, <1>2, <1>3, <1>4, AtWork DEF Followed
<1>6. Busy(k)' /\ thread'[k].req = thread[k].req /\ thread'[k].pc = n + 1
  BY <1>1, <1>2, <1>3, <1>4, <1>5, Landing
<1>7. Reloading(s, n + 1)
  <2>1. n + 1 <= n + 1 /\ (n + 1)..((n + 1) - 1) = {}
    OBVIOUS
  <2> QED
    BY <1>5, <2>1 DEF Reloading
<1>8. Reloads(k)'
  BY <1>3, <1>6, <1>7 DEF Reloads
<1>9. map'[Credential] = {} /\ map'[Group] = {}
  BY <1>1, RegistersAreThere
<1> QED
  BY <1>8, <1>9 DEF Followup

\* After a load without a rewrite the maps lack nothing.
LEMMA LoadingFollowup ==
  ASSUME Inv, intact, \A k \in Threads : ~InSection(k), LoadFiles, temp' = temp,
         \A c \in {Credential, Group} : map[c] \subseteq disk[c]
  PROVE  Followup'
<1>1. disk' = disk
  BY LoadingChangesNothing
<1>2. \A f \in Files : disk[f] # Gone
  BY DEF Inv, Kept, InSection, Rewriting
<1>3. Cached \subseteq Files /\ Cached \subseteq Maps /\ {Credential, Group, Pending} \subseteq Cached
  BY FileNames DEF Cached, Maps
<1>4. \A m \in Cached : map'[m] = map[m] \cup disk[m]
  BY <1>2, <1>3 DEF LoadFiles, Read
<1>5. Content(Pending)' = disk[Pending]
  BY <1>1, <1>2, <1>3 DEF Content
<1>6. /\ map'[Credential] = disk[Credential] /\ map'[Group] = disk[Group]
      /\ Content(Pending)' \subseteq map'[Pending]
  BY <1>3, <1>4, <1>5
<1> QED
  BY <1>1, <1>6 DEF Followup

\* A rewrite adds nothing to a file, and touches neither accounts nor groups.
LEMMA RewriteAddsNothing ==
  ASSUME Inv, intact, NEW k \in Threads, CopyFile(k) \/ RemoveFile(k) \/ RenameFile(k)
  PROVE  /\ \A c \in {Credential, Group} : disk'[c] = disk[c]
         /\ \A h \in Files : Content(h)' \subseteq Content(h)
<1>1. Typed /\ Locked /\ Kept /\ disk \in [Files -> (SUBSET Lines) \cup {Gone}]
  BY DEF Inv, Typed, Data
<1>2. CASE CopyFile(k)
  <2>1. At(k, "copy") /\ (Step(k).take => ~lock) /\ disk' = disk
    BY <1>2 DEF CopyFile
  <2>2. \A h \in Files : disk[h] # Gone
    BY <1>1, <2>1, NobodyRewrites
  <2> QED
    BY <2>1, <2>2 DEF Content
<1>3. CASE RemoveFile(k)
  <2>1. At(k, "remove") /\ Busy(k) /\ Step(k).op = "remove" /\ temp' = temp
        /\ disk' = [disk EXCEPT ![Step(k).file] = Gone]
    BY <1>3 DEF RemoveFile, At
  <2>2. PICK f \in Files \ {Credential, Group} : f = Step(k).file
    BY <1>1, <2>1, AtWork DEF Permitted
  <2>3. temp # Gone /\ disk[f] # Gone /\ temp \subseteq disk[f]
    BY <1>1, <2>1, <2>2 DEF Kept
  <2>4. disk'[f] = Gone /\ \A h \in Files \ {f} : disk'[h] = disk[h]
    BY <1>1, <2>1, <2>2
  <2>5. \A h \in Files : Content(h)' \subseteq Content(h)
    BY <2>1, <2>3, <2>4 DEF Content
  <2> QED
    BY <2>2, <2>4, <2>5, FileNames
<1>4. CASE RenameFile(k)
  <2>1. At(k, "rename") /\ Rewriting(k) /\ Busy(k) /\ Step(k).op = "rename" /\ temp' = Gone
        /\ disk' = [disk EXCEPT ![Step(k).file] = IF temp = Gone THEN @ ELSE temp]
    BY <1>4 DEF RenameFile, At, Rewriting
  <2>2. PICK f \in Files \ {Credential, Group} : f = Step(k).file
    BY <1>1, <2>1, AtWork DEF Permitted
  <2>3. temp # Gone /\ disk[f] = Gone
    BY <1>1, <2>1, <2>2 DEF Kept
  <2>4. \A h \in Files \ {f} : disk[h] # Gone
    BY <1>1, <2>1, <2>2, OneRewrites
  <2>5. disk'[f] = temp /\ \A h \in Files \ {f} : disk'[h] = disk[h]
    BY <1>1, <2>1, <2>2, <2>3
  <2>6. \A h \in Files : Content(h)' \subseteq Content(h)
    BY <2>1, <2>3, <2>4, <2>5 DEF Content
  <2> QED
    BY <2>2, <2>5, <2>6, FileNames
<1> QED
  BY <1>2, <1>3, <1>4

LEMMA WriteFollowup ==
  ASSUME Inv, intact', Followup, NEW k \in Threads, WriteFiles(k)
  PROVE  Followup'
<1>1. PICK w : w = Step(k)
  OBVIOUS
<1>2. /\ Busy(k) /\ w.op \in {"write", "append", "insert"} /\ (w.op = "write" => ~lock)
      /\ disk' = [f \in Files |-> Put(w, f)]
      /\ map' = [m \in Maps |-> map[m] \cup {a[2] : a \in {b \in w.insert : b[1] = m}}]
      /\ intact /\ Continue(k) /\ temp' = temp
  BY <1>1 DEF WriteFiles, At
<1>3. PICK r \in Requests : Permitted(r, w)
  BY <1>1, <1>2, AtWork DEF Inv
<1>4. Typed /\ Data /\ Locked /\ Kept /\ Moves(k, thread[k].pc + 1)
  BY <1>2, Continuing DEF Inv, Typed
<1>5. PICK s : s = Program[thread[k].req]
  OBVIOUS
<1>6. PICK n \in Nat : n = thread[k].pc
  BY <1>2, <1>4, AtWork
<1>7. Followed(s, n) /\ w = s[n]
  BY <1>1, <1>2, <1>4, <1>5, <1>6, AtWork
<1>8. /\ \A c \in {Credential, Group} : c \in Files /\ c \in Cached /\ c \in Maps /\ disk[c] # Gone
      /\ Pending \in Files /\ Pending \in Cached /\ Pending \in Maps
      /\ Credential \notin {Online, Pending} /\ Group \notin {Online, Pending}
  BY <1>2, RegistersAreThere, FileNames DEF Cached, Maps
<1>9. ASSUME NEW c \in {Credential, Group} PROVE map'[c] = map[c]
  <2>1. {b \in w.insert : b[1] = c} = {}
    BY <1>2, <1>3, <1>8 DEF Permitted
  <2> QED
    BY <1>2, <1>8, <2>1
<1>10. \A f \in Cached : f \notin w.empty
  <2>1. \A f \in Cached : ~StartsAfresh(r, f)
    <3>1. r.user \in Users /\ r.group \in Groups
      BY RequestsAssumption DEF Request
    <3> QED
      BY <3>1, FileNames DEF StartsAfresh
  <2> QED
    BY <1>2, <1>3, <2>1 DEF Permitted
<1>11. \A f \in Cached : w.op # "write" => ~\E a \in w.append : a[1] = f
  BY <1>2, <1>3 DEF Permitted
<1>12. ASSUME NEW c \in {Credential, Group}
       PROVE  disk[c] \subseteq disk'[c] /\ (disk'[c] # disk[c] => Reloads(k)')
  <2>1. Read(c) = disk[c] /\ disk'[c] = Put(w, c)
    BY <1>2, <1>8 DEF Read
  <2>2. disk[c] \subseteq disk'[c]
    BY <2>1, <1>2, <1>3, <1>4, <1>8, <1>10, Puts
  <2>3. ASSUME disk'[c] # disk[c] PROVE Reloads(k)'
    <3>1. PICK a \in w.append : a[1] = c
      BY <2>1, <2>3, <1>2, <1>3, <1>4, <1>8, <1>10, Puts
    <3>2. w.op = "write"
      BY <3>1, <1>8, <1>11
    <3>3. Reloading(s, n + 1)
      BY <3>1, <3>2, <1>7 DEF Followed
    <3>4. n + 1 \in DOMAIN s
      <4>1. PICK m \in DOMAIN s : n + 1 <= m
        BY <3>3 DEF Reloading
      <4>2. m \in Nat /\ 1..m \subseteq DOMAIN s
        BY <4>1, <1>2, <1>4, <1>5, AtWork, Positions
      <4> QED
        BY <4>1, <4>2
    <3>5. Busy(k)' /\ thread'[k].req = thread[k].req /\ thread'[k].pc = n + 1
      BY <1>2, <1>4, <1>5, <1>6, <3>4, Landing
    <3> QED
      BY <1>5, <3>3, <3>5 DEF Reloads
  <2> QED
    BY <2>2, <2>3
<1>13. \A a \in w.insert : a[1] = Pending => a[2] \in map'[Pending]
  BY <1>2, <1>8
<1>14. map[Pending] \subseteq map'[Pending]
  BY <1>2, <1>8
<1>15. ASSUME NEW line \in Content(Pending)' \ Content(Pending)
       PROVE  \/ line \in map'[Pending]
              \/ At(k, "insert")' /\ \E a \in Step(k)'.insert : a[1] = Pending /\ a[2] = line
  <2>1. disk'[Pending] # disk[Pending]
    BY <1>2, <1>15 DEF Content
  <2>2. w.op = "write"
    BY <2>1, <1>2, <1>3, <1>4, <1>8, <1>10, <1>11, Puts
  <2>3. disk[Pending] # Gone /\ disk[Pending] \subseteq LinesOf(Pending)
    BY <1>2, <1>4, <1>8, <2>2 DEF Locked, Kept, InSection, Rewriting
  <2>4. disk'[Pending] # Gone
    BY <2>3, <1>2, <1>3, <1>4, <1>8, Puts, NotGone
  <2>5. line \in Put(w, Pending) \ disk[Pending]
    BY <1>2, <1>8, <1>15, <2>3, <2>4 DEF Content
  <2>6. PICK a \in w.append : a[1] = Pending /\ a[2] = line
    BY <2>3, <2>5, <1>2, <1>3, <1>4, <1>8, Puts
  <2>7. a \in w.insert \/ (n + 1 \in DOMAIN s /\ s[n + 1].op = "insert" /\ a \in s[n + 1].insert)
    BY <1>7, <2>2, <2>6 DEF Followed
  <2>8. CASE a \in w.insert
    BY <2>6, <2>8, <1>13
  <2>9. CASE n + 1 \in DOMAIN s /\ s[n + 1].op = "insert" /\ a \in s[n + 1].insert
    <3>1. Busy(k)' /\ Step(k)' = s[n + 1]
      BY <1>2, <1>4, <1>5, <1>6, <2>9, Landing
    <3> QED
      BY <2>6, <2>9, <3>1 DEF At
  <2> QED
    BY <2>7, <2>8, <2>9
<1>16. ~Reloads(k)
  BY <1>1, <1>2, <1>4, Reloaders
<1>17. \A j \in Threads \ {k} : Stays(j)
  BY <1>4 DEF Moves
<1> QED
  BY <1>1, <1>9, <1>12, <1>13, <1>14, <1>15, <1>16, <1>17, FollowupStays

\* A handler's step, with the process running on.
LEMMA RunFollowup ==
  ASSUME Inv, intact', NEW k \in Threads, Run(k), up'
  PROVE  Followup'
<1>1. intact /\ Busy(k)
  <2>1. intact' => intact
    BY DEF Run, ClearMaps, LoadMaps, LoadMembers, LookUp, FindGroup, CompareOwner, WriteFiles,
           OpenFile, SearchFile, CopyFile, RemoveFile, RenameFile, StrayUnlock, Jumps, SyncFile, Die
  <2>2. Busy(k)
    BY DEF Run, ClearMaps, LoadMaps, LoadMembers, LookUp, FindGroup, CompareOwner, WriteFiles,
           OpenFile, SearchFile, CopyFile, RemoveFile, RenameFile, StrayUnlock, Jumps, SyncFile, At
  <2> QED
    BY <2>1, <2>2
<1>2. Typed /\ up /\ Followup /\ Locked /\ Kept /\ map \in [Maps -> SUBSET Lines]
  BY <1>1, BusyIsUp DEF Inv, Typed, Data
<1>3. CASE ClearMaps(k)
  BY <1>1, <1>3, ClearFollowup
<1>4. CASE LoadMaps(k)
  <2>1. ~lock /\ LoadFiles /\ temp' = temp
    BY <1>4 DEF LoadMaps
  <2>2. \A j \in Threads : ~InSection(j)
    BY <1>2, <2>1 DEF Locked
  <2> QED
    BY <1>1, <1>2, <2>1, <2>2, LoadingFollowup DEF Followup
<1>5. CASE LoadMembers(k)
  <2>1. /\ Step(k).op = "members" /\ Continue(k) /\ UNCHANGED <<disk, temp>>
        /\ map' = [map EXCEPT ![GroupMembers] = Read(Step(k).file)]
    BY <1>5 DEF LoadMembers, At
  <2>2. \A m \in {Credential, Group, Pending} : map'[m] = map[m]
    BY <1>2, <2>1 DEF GroupMembers, Credential, Group, Pending, Maps, Cached
  <2>3. Content(Pending)' = Content(Pending)
    BY <2>1 DEF Content
  <2>4. \A j \in Threads \ {k} : Stays(j)
    BY <1>1, <1>2, <2>1, Continuing DEF Moves
  <2> QED
    BY <1>1, <1>2, <2>1, <2>2, <2>3, <2>4, QuietFollowup
<1>6. CASE LookUp(k) \/ FindGroup(k) \/ CompareOwner(k) \/ OpenFile(k) \/ SearchFile(k)
             \/ Jumps(k) \/ StrayUnlock(k)
  <2>1. Step(k).op \notin {"clear", "load", "write", "append", "insert", "sync"}
    BY <1>6 DEF LookUp, FindGroup, CompareOwner, OpenFile, SearchFile, Jumps, StrayUnlock, At
  <2>2. UNCHANGED <<disk, temp, map>>
    BY <1>6 DEF LookUp, FindGroup, CompareOwner, OpenFile, SearchFile, Jumps, StrayUnlock, shared
  <2>3. Content(Pending)' = Content(Pending)
    BY <2>2 DEF Content
  <2>4. StrayUnlock(k) => Continue(k)
    BY DEF StrayUnlock
  <2>5. \E m : Moves(k, m)
    BY <1>1, <1>2, <1>6, <2>4, LookMoves, FindMoves, CompareMoves, OpenMoves, SearchMoves,
       GotoMoves, Continuing
  <2>6. \A j \in Threads \ {k} : Stays(j)
    BY <2>5 DEF Moves
  <2> QED
    BY <1>1, <1>2, <2>1, <2>2, <2>3, <2>6, QuietFollowup
<1>7. CASE WriteFiles(k)
  BY <1>2, <1>7, WriteFollowup
<1>8. CASE CopyFile(k) \/ RemoveFile(k) \/ RenameFile(k)
  <2>1. Step(k).op \in {"copy", "remove", "rename"} /\ map' = map
    BY <1>8 DEF CopyFile, RemoveFile, RenameFile, At
  <2>2. /\ \A c \in {Credential, Group} : disk'[c] = disk[c]
        /\ Content(Pending)' \subseteq Content(Pending)
    BY <1>1, <1>8, RewriteAddsNothing, FileNames
  <2>3. Moves(k, thread[k].pc + 1)
    BY <1>1, <1>2, <1>8, RemoveMoves, Continuing DEF CopyFile, RenameFile
  <2>4. \A j \in Threads \ {k} : Stays(j)
    BY <2>3 DEF Moves
  <2> QED
    BY <1>1, <1>2, <2>1, <2>2, <2>4, QuietFollowup
<1>9. CASE SyncFile(k)
  <2>1. Step(k).op = "sync" /\ Continue(k) /\ UNCHANGED <<disk, temp, map>>
    BY <1>9 DEF SyncFile, At, Die, shared
  <2>2. Content(Pending)' = Content(Pending)
    BY <2>1 DEF Content
  <2>3. Moves(k, thread[k].pc + 1) /\ \A j \in Threads \ {k} : Stays(j)
    BY <1>1, <1>2, <2>1, Continuing DEF Moves
  <2> QED
    BY <1>1, <1>2, <2>1, <2>2, <2>3, QuietFollowup
<1> QED
  BY <1>3, <1>4, <1>5, <1>6, <1>7, <1>8, <1>9 DEF Run

LEMMA RestartFollowup ==
  ASSUME Inv, intact, Restart
  PROVE  Followup'
<1>1. Typed /\ ~up /\ LoadFiles /\ temp' = temp /\ map = [m \in Maps |-> {}]
  BY DEF Restart, Inv
<1>2. \A k \in Threads : ~InSection(k)
  BY <1>1, FreeIsPlaced DEF Typed, Busy, InSection, Rewriting, At
<1>3. \A c \in {Credential, Group} : map[c] = {}
  BY <1>1, RegistersAreThere
<1> QED
  BY <1>1, <1>2, <1>3, LoadingFollowup

LEMMA AcceptFollowup ==
  ASSUME Inv, intact, NEW k \in Threads, NEW r \in Requests, Accept(k, r)
  PROVE  Followup'
<1>1. Typed /\ up /\ Followup /\ ~Busy(k) /\ UNCHANGED <<disk, temp, map>>
  BY DEF Accept, Inv, shared
<1>2. \A j \in Threads \ {k} : Stays(j)
  BY DEF Accept, Stays, Inv, Typed, Placing
<1>3. ~Reloads(k) /\ ~At(k, "insert")
  BY <1>1 DEF Reloads, At
<1>4. Content(Pending)' = Content(Pending)
  BY <1>1 DEF Content
<1> QED
  BY <1>1, <1>2, <1>3, <1>4, FollowupStays

LEMMA EveryStepFollowsUp ==
  ASSUME Inv, Next, intact'
  PROVE  IF up' THEN Followup' ELSE map' = [m \in Maps |-> {}]
<1>1. ASSUME NEW k \in Threads, Run(k)
      PROVE  IF up' THEN Followup' ELSE map' = [m \in Maps |-> {}]
  <2>1. CASE up'
    BY <1>1, <2>1, RunFollowup
  <2>2. CASE ~up'
    <3>1. Busy(k)
      BY <1>1 DEF Run, ClearMaps, LoadMaps, LoadMembers, LookUp, FindGroup, CompareOwner,
         WriteFiles, OpenFile, SearchFile, CopyFile, RemoveFile, RenameFile, StrayUnlock,
         Jumps, SyncFile, At
    <3>2. Unchanged \/ Die
      BY <1>1 DEF Run, ClearMaps, LoadMaps, LoadMembers, LookUp, FindGroup, CompareOwner,
         WriteFiles, OpenFile, SearchFile, CopyFile, RemoveFile, RenameFile, StrayUnlock,
         Jumps, SyncFile
    <3>3. up
      BY <3>1, BusyIsUp DEF Inv
    <3> QED
      BY <2>2, <3>2, <3>3 DEF Die, Unchanged
  <2> QED
    BY <2>1, <2>2
<1>2. ASSUME NEW k \in Threads, NEW r \in Requests, Accept(k, r)
      PROVE  IF up' THEN Followup' ELSE map' = [m \in Maps |-> {}]
  BY <1>2, AcceptFollowup DEF Accept
<1>3. CASE Race \/ Kill
  BY <1>3 DEF Race, Kill, Die
<1>4. CASE Restart
  BY <1>4, RestartFollowup DEF Restart
<1> QED
  BY <1>1, <1>2, <1>3, <1>4 DEF Next

----------------------------------------------------------------------------
(* The invariant holds.                                                    *)

LEMMA InitInv == Init => Inv
<1> SUFFICES ASSUME Init PROVE Inv
  OBVIOUS
<1>1. /\ disk = Stored /\ temp = Gone /\ lock = FALSE /\ up = TRUE /\ intact = TRUE
      /\ map = [m \in Maps |-> IF m \in Cached THEN Stored[m] ELSE {}]
      /\ thread = [k \in Threads |-> Free] /\ requests = 0 /\ kills = 0
  BY DEF Init
<1>2. \A k \in Threads : ~Busy(k)
  BY <1>1, FreeIsPlaced DEF Busy
<1>3. \A k \in Threads : ~InSection(k) /\ ~Rewriting(k) /\ ~At(k, "remove") /\ ~At(k, "rename")
  BY <1>2 DEF InSection, Rewriting, At
<1>4. Cached \subseteq Files /\ Cached \subseteq Maps /\ {Credential, Group, Pending} \subseteq Cached
  BY FileNames DEF Cached, Maps
<1>5. \A f \in Files : disk[f] # Gone /\ disk[f] \subseteq LinesOf(f)
  BY <1>1, StoredAssumption, NotGone
<1>6. Typed
  <2>1. Placing
    BY <1>1, FreeIsPlaced DEF Placing, Placed
  <2>2. \A m \in Cached : map[m] = disk[m]
    BY <1>1, <1>4
  <2>3. map \in [Maps -> SUBSET Lines]
    BY <1>1, <1>4, StoredAssumption
  <2>4. 0 \in 0..MaxRequests /\ 0 \in 0..MaxKills
    BY BoundsAssumption
  <2>5. Data
    BY <1>1, <1>4, <1>5, <2>2, <2>3, <2>4, StoredAssumption DEF Data
  <2> QED
    BY <1>1, <2>1, <2>5 DEF Typed
<1>7. Locked /\ Kept
  BY <1>1, <1>3, <1>5 DEF Locked, Kept
<1>8. Followup
  BY <1>1, <1>4, <1>5 DEF Followup, Content
<1> QED
  BY <1>1, <1>6, <1>7, <1>8 DEF Inv

LEMMA Stuttering == Inv /\ UNCHANGED vars => Inv'
<1> SUFFICES ASSUME Inv, UNCHANGED vars PROVE Inv'
  OBVIOUS
<1>1. UNCHANGED <<disk, temp, map, lock, thread, up, requests, kills, intact>>
  BY DEF vars, shared
<1>2. Typed' <=> Typed
  BY <1>1 DEF Typed, Placing, Data
<1>3. \A k \in Threads : Stays(k)
  BY <1>1 DEF Stays
<1>4. Content(Pending)' = Content(Pending)
  BY <1>1 DEF Content
<1>5. Locked' <=> Locked
  BY <1>1, <1>3, Staying DEF Locked
<1>6. Kept' <=> Kept
  BY <1>1, <1>3, Staying DEF Kept
<1>7. Followup' <=> Followup
  BY <1>1, <1>3, <1>4, Staying DEF Followup
<1> QED
  BY <1>1, <1>2, <1>5, <1>6, <1>7 DEF Inv

LEMMA NextInv == Inv /\ [Next]_vars => Inv'
<1>1. Inv /\ Next => Inv'
  BY EveryStepIsSafe, EveryStepFollowsUp DEF Inv, Safe
<1> QED
  BY <1>1, Stuttering

LEMMA Invariance == Spec => []Inv
BY InitInv, NextInv, PTL DEF Spec

----------------------------------------------------------------------------
(* The theorems.                                                           *)

\* The tracker's state is well-formed whatever the handler threads do to each
\* other: every thread of TrackerServer is free or at a step of its request's
\* handler, and the files and the maps hold lines.
THEOREM TypeCorrect == Spec => []TypeOK
<1>1. Inv => TypeOK
  BY DEF Inv, Typed, Placing, Placed, Data, TypeOK, Thread, Busy
<1> QED
  BY <1>1, Invariance, PTL

\* .temp.txt, which DeleteLine opens to append, is empty whenever a thread opens
\* it, so that no line of one file gets into another, and it is left behind by
\* nobody: file_lock excludes every other rewrite from the copy to the rename.
THEOREM FilesStayApart == Spec => []FilesDoNotMix
<1>1. Inv => FilesDoNotMix
  <2> SUFFICES ASSUME Inv, intact
               PROVE  /\ \A f \in Files : Content(f) \subseteq LinesOf(f)
                      /\ temp # Gone => \E k \in Threads : Rewriting(k)
    BY DEF FilesDoNotMix
  <2>1. Kept
    BY DEF Inv
  <2>2. ASSUME NEW f \in Files PROVE Content(f) \subseteq LinesOf(f)
    <3>1. CASE disk[f] # Gone
      BY <2>1, <3>1 DEF Kept, Content
    <3>2. CASE disk[f] = Gone
      <4>1. PICK k \in Threads : At(k, "rename") /\ Step(k).file = f
        BY <2>1, <3>2 DEF Kept
      <4>2. temp # Gone /\ temp \subseteq LinesOf(f)
        BY <2>1, <4>1 DEF Kept
      <4> QED
        BY <3>2, <4>2 DEF Content
    <3> QED
      BY <3>1, <3>2
  <2> QED
    BY <2>1, <2>2 DEF Kept
<1> QED
  BY <1>1, Invariance, PTL

\* A line goes away only because a thread at work was asked to remove it, or is
\* the write with which create_user or create_group start their files afresh, taken
\* or not: what other handlers append between DeleteLine's copy and its rename is
\* not lost.
THEOREM LossesHaveACause == Spec => NothingElseIsLost
<1> DEFINE Lost == intact' =>
      \A f \in Files : \A line \in Content(f) \ Content(f)' :
        \E k \in Threads :
          \/ Busy(k) /\ Removes(thread[k].req, f, line)
          \/ At(k, "write") /\ StartsAfresh(thread[k].req, f)
<1>1. Inv /\ [Next]_vars => [Lost]_vars
  <2>1. Inv /\ Next => Lost
    BY EveryStepIsSafe DEF Safe, AskedFor
  <2> QED
    BY <2>1
<1>2. Spec => [][Lost]_vars
  BY <1>1, Invariance, PTL DEF Spec
<1> QED
  BY <1>2 DEF NothingElseIsLost

\* When no thread is at work the maps hold every account, group and request of
\* the files, although FetchDetails empties them without the lock: whoever
\* cleared them, or added an account or a group, loads them before it ends.
THEOREM MapsDoCatchUp == Spec => []MapsCatchUp
<1>1. Inv => MapsCatchUp
  <2> SUFFICES ASSUME Inv, intact, up, \A k \in Threads : ~Busy(k)
               PROVE  /\ map[Credential] = Read(Credential)
                      /\ map[Group] = Read(Group)
                      /\ Read(Pending) \subseteq map[Pending]
    BY DEF MapsCatchUp
  <2>1. Followup
    BY DEF Inv
  <2>2. \A k \in Threads : ~Reloads(k) /\ ~At(k, "insert")
    BY DEF Reloads, At
  <2>3. Read(Credential) = disk[Credential] /\ Read(Group) = disk[Group]
    BY RegistersAreThere DEF Read
  <2>4. Read(Pending) \subseteq Content(Pending)
    BY DEF Read, Content
  <2> QED
    BY <2>1, <2>2, <2>3, <2>4 DEF Followup
<1> QED
  BY <1>1, Invariance, PTL
=============================================================================
