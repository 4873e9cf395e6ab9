------------------------- MODULE TrackerSyncProofs -------------------------
(***************************************************************************)
(* Theorems about TrackerSync, for every number of handler threads, files, *)
(* requests and crashes.                                                   *)
(***************************************************************************)
EXTENDS TrackerSync, NaturalSets, SequenceTheorems, TLAPS

----------------------------------------------------------------------------
(* The operators of the model.                                             *)

\* The sibling is the other one of the two trackers.
LEMMA Sibling ==
  ASSUME NEW t \in Trackers
  PROVE  /\ GetTracker2(t) \in Trackers
         /\ GetTracker2(t) # t
         /\ \A u \in Trackers : u = t \/ u = GetTracker2(t)
BY TrackersAssumption DEF GetTracker2

\* A line is a sequence of its bytes.
LEMMA TextFacts ==
  ASSUME NEW l \in Lines
  PROVE  /\ Width[l] \in Nat \ {0}
         /\ Text(l) \in Seq(Bytes) /\ Len(Text(l)) = Width[l]
         /\ \A i \in 1..Width[l] : Text(l)[i] = <<l, i>>
<1>1. PICK n \in Nat \ {0} : n = Width[l]
  BY WidthAssumption
<1>2. \A i \in 1..n : <<l, i>> \in Bytes
  BY DEF Bytes
<1>3. Text(l) = [i \in 1..n |-> <<l, i>>]
  BY <1>1 DEF Text
<1>4. Text(l) \in [1..n -> Bytes]
  BY <1>2, <1>3
<1>5. Text(l) \in Seq(Bytes) /\ Len(Text(l)) = n
  BY <1>4
<1> QED
  BY <1>1, <1>3, <1>5

\* What a push leaves behind: at every place the pushed byte or the one before.
LEMMA OverwriteFacts ==
  ASSUME NEW b \in Seq(Bytes), NEW c \in Seq(Bytes)
  PROVE  /\ Overwrite(b, c) \in Seq(Bytes)
         /\ Len(Overwrite(b, c)) = IF Len(b) >= Len(c) THEN Len(b) ELSE Len(c)
         /\ \A i \in 1..Len(Overwrite(b, c)) :
              Overwrite(b, c)[i] = IF i <= Len(b) THEN b[i] ELSE c[i]
<1>1. CASE Len(b) >= Len(c)
  BY <1>1 DEF Overwrite
<1>2. CASE ~(Len(b) >= Len(c))
  <2> DEFINE r == SubSeq(c, Len(b) + 1, Len(c))
  <2>1. /\ r \in Seq(Bytes)
        /\ Len(r) = Len(c) - Len(b)
        /\ \A i \in 1..Len(r) : r[i] = c[Len(b) + i]
    BY <1>2
  <2>2. Overwrite(b, c) = b \o r
    BY <1>2 DEF Overwrite
  <2> HIDE DEF r
  <2>3. /\ b \o r \in Seq(Bytes)
        /\ Len(b \o r) = Len(c)
        /\ \A i \in 1..Len(c) : (b \o r)[i] = IF i <= Len(b) THEN b[i] ELSE r[i - Len(b)]
    BY <2>1, ConcatProperties
  <2>4. \A i \in 1..Len(c) : ~(i <= Len(b)) => i - Len(b) \in 1..Len(r)
    BY <2>1, <1>2
  <2>5. \A i \in 1..Len(c) : ~(i <= Len(b)) => r[i - Len(b)] = c[i]
    BY <2>1, <2>4
  <2> QED
    BY <1>2, <2>2, <2>3, <2>5
<1> QED
  BY <1>1, <1>2

\* DeleteLine after each of the first m bytes, when those in D are dropped.
Copied(c, D, m, g) ==
  g = [n \in 0..m |-> IF n = 0 THEN <<>>
                      ELSE IF n \in D THEN g[n - 1] ELSE Append(g[n - 1], c[n])]

LEMMA CopyUnrolls ==
  ASSUME NEW c, NEW D, NEW k \in Nat
  PROVE  \E g : Copied(c, D, k, g)
<1> DEFINE S == {m \in Nat : \E g : Copied(c, D, m, g)}
<1>1. 0 \in S
  <2> DEFINE g == [n \in 0..0 |-> <<>>]
  <2>1. Copied(c, D, 0, g)
    BY DEF Copied
  <2> QED
    BY <2>1
<1>2. ASSUME NEW m \in Nat, m \in S PROVE m + 1 \in S
  <2>1. PICK g : Copied(c, D, m, g)
    BY <1>2
  <2>2. PICK x : x = IF m + 1 \in D THEN g[m] ELSE Append(g[m], c[m + 1])
    OBVIOUS
  <2> DEFINE h == [n \in 0..(m + 1) |-> IF n = m + 1 THEN x ELSE g[n]]
  <2>3. ASSUME NEW n \in 0..(m + 1)
        PROVE  h[n] = IF n = 0 THEN <<>>
                      ELSE IF n \in D THEN h[n - 1] ELSE Append(h[n - 1], c[n])
    <3>1. CASE n = m + 1
      <4>1. n - 1 = m /\ m \in 0..(m + 1) /\ m # m + 1 /\ n # 0
        BY <3>1
      <4>2. h[m] = g[m] /\ h[n] = x
        BY <3>1, <4>1
      <4> HIDE DEF h
      <4> QED
        BY <2>2, <3>1, <4>1, <4>2
    <3>2. CASE n # m + 1
      <4>1. n \in 0..m /\ h[n] = g[n]
        BY <3>2
      <4>2. n # 0 => n - 1 \in 0..(m + 1) /\ n - 1 # m + 1 /\ h[n - 1] = g[n - 1]
        BY <3>2
      <4>3. g[n] = IF n = 0 THEN <<>>
                   ELSE IF n \in D THEN g[n - 1] ELSE Append(g[n - 1], c[n])
        BY <2>1, <4>1 DEF Copied
      <4> HIDE DEF h
      <4> QED
        BY <4>1, <4>2, <4>3
    <3> QED
      BY <3>1, <3>2
  <2>4. h = [n \in 0..(m + 1) |-> h[n]]
    OBVIOUS
  <2>5. Copied(c, D, m + 1, h)
    <3> HIDE DEF h
    <3> QED
      BY <2>3, <2>4 DEF Copied
  <2>6. \E f : Copied(c, D, m + 1, f)
    BY <2>5
  <2> QED
    BY <2>6
<1>3. Nat \subseteq S
  <2> HIDE DEF S
  <2> QED
    BY <1>1, <1>2, Induction
<1> QED
  BY <1>3

\* DeleteLine leaves bytes of the file.
LEMMA DeleteLineFacts ==
  ASSUME NEW c \in Seq(Bytes), NEW l
  PROVE  DeleteLine(c, l) \in Seq(Bytes)
<1> DEFINE D == {n \in DOMAIN c : \E i \in DOMAIN c :
                   StandsAt(c, i, l) /\ n \in i..(i + Width[l] - 1)}
<1> DEFINE g == CHOOSE f : Copied(c, D, Len(c), f)
<1>1. Len(c) \in Nat
  OBVIOUS
<1>2. Copied(c, D, Len(c), g)
  <2>1. \E f : Copied(c, D, Len(c), f)
    BY <1>1, CopyUnrolls
  <2> QED
    BY <2>1
<1>3. DeleteLine(c, l) = g[Len(c)]
  BY DEF DeleteLine, Copied
<1> HIDE DEF g, D
<1> DEFINE S == {m \in Nat : m <= Len(c) => g[m] \in Seq(Bytes)}
<1>4. 0 \in S
  <2>1. 0 \in 0..Len(c)
    BY <1>1
  <2>2. g[0] = <<>>
    BY <1>2, <2>1 DEF Copied
  <2>3. <<>> \in Seq(Bytes)
    OBVIOUS
  <2> QED
    BY <2>2, <2>3
<1>5. ASSUME NEW m \in Nat, m \in S, m + 1 <= Len(c)
      PROVE  g[m + 1] \in Seq(Bytes)
  <2>1. m + 1 \in 0..Len(c) /\ m + 1 \in 1..Len(c) /\ m <= Len(c) /\ (m + 1) - 1 = m /\ m + 1 # 0
    BY <1>1, <1>5
  <2>2. PICK v \in Seq(Bytes) : v = g[m]
    BY <1>5, <2>1
  <2>3. g[m + 1] = IF m + 1 \in D THEN v ELSE Append(v, c[m + 1])
    BY <1>2, <2>1, <2>2 DEF Copied
  <2>4. PICK x \in Bytes : x = c[m + 1]
    BY <2>1
  <2>5. Append(v, x) \in Seq(Bytes)
    OBVIOUS
  <2> QED
    BY <2>2, <2>3, <2>4, <2>5
<1>6. Nat \subseteq S
  <2>1. ASSUME NEW m \in Nat, m \in S PROVE m + 1 \in S
    BY <2>1, <1>5
  <2> HIDE DEF S
  <2> QED
    BY <1>4, <2>1, Induction
<1> QED
  BY <1>1, <1>3, <1>6

----------------------------------------------------------------------------
(* Type correctness, and where lines can be.                               *)

\* A thread past its probe has a file.
FileChosen ==
  \A t \in Trackers, k \in Slots :
    thread[t][k].pc \notin {"free", "sync"} => thread[t][k].file \in Files

TypeInv == TypeOK /\ FileChosen

\* The step is a deletion.
Deletion ==
  \E t \in Trackers, k \in Slots, f \in Files, l \in Lines : AcceptDelete(t, k, f, l)

LEMMA NoDeletion == ~Deletes => ~Deletion
<1>1. ASSUME NEW t, NEW k, NEW f, NEW l, AcceptDelete(t, k, f, l)
      PROVE  Deletes
  BY <1>1, Zenon DEF AcceptDelete
<1> QED
  BY <1>1 DEF Deletion

LEMMA EmptyIsContents == << >> \in Contents
BY DEF Contents

LEMMA FreeIsThread == Free \in Thread
<1>1. 0 \in 0..MaxWrites
  BY BoundsAssumption
<1> QED
  BY <1>1, EmptyIsContents DEF Free, Thread

\* A thread that has yet to call Sync.
LEMMA SyncingThread ==
  ASSUME NEW todo \in SUBSET Files, NEW line \in 0..MaxWrites
  PROVE  LET th == [Free EXCEPT !.pc = "sync", !.todo = todo, !.line = line] IN
         th \in Thread /\ th.pc = "sync" /\ th.data = << >> /\ th.file = NoFile
BY FreeIsThread DEF Free, Thread

\* A thread that goes to its next step.
LEMMA GotoFacts ==
  ASSUME TypeOK, NEW t \in Trackers, NEW k \in Slots, NEW th \in Thread
  PROVE  /\ Goto(t, k, th) \in [Trackers -> [Slots -> Thread]]
         /\ \A u \in Trackers, j \in Slots :
              Goto(t, k, th)[u][j] = IF u = t /\ j = k THEN th ELSE thread[u][j]
BY DEF TypeOK, Goto

LEMMA TypeInit == Init \/ InitServing => TypeInv
<1>1. SUFFICES ASSUME Empty, status \in [Trackers -> {"down", "serving"}]
               PROVE  TypeInv
  BY DEF Init, InitServing
<1>2. TypeOK
  <2>1. 0 \in 0..MaxWrites /\ 0 \in 0..Batch /\ 0 \in 0..MaxCrashes
    BY BoundsAssumption
  <2> QED
    BY <1>1, <2>1, EmptyIsContents, FreeIsThread DEF Empty, TypeOK
<1>3. FileChosen
  BY <1>1 DEF Empty, FileChosen, Free
<1> QED
  BY <1>2, <1>3 DEF TypeInv

LEMMA TypeNext ==
  ASSUME ~Deletion, TypeInv, [Next]_vars
  PROVE  TypeInv'
<1>a. TypeOK /\ FileChosen
  BY DEF TypeInv
<1>b. MaxWrites \in Nat /\ Batch \in Nat /\ MaxCrashes \in Nat
  BY BoundsAssumption
<1>1. ASSUME NEW t \in Trackers, AcceptOther(t) \/ Join(t)
      PROVE  TypeInv'
  <2>1. counter' \in [Trackers -> 0..Batch]
    BY <1>a, <1>1, BoundsAssumption DEF AcceptOther, Join, Accepting, TypeOK
  <2> QED
    BY <1>a, <1>1, <2>1
       DEF AcceptOther, Join, TypeOK, FileChosen, TypeInv
<1>2. ASSUME NEW t \in Trackers, NEW k \in Slots, NEW f \in Files, AcceptAppend(t, k, f)
      PROVE  TypeInv'
  <2> DEFINE th == [Free EXCEPT !.pc = "sync", !.todo = {f}, !.line = writes']
  <2>1. writes' = writes + 1 /\ writes \in 0..MaxWrites /\ writes' \in 1..MaxWrites
    BY <1>a, <1>2, BoundsAssumption DEF AcceptAppend, TypeOK
  <2>2. disk[t][f] \in Seq(Bytes) /\ Text(writes') \in Seq(Bytes)
    <3>1. writes' \in Lines
      BY <2>1 DEF Lines
    <3> QED
      BY <1>a, <3>1, TextFacts DEF TypeOK, Contents
  <2>3. disk[t][f] \o Text(writes') \in Contents
    BY <2>2, ConcatProperties DEF Contents
  <2>4. disk' \in [Trackers -> [Files -> Contents]]
    BY <1>a, <1>2, <2>3 DEF AcceptAppend, TypeOK
  <2>5. /\ th \in Thread /\ th.data = << >> /\ th.pc = "sync"
        /\ thread' = Goto(t, k, th)
    <3>1. writes' \in 0..MaxWrites
      BY <2>1
    <3> QED
      BY <1>2, <3>1, SyncingThread DEF AcceptAppend
  <2> HIDE DEF th
  <2>6. /\ thread' \in [Trackers -> [Slots -> Thread]]
        /\ \A u \in Trackers, j \in Slots :
             thread'[u][j] = IF u = t /\ j = k THEN th ELSE thread[u][j]
    BY <1>a, <2>5, GotoFacts
  <2>7. counter' \in [Trackers -> 0..Batch]
    BY <1>a, <1>2, BoundsAssumption DEF AcceptAppend, Accepting, TypeOK
  <2>8. TypeOK'
    BY <1>a, <1>2, <2>1, <2>4, <2>6, <2>7 DEF AcceptAppend, TypeOK
  <2>9. FileChosen'
    BY <1>a, <2>5, <2>6 DEF FileChosen
  <2> QED
    BY <2>8, <2>9 DEF TypeInv
<1>3. ASSUME NEW t \in Trackers, NEW k \in Slots, NEW th \in Thread,
             thread' = Goto(t, k, th),
             th.pc \notin {"free", "sync"} => th.file \in Files,
             UNCHANGED <<writes, crashes, stuck>>,
             status' = status \/ \E s \in Trackers : status' = [status EXCEPT ![s] = "listen"],
             counter' \in [Trackers -> 0..Batch],
             answered' \subseteq Lines,
             disk' \in [Trackers -> [Files -> Contents]],
             closing' \subseteq [at : Trackers, file : Files, data : Contents]
      PROVE  TypeInv'
  <2>1. /\ thread' \in [Trackers -> [Slots -> Thread]]
        /\ \A u \in Trackers, j \in Slots :
             thread'[u][j] = IF u = t /\ j = k THEN th ELSE thread[u][j]
    BY <1>a, <1>3, GotoFacts
  <2>2. status' \in [Trackers ->
                   {"down", "probe", "connect", "handshake", "listen", "serving"}]
    BY <1>a, <1>3 DEF TypeOK
  <2>3. TypeOK'
    BY <1>a, <1>3, <2>1, <2>2 DEF TypeOK
  <2>4. FileChosen'
    BY <1>a, <1>3, <2>1 DEF FileChosen
  <2> QED
    BY <2>3, <2>4 DEF TypeInv
<1>c. ASSUME UNCHANGED <<disk, closing>>
      PROVE  /\ disk' \in [Trackers -> [Files -> Contents]]
             /\ closing' \subseteq [at : Trackers, file : Files, data : Contents]
  BY <1>a, <1>c DEF TypeOK
<1>d. ASSUME NEW t \in Trackers, NEW k \in Slots
      PROVE  /\ thread[t][k] \in Thread
             /\ thread[t][k].pc \notin {"free", "sync"} => thread[t][k].file \in Files
  BY <1>a DEF TypeOK, FileChosen
<1>e. /\ counter \in [Trackers -> 0..Batch]
      /\ answered \subseteq Lines
  BY <1>a DEF TypeOK
<1>4. ASSUME NEW t \in Trackers, NEW k \in Slots, Finish(t, k)
      PROVE  TypeInv'
  <2>1. Free \in Thread /\ Free.pc = "free"
    BY FreeIsThread DEF Free
  <2>2. answered' \subseteq Lines
    <3>1. thread[t][k].line \in 0..MaxWrites
      BY <1>d DEF Thread
    <3>2. {thread[t][k].line} \ {0} \subseteq Lines
      BY <1>b, <3>1 DEF Lines
    <3> QED
      BY <1>4, <1>e, <3>2 DEF Finish
  <2> QED
    BY <1>3, <1>4, <1>c, <1>e, <2>1, <2>2 DEF Finish
<1>5. ASSUME NEW t \in Trackers, NEW k \in Slots, NEW f \in Files, SyncProbe(t, k, f)
      PROVE  TypeInv'
  <2>1. PICK th \in Thread : /\ thread' = Goto(t, k, th)
                             /\ th.data = thread[t][k].data
                             /\ th.pc \notin {"free", "sync"} => th.file \in Files
    <3> DEFINE rest == [thread[t][k] EXCEPT !.todo = @ \ {f}]
               conn == [rest EXCEPT !.pc = "connect", !.file = f,
                                    !.replaced = FALSE, !.linked = TRUE]
    <3>1. rest \in Thread /\ rest.data = thread[t][k].data /\ rest.pc = thread[t][k].pc
      BY <1>d DEF Thread
    <3>2. conn \in Thread /\ conn.data = thread[t][k].data /\ conn.file \in Files
      BY <1>d DEF Thread
    <3>3. thread' = Goto(t, k, rest) \/ thread' = Goto(t, k, conn)
      BY <1>5 DEF SyncProbe
    <3>4. rest.pc = "sync"
      BY <1>5, <3>1 DEF SyncProbe
    <3> QED
      BY <3>1, <3>2, <3>3, <3>4
  <2> QED
    BY <1>3, <1>5, <1>c, <1>d, <1>e, <2>1 DEF SyncProbe
<1>6. ASSUME NEW t \in Trackers, NEW k \in Slots, SyncConnect(t, k)
      PROVE  TypeInv'
  <2> DEFINE th == [thread[t][k] EXCEPT !.pc = "handshake"]
  <2>1. th \in Thread /\ th.data = thread[t][k].data /\ th.file = thread[t][k].file
    BY <1>d DEF Thread
  <2>2. thread[t][k].file \in Files
    BY <1>6, <1>d DEF SyncConnect
  <2>3. thread' = Goto(t, k, th)
    BY <1>6 DEF SyncConnect
  <2> HIDE DEF th
  <2> QED
    BY <1>3, <1>6, <1>c, <1>d, <1>e, <2>1, <2>2, <2>3 DEF SyncConnect
<1>7. ASSUME NEW t \in Trackers, NEW k \in Slots, SyncSend(t, k)
      PROVE  TypeInv'
  <2> DEFINE me == thread[t][k]
             read == IF me.replaced THEN me.data ELSE disk[t][me.file]
             th == [me EXCEPT !.pc = "over", !.data = read]
  <2>1. me.file \in Files
    BY <1>7, <1>d DEF SyncSend
  <2>2. read \in Contents
    BY <1>a, <1>d, <2>1 DEF TypeOK, Thread
  <2>3. thread' = Goto(t, k, th)
    BY <1>7 DEF SyncSend
  <2> HIDE DEF read
  <2>4. th \in Thread /\ th.data = read /\ th.file = me.file
    BY <1>d, <2>2 DEF Thread
  <2> HIDE DEF th, me
  <2> QED
    BY <1>3, <1>7, <1>c, <1>e, <2>1, <2>2, <2>3, <2>4 DEF SyncSend
<1>8. ASSUME NEW t \in Trackers, NEW k \in Slots, SyncOver(t, k)
      PROVE  TypeInv'
  <2> DEFINE me == thread[t][k]
             th == [Free EXCEPT !.pc = "sync", !.todo = me.todo, !.line = me.line]
             c == [at |-> GetTracker2(t), file |-> me.file, data |-> me.data]
  <2>1. me.todo \in SUBSET Files /\ me.line \in 0..MaxWrites /\ me.data \in Contents
    BY <1>d DEF Thread
  <2>2. th \in Thread /\ th.pc = "sync" /\ th.data = << >>
    BY <2>1, SyncingThread
  <2>3. thread' = Goto(t, k, th) /\ closing' \subseteq closing \cup {c}
    BY <1>8 DEF SyncOver
  <2>4. c \in [at : Trackers, file : Files, data : Contents]
    BY <1>8, <1>d, <2>1, Sibling DEF SyncOver
  <2> HIDE DEF th, c, me
  <2>5. closing' \subseteq [at : Trackers, file : Files, data : Contents]
    BY <1>a, <2>3, <2>4 DEF TypeOK
  <2>6. disk' \in [Trackers -> [Files -> Contents]]
    BY <1>a, <1>8 DEF TypeOK, SyncOver
  <2> QED
    BY <1>3, <1>8, <1>e, <2>2, <2>3, <2>5, <2>6 DEF SyncOver
<1>9. ASSUME NEW t \in Trackers, NEW k \in Slots, SyncRecv(t, k)
      PROVE  TypeInv'
  <2> DEFINE th == [thread[t][k] EXCEPT !.pc = "send"]
  <2>1. th \in Thread /\ th.data = thread[t][k].data /\ th.file = thread[t][k].file
    BY <1>d DEF Thread
  <2>2. thread[t][k].file \in Files
    BY <1>9, <1>d DEF SyncRecv
  <2>3. thread' = Goto(t, k, th)
    BY <1>9 DEF SyncRecv
  <2> HIDE DEF th
  <2>4. counter' \in [Trackers -> 0..Batch]
    BY <1>9, <1>b, <1>e, Sibling DEF SyncRecv, Accepting
  <2>5. disk' \in [Trackers -> [Files -> Contents]]
    BY <1>a, <1>9, <2>2, Sibling, EmptyIsContents DEF TypeOK, SyncRecv
  <2>6. closing' \subseteq [at : Trackers, file : Files, data : Contents]
    BY <1>a, <1>9 DEF TypeOK, SyncRecv
  <2> QED
    BY <1>3, <1>9, <1>d, <1>e, <2>1, <2>2, <2>3, <2>4, <2>5, <2>6 DEF SyncRecv
<1>10. ASSUME NEW t \in Trackers, NEW k \in Slots, SyncAllHandler(t, k)
      PROVE  TypeInv'
  <2> DEFINE th == [Free EXCEPT !.pc = "sync", !.todo = Files]
  <2>1. th \in Thread /\ th.pc = "sync" /\ th.data = << >>
    BY FreeIsThread DEF Free, Thread
  <2>2. thread' = Goto(t, k, th)
    BY <1>10 DEF SyncAllHandler
  <2> HIDE DEF th
  <2>3. counter' \in [Trackers -> 0..Batch]
    BY <1>10, <1>b, <1>e DEF SyncAllHandler, Accepting
  <2> QED
    BY <1>3, <1>10, <1>c, <1>e, <2>1, <2>2, <2>3, Sibling DEF SyncAllHandler
<1>11. ASSUME NEW c \in closing, SyncClose(c)
      PROVE  TypeInv'
  <2> DEFINE new == Overwrite(c.data, disk[c.at][c.file])
  <2>1. /\ c.at \in Trackers /\ c.file \in Files
        /\ c.data \in Seq(Bytes) /\ disk[c.at][c.file] \in Seq(Bytes)
    BY <1>a DEF TypeOK, Contents
  <2>2. new \in Contents
    BY <2>1, OverwriteFacts DEF Contents
  <2>3. disk' = [disk EXCEPT ![c.at][c.file] = new]
    BY <1>11 DEF SyncClose
  <2> HIDE DEF new
  <2>4. TypeOK'
    BY <1>a, <1>11, <2>1, <2>2, <2>3 DEF TypeOK, SyncClose
  <2> QED
    BY <1>a, <1>11, <2>4 DEF FileChosen, SyncClose, TypeInv
<1>12. ASSUME NEW t \in Trackers, Stop(t), crashes' \in 0..MaxCrashes
      PROVE  TypeInv'
  <2> DEFINE s == GetTracker2(t)
  <2>a. counter' = [counter EXCEPT ![t] = 0] /\ UNCHANGED <<disk, writes, answered>>
    BY <1>12 DEF Stop
  <2>1. /\ thread' \in [Trackers -> [Slots -> Thread]]
        /\ \A u \in Trackers, j \in Slots :
             \/ thread'[u][j] = thread[u][j]
             \/ thread'[u][j].data = << >> /\ thread'[u][j].pc \in {"free", "sync"}
    <3>1. /\ Free \in Thread /\ Free.data = << >> /\ Free.pc = "free"
      BY FreeIsThread DEF Free
    <3>2. \A j \in Slots :
            LET th == [Free EXCEPT !.pc = "sync", !.todo = thread[s][j].todo,
                                   !.line = thread[s][j].line]
            IN th \in Thread /\ th.pc = "sync" /\ th.data = << >>
      <4> TAKE j \in Slots
      <4>1. thread[s][j].todo \in SUBSET Files /\ thread[s][j].line \in 0..MaxWrites
        BY <1>d, Sibling DEF Thread
      <4> QED
        BY <4>1, SyncingThread
    <3> HIDE DEF s
    <3>3. thread' = [thread EXCEPT
       ![t] = [k \in Slots |-> Free],
       ![s] = [k \in Slots |->
         IF thread[s][k].pc \in {"handshake", "send", "over"}
         THEN [Free EXCEPT !.pc = "sync", !.todo = thread[s][k].todo,
                           !.line = thread[s][k].line]
         ELSE thread[s][k]]]
      BY <1>12 DEF Stop, s
    <3> QED
      BY <1>a, <3>1, <3>2, <3>3 DEF TypeOK
  <2>2. status' \in [Trackers ->
                   {"down", "probe", "connect", "handshake", "listen", "serving"}]
    BY <1>a, <1>12, Sibling DEF TypeOK, Stop
  <2>3. counter' \in [Trackers -> 0..Batch]
    BY <1>e, <1>b, <2>a
  <2>4. stuck' \in [Trackers -> BOOLEAN]
    BY <1>a, <1>12 DEF TypeOK, Stop
  <2>5. closing' \subseteq closing
    BY <1>12 DEF Stop
  <2>6. TypeOK'
    BY <1>a, <1>12, <2>a, <2>1, <2>2, <2>3, <2>4, <2>5 DEF TypeOK
  <2>7. FileChosen'
    BY <1>a, <2>1 DEF FileChosen
  <2> QED
    BY <2>6, <2>7 DEF TypeInv
<1>13. ASSUME NEW t \in Trackers, Start(t) \/ SyncAll(t) \/ Listen(t)
      PROVE  TypeInv'
  <2>1. status' \in [Trackers ->
                   {"down", "probe", "connect", "handshake", "listen", "serving"}]
    BY <1>a, <1>13 DEF TypeOK, Start, SyncAll, Listen
  <2> QED
    BY <1>a, <1>13, <2>1
       DEF TypeOK, FileChosen, TypeInv, Start, SyncAll, Listen, conns
<1>14. CASE UNCHANGED vars
  BY <1>a, <1>14 DEF vars, conns, TypeOK, FileChosen, TypeInv
<1>18. ASSUME NEW t \in Trackers, SyncAllLost(t)
      PROVE  TypeInv'
  <2>1. counter' \in [Trackers -> 0..Batch]
    BY <1>18, <1>b, <1>e DEF SyncAllLost, Accepting
  <2>2. status' \in [Trackers ->
                   {"down", "probe", "connect", "handshake", "listen", "serving"}]
    BY <1>a, <1>18, Sibling DEF TypeOK, SyncAllLost
  <2> QED
    BY <1>a, <1>18, <2>1, <2>2 DEF SyncAllLost, TypeOK, FileChosen, TypeInv
<1>15. ASSUME NEW t \in Trackers, Crash(t)
      PROVE  TypeInv'
  <2>1. crashes' \in 0..MaxCrashes
    BY <1>a, <1>b, <1>15 DEF Crash, TypeOK
  <2> QED
    BY <1>12, <1>15, <2>1 DEF Crash
<1>16. ASSUME NEW t \in Trackers,
              SyncAllConnectFails(t) \/ \E k \in Slots : SyncConnectFails(t, k)
      PROVE  TypeInv'
  <2>1. Stop(t) /\ crashes' \in 0..MaxCrashes
    BY <1>a, <1>16 DEF SyncAllConnectFails, SyncConnectFails, TypeOK
  <2> QED
    BY <1>12, <2>1
<1>17. ~\E t \in Trackers, k \in Slots, f \in Files, l \in Lines : AcceptDelete(t, k, f, l)
  BY DEF Deletion
<1> QED
  BY <1>1, <1>2, <1>4, <1>5, <1>6, <1>7, <1>8, <1>9, <1>10, <1>11, <1>13, <1>14, <1>15,
     <1>16, <1>17, <1>18
     DEF Next, Serve, Boot, Push

\* A thread whose line is deleted has no line.
Kept(th, l) == IF th.line = l THEN [th EXCEPT !.line = 0] ELSE th

LEMMA KeptFacts ==
  ASSUME NEW th \in Thread, NEW l \in Lines
  PROVE  /\ Kept(th, l) \in Thread /\ Kept(th, l).pc = th.pc /\ Kept(th, l).file = th.file
         /\ Kept(th, l).data = th.data
         /\ Kept(th, l).line \in {th.line, 0} /\ Kept(th, l).line # l
<1>1. 0 \in 0..MaxWrites /\ l # 0
  BY BoundsAssumption DEF Lines
<1>2. CASE th.line = l
  <2>1. PICK x : x = [th EXCEPT !.line = 0]
    OBVIOUS
  <2>2. /\ x \in Thread /\ x.pc = th.pc /\ x.file = th.file /\ x.data = th.data /\ x.line = 0
    BY <1>1, <2>1 DEF Thread
  <2> QED
    BY <1>1, <1>2, <2>1, <2>2 DEF Kept
<1>3. CASE th.line # l
  BY <1>3 DEF Kept
<1> QED
  BY <1>2, <1>3

\* What a deletion does to the threads: one starts, some go on with the replaced
\* file, and none has the deleted line.
LEMMA DeleteThreads ==
  ASSUME TypeOK, NEW t \in Trackers, NEW k \in Slots, NEW f \in Files, NEW l \in Lines,
         AcceptDelete(t, k, f, l)
  PROVE  /\ thread' \in [Trackers -> [Slots -> Thread]]
         /\ \A u \in Trackers, j \in Slots :
              /\ \/ thread'[u][j].pc = thread[u][j].pc /\ thread'[u][j].file = thread[u][j].file
                 \/ thread'[u][j].pc = "sync"
              /\ thread'[u][j].data \in {thread[u][j].data, disk[t][f], <<>>}
              /\ thread'[u][j].line \in {thread[u][j].line, 0}
              /\ thread'[u][j].line # l
<1>1. PICK s : s = GetTracker2(t)
  OBVIOUS
<1>2. s \in Trackers /\ s # t /\ \A u \in Trackers : u = t \/ u = s
  BY <1>1, Sibling
<1>3. thread \in [Trackers -> [Slots -> Thread]] /\ disk[t][f] \in Contents
  BY DEF TypeOK
<1>4. PICK new : new = [Free EXCEPT !.pc = "sync", !.todo = {f}]
  OBVIOUS
<1>5. new \in Thread /\ new.pc = "sync" /\ new.data = <<>> /\ new.line = 0 /\ l # 0
  <2>1. /\ Free.data = <<>> /\ Free.line = 0 /\ {f} \in SUBSET Files
    BY DEF Free
  <2>2. new \in Thread /\ new.pc = "sync" /\ new.data = Free.data /\ new.line = Free.line
    BY <1>4, <2>1, FreeIsThread DEF Thread
  <2>3. l # 0
    BY BoundsAssumption DEF Lines
  <2> QED
    BY <2>1, <2>2, <2>3
<1>6. \E R, W :
        thread' = [thread EXCEPT
          ![t] = [j \in Slots |->
             IF j = k THEN new
             ELSE IF j \in R THEN [Kept(thread[t][j], l) EXCEPT !.data = disk[t][f], !.replaced = TRUE]
             ELSE Kept(thread[t][j], l)],
          ![s] = [j \in Slots |->
             IF j \in W THEN [Kept(thread[s][j], l) EXCEPT !.linked = FALSE]
             ELSE Kept(thread[s][j], l)]]
  <2> DEFINE R == {j \in Slots : /\ thread[t][j].pc \in {"connect", "handshake", "send"}
                                 /\ thread[t][j].file = f
                                 /\ ~thread[t][j].replaced}
             W == {j \in Slots : Receiving(t, j) /\ thread[s][j].file = f}
  <2> WITNESS R, W
  <2> QED
    BY <1>1, <1>4, Zenon DEF AcceptDelete, Kept
<1>w. PICK R, W : thread' = [thread EXCEPT
          ![t] = [j \in Slots |->
             IF j = k THEN new
             ELSE IF j \in R THEN [Kept(thread[t][j], l) EXCEPT !.data = disk[t][f], !.replaced = TRUE]
             ELSE Kept(thread[t][j], l)],
          ![s] = [j \in Slots |->
             IF j \in W THEN [Kept(thread[s][j], l) EXCEPT !.linked = FALSE]
             ELSE Kept(thread[s][j], l)]]
  BY <1>6, Zenon
<1>l. PICK A : A = [j \in Slots |->
             IF j = k THEN new
             ELSE IF j \in R THEN [Kept(thread[t][j], l) EXCEPT !.data = disk[t][f], !.replaced = TRUE]
             ELSE Kept(thread[t][j], l)]
  OBVIOUS
<1>r. PICK B : B = [j \in Slots |->
             IF j \in W THEN [Kept(thread[s][j], l) EXCEPT !.linked = FALSE]
             ELSE Kept(thread[s][j], l)]
  OBVIOUS
<1>7. thread' = [thread EXCEPT ![t] = A, ![s] = B]
  BY <1>w, <1>l, <1>r, Zenon
<1>8. thread'[t] = A /\ thread'[s] = B /\ thread' = [u \in Trackers |-> IF u = t THEN A ELSE B]
  BY <1>2, <1>3, <1>7
<1>9. ASSUME NEW j \in Slots
      PROVE  /\ A[j] \in Thread
             /\ \/ A[j].pc = thread[t][j].pc /\ A[j].file = thread[t][j].file
                \/ A[j].pc = "sync"
             /\ A[j].data \in {thread[t][j].data, disk[t][f], <<>>}
             /\ A[j].line \in {thread[t][j].line, 0} /\ A[j].line # l
  <2>1. PICK th \in Thread : th = thread[t][j]
    BY <1>3
  <2>2. PICK y : y = Kept(th, l)
    OBVIOUS
  <2>3. /\ y \in Thread /\ y.pc = th.pc /\ y.file = th.file /\ y.data = th.data
        /\ y.line \in {th.line, 0} /\ y.line # l
    BY <2>2, KeptFacts
  <2>4. A[j] = IF j = k THEN new
               ELSE IF j \in R THEN [y EXCEPT !.data = disk[t][f], !.replaced = TRUE]
               ELSE y
    BY <1>7, <1>l, <1>r, <2>1, <2>2
  <2>5. PICK z : z = [y EXCEPT !.data = disk[t][f], !.replaced = TRUE]
    OBVIOUS
  <2>6. /\ z \in Thread /\ z.pc = y.pc /\ z.file = y.file /\ z.data = disk[t][f] /\ z.line = y.line
    BY <1>3, <2>3, <2>5 DEF Thread
  <2>7. CASE j = k
    BY <1>5, <2>4, <2>7
  <2>8. CASE j # k /\ j \in R
    BY <2>1, <2>3, <2>4, <2>5, <2>6, <2>8
  <2>9. CASE j # k /\ j \notin R
    BY <2>1, <2>3, <2>4, <2>9
  <2> QED
    BY <2>7, <2>8, <2>9
<1>10. ASSUME NEW j \in Slots
       PROVE  /\ B[j] \in Thread
              /\ B[j].pc = thread[s][j].pc /\ B[j].file = thread[s][j].file
              /\ B[j].data = thread[s][j].data
              /\ B[j].line \in {thread[s][j].line, 0} /\ B[j].line # l
  <2>1. PICK th \in Thread : th = thread[s][j]
    BY <1>2, <1>3
  <2>2. PICK y : y = Kept(th, l)
    OBVIOUS
  <2>3. /\ y \in Thread /\ y.pc = th.pc /\ y.file = th.file /\ y.data = th.data
        /\ y.line \in {th.line, 0} /\ y.line # l
    BY <2>2, KeptFacts
  <2>4. B[j] = IF j \in W THEN [y EXCEPT !.linked = FALSE] ELSE y
    BY <1>7, <1>l, <1>r, <2>1, <2>2
  <2>5. PICK z : z = [y EXCEPT !.linked = FALSE]
    OBVIOUS
  <2>6. /\ z \in Thread /\ z.pc = y.pc /\ z.file = y.file /\ z.data = y.data /\ z.line = y.line
    BY <2>3, <2>5 DEF Thread
  <2> QED
    BY <2>1, <2>3, <2>4, <2>5, <2>6
<1>11. A \in [Slots -> Thread] /\ B \in [Slots -> Thread]
  BY <1>7, <1>l, <1>r, <1>9, <1>10
<1>12. thread' \in [Trackers -> [Slots -> Thread]]
  BY <1>8, <1>11
<1>13. ASSUME NEW u \in Trackers, NEW j \in Slots
       PROVE  /\ \/ thread'[u][j].pc = thread[u][j].pc /\ thread'[u][j].file = thread[u][j].file
                 \/ thread'[u][j].pc = "sync"
              /\ thread'[u][j].data \in {thread[u][j].data, disk[t][f], <<>>}
              /\ thread'[u][j].line \in {thread[u][j].line, 0}
              /\ thread'[u][j].line # l
  <2>1. CASE u = t
    BY <1>8, <1>9, <2>1
  <2>2. CASE u = s
    BY <1>8, <1>10, <2>2
  <2> QED
    BY <1>2, <2>1, <2>2
<1> QED
  BY <1>12, <1>13

LEMMA TypeDelete ==
  ASSUME TypeInv, Deletion
  PROVE  TypeInv'
<1>1. PICK t \in Trackers, k \in Slots, f \in Files, l \in Lines : AcceptDelete(t, k, f, l)
  BY DEF Deletion
<1>2. TypeOK /\ FileChosen
  BY DEF TypeInv
<1>3. /\ UNCHANGED <<status, stuck, writes, crashes>> /\ Accepting(t)
      /\ disk' = [disk EXCEPT ![t][f] = DeleteLine(disk[t][f], l)]
      /\ answered' = answered \ {l} /\ closing' \subseteq closing
      /\ counter' = [counter EXCEPT ![t] = @ + 1]
  BY <1>1 DEF AcceptDelete
<1>4. PICK d : d = disk[t][f]
  OBVIOUS
<1>5. d \in Seq(Bytes)
  BY <1>2, <1>4 DEF TypeOK, Contents
<1>6. PICK e : e = DeleteLine(d, l)
  OBVIOUS
<1>9. e \in Contents
  BY <1>5, <1>6, DeleteLineFacts DEF Contents
<1>11. disk' \in [Trackers -> [Files -> Contents]]
  BY <1>2, <1>3, <1>4, <1>6, <1>9 DEF TypeOK
<1>12. counter' \in [Trackers -> 0..Batch]
  BY <1>2, <1>3, BoundsAssumption DEF TypeOK, Accepting
<1>13. /\ thread' \in [Trackers -> [Slots -> Thread]]
       /\ \A u \in Trackers, j \in Slots :
            /\ \/ thread'[u][j].pc = thread[u][j].pc /\ thread'[u][j].file = thread[u][j].file
               \/ thread'[u][j].pc = "sync"
            /\ thread'[u][j].data \in {thread[u][j].data, d, <<>>}
  BY <1>1, <1>2, <1>4, DeleteThreads
<1>14. TypeOK'
  BY <1>2, <1>3, <1>11, <1>12, <1>13 DEF TypeOK
<1>16. FileChosen'
  BY <1>2, <1>13 DEF FileChosen
<1> QED
  BY <1>14, <1>16 DEF TypeInv

LEMMA TypeStep ==
  ASSUME TypeInv, [Next]_vars
  PROVE  TypeInv'
<1>1. CASE Deletion
  BY <1>1, TypeDelete
<1>2. CASE ~Deletion
  BY <1>2, TypeNext
<1> QED
  BY <1>1, <1>2

\* Type correctness of the two trackers: whatever
\* SyncRecv truncates, overwrites or is cut short, and DeleteLine replaces.
THEOREM TypeCorrect == Spec \/ SpecServing => []TypeOK
<1>1. TypeInv => TypeOK
  BY DEF TypeInv
<1>2. TypeInv /\ [Next]_vars => TypeInv'
  BY TypeStep
<1> QED
  BY <1>1, <1>2, TypeInit, PTL DEF Spec, SpecServing

\* Byte b is at place i of a copy of f: on a disk, read by Sync, or received.
Placed(f, i, b) ==
  \/ \E t \in Trackers : i \in DOMAIN disk[t][f] /\ disk[t][f][i] = b
  \/ \E t \in Trackers, k \in Slots :
       /\ thread[t][k].pc = "over" /\ thread[t][k].file = f
       /\ i \in DOMAIN thread[t][k].data /\ thread[t][k].data[i] = b
  \/ \E c \in closing : c.file = f /\ i \in DOMAIN c.data /\ c.data[i] = b

\* The inductive invariant: a byte has one place, in all copies on disks and under
\* way, and only bytes of past requests have one.
OnePlace ==
  /\ \A f, g \in Files, i, j \in Nat, b \in Bytes :
       Placed(f, i, b) /\ Placed(g, j, b) => f = g /\ i = j
  /\ \A f \in Files, i \in Nat, b \in Bytes : Placed(f, i, b) => b[1] <= writes

\* Without deletions no thread has a file open that was replaced.
NoneReplaced == \A t \in Trackers, k \in Slots : ~thread[t][k].replaced

PlaceInv == OnePlace /\ NoneReplaced

\* Steps that give no byte a new place keep the invariant.
LEMMA NoNewPlace ==
  ASSUME OnePlace, writes' = writes,
         \A f \in Files, i \in Nat, b \in Bytes : Placed(f, i, b)' => Placed(f, i, b)
  PROVE  OnePlace'
BY DEF OnePlace

\* So do steps that truncate files, and start or end pushes that have read nothing.
LEMMA NothingRead ==
  ASSUME OnePlace, writes' = writes,
         \A t \in Trackers, f \in Files : disk'[t][f] \in {disk[t][f], << >>},
         \A t \in Trackers, k \in Slots :
           thread'[t][k].pc = "over" => thread'[t][k] = thread[t][k],
         closing' \subseteq closing
  PROVE  OnePlace'
<1> SUFFICES ASSUME NEW f \in Files, NEW i \in Nat, NEW b \in Bytes, Placed(f, i, b)'
             PROVE  Placed(f, i, b)
  BY NoNewPlace
<1>1. CASE \E t \in Trackers : i \in DOMAIN disk'[t][f] /\ disk'[t][f][i] = b
  BY <1>1 DEF Placed
<1>2. CASE \E t \in Trackers, k \in Slots :
             /\ thread'[t][k].pc = "over" /\ thread'[t][k].file = f
             /\ i \in DOMAIN thread'[t][k].data /\ thread'[t][k].data[i] = b
  BY <1>2 DEF Placed
<1>3. CASE \E c \in closing' : c.file = f /\ i \in DOMAIN c.data /\ c.data[i] = b
  BY <1>3 DEF Placed
<1> QED
  BY <1>1, <1>2, <1>3 DEF Placed

LEMMA PlaceInit == Init \/ InitServing => PlaceInv
<1> SUFFICES ASSUME Empty PROVE PlaceInv
  BY DEF Init, InitServing
<1>1. \A f \in Files, i \in Nat, b \in Bytes : ~Placed(f, i, b)
  BY DEF Empty, Placed, Free
<1>2. NoneReplaced
  BY DEF Empty, NoneReplaced, Free
<1> QED
  BY <1>1, <1>2 DEF PlaceInv, OnePlace

LEMMA PlaceNext ==
  ASSUME ~Deletion, TypeInv, PlaceInv, [Next]_vars
  PROVE  PlaceInv'
<1>a. TypeOK /\ FileChosen /\ OnePlace /\ NoneReplaced
  BY DEF TypeInv, PlaceInv
<1>b. ASSUME NEW t \in Trackers, NEW k \in Slots
      PROVE  /\ thread[t][k] \in Thread
             /\ ~thread[t][k].replaced
             /\ thread[t][k].pc \notin {"free", "sync"} => thread[t][k].file \in Files
  BY <1>a DEF TypeOK, NoneReplaced, FileChosen
<1>c. \A t \in Trackers, f \in Files : disk[t][f] \in Seq(Bytes)
  BY <1>a DEF Contents, TypeOK
\* A push that goes on, or ends, without reading or writing.
<1>1. ASSUME NEW t \in Trackers, NEW k \in Slots, NEW th \in Thread,
             thread' = Goto(t, k, th), th.pc # "over", ~th.replaced,
             UNCHANGED writes, closing' = closing,
             \A u \in Trackers, f \in Files : disk'[u][f] \in {disk[u][f], << >>}
      PROVE  PlaceInv'
  <2>1. \A u \in Trackers, j \in Slots :
          thread'[u][j] = IF u = t /\ j = k THEN th ELSE thread[u][j]
    BY <1>a, <1>1, GotoFacts
  <2>2. OnePlace'
    BY <1>a, <1>1, <2>1, NothingRead
  <2>3. NoneReplaced'
    BY <1>a, <1>1, <2>1 DEF NoneReplaced
  <2> QED
    BY <2>2, <2>3 DEF PlaceInv
<1>2. ASSUME NEW t \in Trackers, NEW k \in Slots, NEW f \in Files, AcceptAppend(t, k, f)
      PROVE  PlaceInv'
  <2> DEFINE th == [Free EXCEPT !.pc = "sync", !.todo = {f}, !.line = writes']
             n == Len(disk[t][f])
  <2>1. writes' = writes + 1 /\ writes \in Nat /\ writes' \in Lines
    BY <1>a, <1>2, BoundsAssumption DEF AcceptAppend, TypeOK, Lines
  <2>2. /\ thread' = Goto(t, k, th) /\ th \in Thread /\ th.pc = "sync" /\ ~th.replaced
    <3>1. writes' \in 0..MaxWrites
      BY <2>1, BoundsAssumption DEF Lines
    <3> QED
      BY <1>2, <3>1, SyncingThread DEF AcceptAppend, Free
  <2> HIDE DEF th
  <2>3. \A u \in Trackers, j \in Slots :
          thread'[u][j] = IF u = t /\ j = k THEN th ELSE thread[u][j]
    BY <1>a, <2>2, GotoFacts
  <2>4. \A u \in Trackers, g \in Files :
          disk'[u][g] = IF u = t /\ g = f THEN disk[t][f] \o Text(writes') ELSE disk[u][g]
    BY <1>a, <1>2 DEF AcceptAppend, TypeOK
  <2>5. \A g \in Files, i \in Nat, b \in Bytes :
          \/ ~Placed(g, i, b)' \/ Placed(g, i, b)
          \/ b[1] = writes' /\ g = f /\ i = n + b[2]
    <3> SUFFICES ASSUME NEW g \in Files, NEW i \in Nat, NEW b \in Bytes, Placed(g, i, b)'
                 PROVE  Placed(g, i, b) \/ (b[1] = writes' /\ g = f /\ i = n + b[2])
      OBVIOUS
    <3>1. CASE \E u \in Trackers : i \in DOMAIN disk'[u][g] /\ disk'[u][g][i] = b
      <4>1. PICK u \in Trackers : i \in DOMAIN disk'[u][g] /\ disk'[u][g][i] = b
        BY <3>1
      <4>2. CASE u = t /\ g = f
        <5>1. PICK c \in Seq(Bytes), x \in Seq(Bytes) :
                c = disk[t][f] /\ x = Text(writes') /\ disk'[u][g] = c \o x
          BY <2>1, <2>4, <4>2, <1>c, TextFacts
        <5>2. /\ i \in 1..(Len(c) + Len(x)) /\ n = Len(c) /\ n \in Nat
              /\ (c \o x)[i] = IF i <= Len(c) THEN c[i] ELSE x[i - Len(c)]
          BY <4>1, <5>1, ConcatProperties
        <5>3. CASE i <= n
          <6>1. i \in DOMAIN disk[t][f] /\ disk[t][f][i] = b
            BY <4>1, <5>1, <5>2, <5>3
          <6> QED
            BY <6>1, <4>2 DEF Placed
        <5>4. CASE ~(i <= n)
          <6>1. Len(x) = Width[writes'] /\ \A m \in 1..Width[writes'] : x[m] = <<writes', m>>
            BY <2>1, <5>1, TextFacts
          <6>2. i - n \in 1..Len(x) /\ b = x[i - n] /\ i = n + (i - n)
            BY <4>1, <5>1, <5>2, <5>4
          <6>3. b = <<writes', i - n>>
            BY <6>1, <6>2
          <6>4. b[1] = writes' /\ b[2] = i - n
            BY <6>3
          <6> QED
            BY <4>2, <6>2, <6>4
        <5> QED
          BY <5>2, <5>3, <5>4
      <4>3. CASE ~(u = t /\ g = f)
        BY <4>1, <4>3, <2>4 DEF Placed
      <4> QED
        BY <4>2, <4>3
    <3>2. CASE ~\E u \in Trackers : i \in DOMAIN disk'[u][g] /\ disk'[u][g][i] = b
      <4>1. closing' = closing
        BY <1>2 DEF AcceptAppend
      <4> QED
        BY <3>2, <4>1, <2>2, <2>3 DEF Placed
    <3> QED
      BY <3>1, <3>2
  <2>6. OnePlace'
    <3>1. \A b \in Bytes : b[1] \in Lines
      BY DEF Bytes
    <3>2. \A g \in Files, i \in Nat, b \in Bytes : Placed(g, i, b) => b[1] # writes'
      BY <1>a, <2>1, <3>1 DEF OnePlace
    <3>3. \A g \in Files, i \in Nat, b \in Bytes : Placed(g, i, b)' => b[1] <= writes'
      BY <1>a, <2>1, <2>5, <3>1 DEF OnePlace, Lines
    <3>4. \A g, h \in Files, i, j \in Nat, b \in Bytes :
            Placed(g, i, b)' /\ Placed(h, j, b)' => g = h /\ i = j
      <4> SUFFICES ASSUME NEW g \in Files, NEW h \in Files, NEW i \in Nat, NEW j \in Nat,
                          NEW b \in Bytes, Placed(g, i, b)', Placed(h, j, b)'
                   PROVE  g = h /\ i = j
        OBVIOUS
      <4>1. CASE b[1] = writes'
        BY <2>5, <3>2, <4>1
      <4>2. CASE b[1] # writes'
        BY <1>a, <2>5, <4>2 DEF OnePlace
      <4> QED
        BY <4>1, <4>2
    <3> QED
      BY <3>3, <3>4 DEF OnePlace
  <2>7. NoneReplaced'
    BY <1>a, <2>2, <2>3 DEF NoneReplaced
  <2> QED
    BY <2>6, <2>7 DEF PlaceInv
<1>3. ASSUME NEW t \in Trackers, NEW k \in Slots, SyncSend(t, k)
      PROVE  PlaceInv'
  <2> DEFINE me == thread[t][k]
             read == disk[t][me.file]
             th == [me EXCEPT !.pc = "over", !.data = read]
  <2>1. me.file \in Files /\ me \in Thread /\ ~me.replaced
    BY <1>3, <1>b DEF SyncSend
  <2>2. thread' = Goto(t, k, th)
    BY <1>3, <2>1 DEF SyncSend
  <2>3. read \in Contents
    BY <1>a, <2>1 DEF TypeOK
  <2>4. th \in Thread /\ th.data = read /\ th.file = me.file /\ ~th.replaced
    BY <2>1, <2>3 DEF Thread
  <2> HIDE DEF th, me
  <2>5. \A u \in Trackers, j \in Slots :
          thread'[u][j] = IF u = t /\ j = k THEN th ELSE thread[u][j]
    BY <1>a, <2>2, <2>4, GotoFacts
  <2>6. UNCHANGED <<disk, closing, writes>>
    BY <1>3 DEF SyncSend
  <2>7. \A f \in Files, i \in Nat, b \in Bytes : Placed(f, i, b)' => Placed(f, i, b)
    BY <2>4, <2>5, <2>6 DEF Placed
  <2>8. NoneReplaced'
    BY <1>a, <2>4, <2>5 DEF NoneReplaced
  <2> QED
    BY <1>a, <2>6, <2>7, <2>8, NoNewPlace DEF PlaceInv
<1>4. ASSUME NEW t \in Trackers, NEW k \in Slots, SyncOver(t, k)
      PROVE  PlaceInv'
  <2> DEFINE me == thread[t][k]
             th == [Free EXCEPT !.pc = "sync", !.todo = me.todo, !.line = me.line]
             c == [at |-> GetTracker2(t), file |-> me.file, data |-> me.data]
  <2>1. me \in Thread /\ me.pc = "over"
    BY <1>b, <1>4 DEF SyncOver
  <2>2. th \in Thread /\ th.pc = "sync" /\ ~th.replaced
    <3>1. me.todo \in SUBSET Files /\ me.line \in 0..MaxWrites
      BY <2>1 DEF Thread
    <3> QED
      BY <3>1, SyncingThread DEF Free
  <2>3. thread' = Goto(t, k, th) /\ closing' \subseteq closing \cup {c}
    BY <1>4 DEF SyncOver
  <2>4. c.file = me.file /\ c.data = me.data
    OBVIOUS
  <2> HIDE DEF th, c, me
  <2>5. \A u \in Trackers, j \in Slots :
          thread'[u][j] = IF u = t /\ j = k THEN th ELSE thread[u][j]
    BY <1>a, <2>2, <2>3, GotoFacts
  <2>6. UNCHANGED <<disk, writes>>
    BY <1>4 DEF SyncOver
  <2>7. \A f \in Files, i \in Nat, b \in Bytes : Placed(f, i, b)' => Placed(f, i, b)
    BY <2>1, <2>2, <2>3, <2>4, <2>5, <2>6 DEF Placed, me
  <2>8. NoneReplaced'
    BY <1>a, <2>2, <2>5 DEF NoneReplaced
  <2> QED
    BY <1>a, <2>6, <2>7, <2>8, NoNewPlace DEF PlaceInv
<1>5. ASSUME NEW c \in closing, SyncClose(c)
      PROVE  PlaceInv'
  <2> DEFINE old == disk[c.at][c.file]
             new == Overwrite(c.data, old)
  <2>1. /\ c.at \in Trackers /\ c.file \in Files
        /\ c.data \in Seq(Bytes) /\ old \in Seq(Bytes)
    BY <1>a DEF Contents, TypeOK
  <2>2. /\ DOMAIN new = 1..Len(new)
        /\ Len(new) = IF Len(c.data) >= Len(old) THEN Len(c.data) ELSE Len(old)
        /\ \A i \in 1..Len(new) : new[i] = IF i <= Len(c.data) THEN c.data[i] ELSE old[i]
    BY <2>1, OverwriteFacts
  <2>3. \A i \in DOMAIN new : \/ i \in DOMAIN c.data /\ new[i] = c.data[i]
                              \/ i \in DOMAIN old /\ new[i] = old[i]
    BY <2>1, <2>2
  <2>4. disk' = [disk EXCEPT ![c.at][c.file] = new]
    BY <1>5 DEF SyncClose
  <2> HIDE DEF new
  <2>5. \A u \in Trackers, f \in Files :
          disk'[u][f] = IF u = c.at /\ f = c.file THEN new ELSE disk[u][f]
    BY <1>a, <2>1, <2>4 DEF TypeOK
  <2>6. thread' = thread /\ writes' = writes /\ closing' \subseteq closing
    BY <1>5 DEF SyncClose
  <2>7. \A f \in Files, i \in Nat, b \in Bytes : Placed(f, i, b)' => Placed(f, i, b)
    <3> SUFFICES ASSUME NEW f \in Files, NEW i \in Nat, NEW b \in Bytes, Placed(f, i, b)'
                 PROVE  Placed(f, i, b)
      OBVIOUS
    <3>1. CASE \E u \in Trackers : i \in DOMAIN disk'[u][f] /\ disk'[u][f][i] = b
      BY <3>1, <2>1, <2>3, <2>5 DEF Placed
    <3>2. CASE ~\E u \in Trackers : i \in DOMAIN disk'[u][f] /\ disk'[u][f][i] = b
      BY <3>2, <2>6 DEF Placed
    <3> QED
      BY <3>1, <3>2
  <2>8. NoneReplaced'
    BY <1>a, <2>6 DEF NoneReplaced
  <2> QED
    BY <1>a, <2>6, <2>7, <2>8, NoNewPlace DEF PlaceInv
<1>6. ASSUME NEW t \in Trackers, NEW k \in Slots, Finish(t, k)
      PROVE  PlaceInv'
  <2>1. Free \in Thread /\ Free.pc = "free" /\ ~Free.replaced
    BY FreeIsThread DEF Free
  <2> QED
    BY <1>1, <1>6, <2>1 DEF Finish
<1>7. ASSUME NEW t \in Trackers, NEW k \in Slots, NEW f \in Files, SyncProbe(t, k, f)
      PROVE  PlaceInv'
  <2> DEFINE rest == [thread[t][k] EXCEPT !.todo = @ \ {f}]
             conn == [rest EXCEPT !.pc = "connect", !.file = f,
                                  !.replaced = FALSE, !.linked = TRUE]
  <2>1. rest \in Thread /\ ~rest.replaced /\ rest.pc = thread[t][k].pc
    BY <1>b DEF Thread
  <2>2. conn \in Thread /\ ~conn.replaced /\ conn.pc = "connect"
    BY <1>b DEF Thread
  <2>3. thread' = Goto(t, k, rest) \/ thread' = Goto(t, k, conn)
    BY <1>7 DEF SyncProbe
  <2>4. thread[t][k].pc = "sync" /\ UNCHANGED <<disk, closing, writes>>
    BY <1>7 DEF SyncProbe
  <2> HIDE DEF rest, conn
  <2> QED
    BY <1>1, <2>1, <2>2, <2>3, <2>4
<1>8. ASSUME NEW t \in Trackers, NEW k \in Slots, SyncConnect(t, k) \/ SyncRecv(t, k)
      PROVE  PlaceInv'
  <2>1. PICK pc \in {"handshake", "send"} :
          thread' = Goto(t, k, [thread[t][k] EXCEPT !.pc = pc])
    BY <1>8 DEF SyncConnect, SyncRecv
  <2> DEFINE th == [thread[t][k] EXCEPT !.pc = pc]
  <2>2. th \in Thread /\ ~th.replaced /\ th.pc = pc
    BY <1>b DEF Thread
  <2>3. thread' = Goto(t, k, th)
    BY <2>1
  <2> HIDE DEF th
  <2>4. \A u \in Trackers, f \in Files : disk'[u][f] \in {disk[u][f], << >>}
    <3>1. \/ disk' = disk
          \/ disk' = [disk EXCEPT ![GetTracker2(t)][thread[t][k].file] = << >>]
      BY <1>8 DEF SyncConnect, SyncRecv
    <3>2. disk \in [Trackers -> [Files -> Contents]]
      BY <1>a DEF TypeOK
    <3>3. CASE disk' = disk
      BY <3>3
    <3>4. CASE disk' = [disk EXCEPT ![GetTracker2(t)][thread[t][k].file] = << >>]
      <4> TAKE u \in Trackers, f \in Files
      <4>1. disk'[u] = IF u = GetTracker2(t)
                       THEN [disk[u] EXCEPT ![thread[t][k].file] = << >>] ELSE disk[u]
        BY <3>2, <3>4
      <4> QED
        BY <3>2, <4>1
    <3> QED
      BY <3>1, <3>3, <3>4
  <2>5. UNCHANGED <<closing, writes>>
    BY <1>8 DEF SyncConnect, SyncRecv
  <2> QED
    BY <1>1, <2>2, <2>3, <2>4, <2>5
<1>9. ASSUME NEW t \in Trackers, NEW k \in Slots, SyncAllHandler(t, k)
      PROVE  PlaceInv'
  <2> DEFINE th == [Free EXCEPT !.pc = "sync", !.todo = Files]
  <2>1. th \in Thread /\ th.pc = "sync" /\ ~th.replaced
    BY FreeIsThread DEF Free, Thread
  <2>2. thread' = Goto(t, k, th) /\ UNCHANGED <<disk, closing, writes>>
    BY <1>9 DEF SyncAllHandler
  <2> HIDE DEF th
  <2> QED
    BY <1>1, <2>1, <2>2
<1>10. ASSUME NEW t \in Trackers, Stop(t)
       PROVE  PlaceInv'
  <2> DEFINE s == GetTracker2(t)
             again(k) == [Free EXCEPT !.pc = "sync", !.todo = thread[s][k].todo,
                                      !.line = thread[s][k].line]
  <2>1. UNCHANGED <<disk, writes>> /\ closing' \subseteq closing
    BY <1>10 DEF Stop
  <2>2. Free.pc = "free" /\ ~Free.replaced
    BY DEF Free
  <2>3. \A k \in Slots : again(k).pc = "sync" /\ ~again(k).replaced
    BY DEF Free
  <2>4. thread' = [thread EXCEPT
           ![t] = [k \in Slots |-> Free],
           ![s] = [k \in Slots |->
             IF thread[s][k].pc \in {"handshake", "send", "over"} THEN again(k)
             ELSE thread[s][k]]]
    BY <1>10 DEF Stop
  <2> HIDE DEF s, again
  <2>5. \A u \in Trackers, k \in Slots :
          \/ thread'[u][k] = thread[u][k]
          \/ thread'[u][k].pc \in {"free", "sync"} /\ ~thread'[u][k].replaced
    BY <1>a, <2>2, <2>3, <2>4 DEF TypeOK
  <2>6. OnePlace'
    BY <1>a, <2>1, <2>5, NothingRead
  <2>7. NoneReplaced'
    BY <1>a, <2>5 DEF NoneReplaced
  <2> QED
    BY <2>6, <2>7 DEF PlaceInv
<1>11. ASSUME UNCHANGED <<disk, thread, closing, writes>>
       PROVE  PlaceInv'
  <2>1. OnePlace'
    BY <1>a, <1>11, NothingRead
  <2> QED
    BY <1>a, <1>11, <2>1 DEF PlaceInv, NoneReplaced
<1>12. ASSUME NEW t \in Trackers,
              \/ AcceptOther(t) \/ Join(t) \/ SyncAllLost(t)
              \/ Start(t) \/ SyncAll(t) \/ Listen(t)
       PROVE  PlaceInv'
  BY <1>11, <1>12 DEF AcceptOther, Join, SyncAllLost, Start, SyncAll, Listen, conns
<1>13. ASSUME NEW t \in Trackers,
              \/ Crash(t) \/ SyncAllConnectFails(t)
              \/ \E k \in Slots : SyncConnectFails(t, k)
       PROVE  PlaceInv'
  BY <1>10, <1>13 DEF Crash, SyncAllConnectFails, SyncConnectFails
<1>14. CASE UNCHANGED vars
  BY <1>11, <1>14 DEF vars, conns
<1>15. ~\E t \in Trackers, k \in Slots, f \in Files, l \in Lines : AcceptDelete(t, k, f, l)
  BY DEF Deletion
<1> QED
  BY <1>2, <1>3, <1>4, <1>5, <1>6, <1>7, <1>8, <1>9, <1>12, <1>13, <1>14, <1>15
     DEF Next, Serve, Boot, Push

\* Whatever crashes, restarts and pushes of each other's files the two trackers go
\* through, a byte that a request wrote has one place in one file, the same in both
\* copies, whatever the lengths of the lines: SyncRecv writes from the start of a
\* file what Sync read from its start (trackersync.cpp:86-92, 171-184).
THEOREM PlacesCorrect ==
  ASSUME ~Deletes
  PROVE  Spec \/ SpecServing => []BytesKeepTheirPlace
<1>1. TypeInv /\ PlaceInv => BytesKeepTheirPlace
  <2> SUFFICES ASSUME TypeInv, PlaceInv, NEW t \in Trackers, NEW s \in Trackers,
                      NEW f \in Files, NEW g \in Files,
                      NEW i \in DOMAIN disk[t][f], NEW j \in DOMAIN disk[s][g],
                      disk[t][f][i] = disk[s][g][j]
               PROVE  f = g /\ i = j
    BY DEF BytesKeepTheirPlace
  <2>1. disk[t][f] \in Seq(Bytes) /\ disk[s][g] \in Seq(Bytes)
    BY DEF Contents, TypeInv, TypeOK
  <2>2. i \in Nat /\ j \in Nat /\ disk[t][f][i] \in Bytes
    BY <2>1
  <2>3. Placed(f, i, disk[t][f][i]) /\ Placed(g, j, disk[t][f][i])
    BY DEF Placed
  <2> QED
    BY <2>2, <2>3 DEF PlaceInv, OnePlace
<1>2. TypeInv /\ PlaceInv /\ [Next]_vars => TypeInv' /\ PlaceInv'
  BY TypeNext, PlaceNext, NoDeletion
<1> QED
  BY <1>1, <1>2, TypeInit, PlaceInit, PTL DEF Spec, SpecServing

----------------------------------------------------------------------------
(* Agreement of the copies.                                                *)

Prefix(a, b) == Len(a) <= Len(b) /\ \A i \in 1..Len(a) : a[i] = b[i]

\* A push of the file as it is now on the disk of w is still to be closed.
Underway(w, f) ==
  \/ \E k \in Slots : LET me == thread[w][k] IN
       \/ me.pc # "free" /\ f \in me.todo
       \/ me.pc \in {"connect", "handshake", "send"} /\ me.file = f
       \/ me.pc = "over" /\ me.file = f /\ me.data = disk[w][f]
  \/ \E c \in closing : c.file = f /\ c.data = disk[w][f]

\* Both trackers serve and only w pushes.
OnlyPushes(w) ==
  /\ \A t \in Trackers : status[t] = "serving"
  /\ crashes = 0
  /\ \A k \in Slots : thread[GetTracker2(w)][k].pc = "free"
  /\ \A k \in Slots : thread[w][k].linked
  /\ \A c \in closing : c.at = GetTracker2(w)

\* What was read, sent or written earlier is the beginning of what w has now.
Behind(w) ==
  /\ \A f \in Files : Prefix(disk[GetTracker2(w)][f], disk[w][f])
  /\ \A k \in Slots : thread[w][k].pc = "over" =>
                         Prefix(thread[w][k].data, disk[w][thread[w][k].file])
  /\ \A c \in closing : Prefix(c.data, disk[w][c.file])

CatchesUp(w) ==
  \A f \in Files : disk[GetTracker2(w)][f] = disk[w][f] \/ Underway(w, f)

AgreeInv(w) == OnlyPushes(w) /\ Behind(w) /\ CatchesUp(w)

LEMMA PrefixFacts ==
  ASSUME NEW a \in Seq(Bytes), NEW b \in Seq(Bytes), NEW c \in Seq(Bytes)
  PROVE  /\ Prefix(<< >>, a) /\ Prefix(a, a)
         /\ Prefix(a, b) => Prefix(a, b \o c)
         /\ Prefix(a, c) /\ Prefix(b, c) => Prefix(Overwrite(a, b), c)
         /\ Prefix(b, c) => Overwrite(c, b) = c
         /\ Prefix(a, c) => Overwrite(a, c) = c
<1>1. Prefix(<< >>, a) /\ Prefix(a, a)
  BY DEF Prefix
<1>2. ASSUME Prefix(a, b) PROVE Prefix(a, b \o c)
  <2>1. /\ Len(b \o c) = Len(b) + Len(c)
        /\ \A i \in 1..(Len(b) + Len(c)) :
             (b \o c)[i] = IF i <= Len(b) THEN b[i] ELSE c[i - Len(b)]
    BY ConcatProperties
  <2>2. Len(a) \in Nat /\ Len(b) \in Nat /\ Len(c) \in Nat
    OBVIOUS
  <2> QED
    BY <1>2, <2>1, <2>2 DEF Prefix
<1>3. ASSUME Prefix(a, c), Prefix(b, c) PROVE Prefix(Overwrite(a, b), c)
  <2>1. /\ Len(Overwrite(a, b)) = IF Len(a) >= Len(b) THEN Len(a) ELSE Len(b)
        /\ \A i \in 1..Len(Overwrite(a, b)) :
              Overwrite(a, b)[i] = IF i <= Len(a) THEN a[i] ELSE b[i]
    BY OverwriteFacts
  <2>2. Len(a) \in Nat /\ Len(b) \in Nat /\ Len(c) \in Nat
    OBVIOUS
  <2> QED
    BY <1>3, <2>1, <2>2 DEF Prefix
<1>4. ASSUME Prefix(b, c) PROVE Overwrite(c, b) = c
  BY <1>4 DEF Prefix, Overwrite
<1>5. ASSUME Prefix(a, c) PROVE Overwrite(a, c) = c
  <2>1. /\ Overwrite(a, c) \in Seq(Bytes)
        /\ Len(Overwrite(a, c)) = IF Len(a) >= Len(c) THEN Len(a) ELSE Len(c)
        /\ \A i \in 1..Len(Overwrite(a, c)) :
              Overwrite(a, c)[i] = IF i <= Len(a) THEN a[i] ELSE c[i]
    BY OverwriteFacts
  <2>2. Len(a) \in Nat /\ Len(c) \in Nat
    OBVIOUS
  <2>3. Len(Overwrite(a, c)) = Len(c)
    BY <1>5, <2>1, <2>2 DEF Prefix
  <2>4. \A i \in 1..Len(c) : Overwrite(a, c)[i] = c[i]
    BY <1>5, <2>1, <2>2, <2>3 DEF Prefix
  <2> QED
    BY <2>1, <2>3, <2>4, SeqEqual
<1> QED
  BY <1>1, <1>2, <1>3, <1>4, <1>5

\* A step of thread k of w that leaves the disks alone.
LEMMA PushStep ==
  ASSUME TypeOK, NEW w \in Trackers, NEW k \in Slots, AgreeInv(w), NEW th \in Thread,
         thread' = Goto(w, k, th), UNCHANGED <<status, disk, crashes>>,
         th.linked,
         th.pc = "over" => th.file \in Files /\ th.data = disk[w][th.file],
         closing \subseteq closing',
         \A c \in closing' \ closing : /\ c.at = GetTracker2(w)
                                       /\ c.file = thread[w][k].file
                                       /\ c.data = thread[w][k].data
                                       /\ thread[w][k].pc = "over",
         \A f \in Files : \/ ~(thread[w][k].pc # "free" /\ f \in thread[w][k].todo)
                          \/ th.pc # "free" /\ f \in th.todo
                          \/ th.pc = "connect" /\ th.file = f,
         thread[w][k].pc \in {"connect", "handshake", "send"} =>
           /\ th.pc \in {"connect", "handshake", "send", "over"}
           /\ th.file = thread[w][k].file,
         thread[w][k].pc = "over" =>
           \E c \in closing' : c.file = thread[w][k].file /\ c.data = thread[w][k].data
  PROVE  AgreeInv(w)'
<1> DEFINE s == GetTracker2(w)
<1>a. s \in Trackers /\ s # w /\ GetTracker2(w)' = s
  BY Sibling DEF GetTracker2
<1>b. \A u \in Trackers, j \in Slots :
        thread'[u][j] = IF u = w /\ j = k THEN th ELSE thread[u][j]
  BY GotoFacts
<1>c. disk \in [Trackers -> [Files -> Seq(Bytes)]]
  BY DEF Contents, TypeOK
<1> HIDE DEF s
<1>1. OnlyPushes(w)'
  BY <1>a, <1>b DEF AgreeInv, OnlyPushes, s
<1>2. Behind(w)'
  <2>1. \A f \in Files : Prefix(disk'[s][f], disk'[w][f])
    BY DEF AgreeInv, Behind, s
  <2>2. \A j \in Slots : thread'[w][j].pc = "over" =>
                          Prefix(thread'[w][j].data, disk'[w][thread'[w][j].file])
    <3>1. \A f \in Files : Prefix(disk[w][f], disk[w][f])
      BY <1>c DEF Prefix
    <3> QED
      BY <1>b, <3>1 DEF AgreeInv, Behind
  <2>3. \A c \in closing' : Prefix(c.data, disk'[w][c.file])
    BY DEF AgreeInv, Behind
  <2> QED
    BY <1>a, <2>1, <2>2, <2>3 DEF Behind, Prefix
<1>3. CatchesUp(w)'
  <2> SUFFICES ASSUME NEW f \in Files, Underway(w, f)
               PROVE  Underway(w, f)'
    BY <1>a DEF AgreeInv, CatchesUp, s
  <2>1. CASE \E c \in closing : c.file = f /\ c.data = disk[w][f]
    BY <2>1 DEF Underway
  <2>2. ASSUME NEW j \in Slots, j # k,
               LET me == thread[w][j] IN
                 \/ me.pc # "free" /\ f \in me.todo
                 \/ me.pc \in {"connect", "handshake", "send"} /\ me.file = f
                 \/ me.pc = "over" /\ me.file = f /\ me.data = disk[w][f]
        PROVE  Underway(w, f)'
    <3>1. thread'[w][j] = thread[w][j]
      BY <1>b, <2>2
    <3> QED
      BY <2>2, <3>1 DEF Underway
  <2>3. thread'[w][k] = th
    BY <1>b
  <2>4. CASE thread[w][k].pc # "free" /\ f \in thread[w][k].todo
    BY <2>3, <2>4 DEF Underway
  <2>5. CASE thread[w][k].pc \in {"connect", "handshake", "send"} /\ thread[w][k].file = f
    BY <2>3, <2>5 DEF Underway
  <2>6. CASE thread[w][k].pc = "over" /\ thread[w][k].file = f /\ thread[w][k].data = disk[w][f]
    BY <2>6 DEF Underway
  <2> QED
    BY <2>1, <2>2, <2>4, <2>5, <2>6 DEF Underway
<1> QED
  BY <1>1, <1>2, <1>3 DEF AgreeInv

LEMMA AgreeNext ==
  ASSUME ~Deletion, NEW w \in Trackers, Writers \subseteq {w}, MaxCrashes = 0,
         TypeInv, NoneReplaced, AgreeInv(w), [Next]_vars
  PROVE  AgreeInv(w)'
<1> DEFINE s == GetTracker2(w)
<1>a. TypeOK /\ OnlyPushes(w) /\ Behind(w) /\ CatchesUp(w)
  BY DEF TypeInv, AgreeInv
<1>b. /\ s \in Trackers /\ s # w /\ GetTracker2(w)' = s
      /\ \A u \in Trackers : u = w \/ u = s
  BY Sibling DEF GetTracker2
<1>c. disk \in [Trackers -> [Files -> Seq(Bytes)]]
  BY <1>a DEF Contents, TypeOK
<1>d. \A t \in Trackers : IsOnline(t) /\ status[t] = "serving"
  BY <1>a DEF OnlyPushes, IsOnline
<1>e. \A t \in Trackers, k \in Slots : thread[t][k].pc # "free" => t = w
  BY <1>a, <1>b DEF OnlyPushes
<1>f. \A k \in Slots : /\ thread[w][k] \in Thread
                       /\ thread[w][k].linked /\ ~thread[w][k].replaced
                       /\ thread[w][k].pc \notin {"free", "sync"} => thread[w][k].file \in Files
  BY <1>a DEF TypeOK, TypeInv, FileChosen, OnlyPushes, NoneReplaced
<1> HIDE DEF s
<1>1. ASSUME UNCHANGED <<status, disk, thread, closing, crashes>>
      PROVE  AgreeInv(w)'
  BY <1>a, <1>1, <1>b DEF AgreeInv, OnlyPushes, Behind, CatchesUp, Underway, Prefix, s
<1>2. ASSUME NEW t \in Trackers, NEW k \in Slots, NEW f \in Files, AcceptAppend(t, k, f)
      PROVE  AgreeInv(w)'
  <2> DEFINE th == [Free EXCEPT !.pc = "sync", !.todo = {f}, !.line = writes']
  <2>1. t = w
    BY <1>2 DEF AcceptAppend
  <2>2. writes' \in Lines /\ writes' \in 0..MaxWrites
    <3>1. MaxWrites \in Nat /\ writes \in 0..MaxWrites /\ writes' = writes + 1 /\ writes < MaxWrites
      BY <1>a, <1>2, BoundsAssumption DEF AcceptAppend, TypeOK
    <3> QED
      BY <3>1 DEF Lines
  <2>3. th \in Thread /\ th.pc = "sync" /\ f \in th.todo /\ th.linked
    <3>1. th \in Thread /\ th.pc = "sync"
      BY <2>2, SyncingThread
    <3> QED
      BY <3>1 DEF Free
  <2>4. thread' = Goto(w, k, th)
    BY <1>2, <2>1 DEF AcceptAppend
  <2> HIDE DEF th
  <2>5. \A u \in Trackers, j \in Slots :
          thread'[u][j] = IF u = w /\ j = k THEN th ELSE thread[u][j]
    BY <1>a, <2>3, <2>4, GotoFacts
  <2>6. \A u \in Trackers, g \in Files :
          disk'[u][g] = IF u = w /\ g = f THEN disk[w][f] \o Text(writes') ELSE disk[u][g]
    BY <1>2, <1>c, <2>1 DEF AcceptAppend
  <2>7. UNCHANGED <<status, closing, crashes>> /\ thread[w][k].pc = "free"
    BY <1>2, <2>1 DEF AcceptAppend
  <2>8. OnlyPushes(w)'
    BY <1>a, <1>b, <2>3, <2>5, <2>7 DEF OnlyPushes, s
  <2>9. Behind(w)'
    <3>1. ASSUME NEW a \in Seq(Bytes), NEW g \in Files, Prefix(a, disk[w][g])
          PROVE  Prefix(a, disk'[w][g])
      <4>1. disk[w][g] \in Seq(Bytes)
        BY <1>c
      <4>2. Prefix(a, disk[w][g] \o Text(writes'))
        BY <2>2, <3>1, <4>1, PrefixFacts, TextFacts
      <4> QED
        BY <2>6, <3>1, <4>2
    <3>2. \A g \in Files : Prefix(disk'[s][g], disk'[w][g])
      <4> TAKE g \in Files
      <4>1. disk'[s][g] = disk[s][g] /\ disk[s][g] \in Seq(Bytes)
        BY <1>b, <1>c, <2>6
      <4>2. Prefix(disk[s][g], disk[w][g])
        BY <1>a DEF Behind, s
      <4> QED
        BY <3>1, <4>1, <4>2
    <3>3. ASSUME NEW j \in Slots, thread'[w][j].pc = "over"
          PROVE  Prefix(thread'[w][j].data, disk'[w][thread'[w][j].file])
      <4>1. thread'[w][j] = thread[w][j]
        BY <2>3, <2>5, <3>3
      <4>2. thread[w][j].data \in Seq(Bytes) /\ thread[w][j].file \in Files
        BY <1>f, <3>3, <4>1 DEF Contents, Thread
      <4> QED
        BY <1>a, <3>1, <3>3, <4>1, <4>2 DEF Behind
    <3>4. ASSUME NEW c \in closing'
          PROVE  Prefix(c.data, disk'[w][c.file])
      <4>1. c \in closing /\ c.data \in Seq(Bytes) /\ c.file \in Files
        BY <1>a, <2>7 DEF Contents, TypeOK
      <4> QED
        BY <1>a, <3>1, <4>1 DEF Behind
    <3> QED
      BY <1>b, <3>2, <3>3, <3>4 DEF Behind, Prefix
  <2>10. CatchesUp(w)'
    <3> SUFFICES ASSUME NEW g \in Files
                 PROVE  disk'[s][g] = disk'[w][g] \/ Underway(w, g)'
      BY <1>b DEF CatchesUp
    <3>1. CASE g = f
      BY <2>3, <2>5, <3>1 DEF Underway
    <3>2. CASE g # f
      <4>1. disk'[s][g] = disk[s][g] /\ disk'[w][g] = disk[w][g]
        BY <1>b, <2>6, <3>2
      <4>2. CASE disk[s][g] = disk[w][g]
        BY <4>1, <4>2
      <4>3. ASSUME Underway(w, g) PROVE Underway(w, g)'
        <5>1. \A j \in Slots : thread[w][j].pc # "free" => thread'[w][j] = thread[w][j]
          BY <2>5, <2>7
        <5> QED
          BY <2>7, <4>1, <4>3, <5>1 DEF Underway
      <4> QED
        BY <1>a, <4>2, <4>3 DEF CatchesUp, s
    <3> QED
      BY <3>1, <3>2
  <2> QED
    BY <2>8, <2>9, <2>10 DEF AgreeInv
<1>3. ASSUME NEW t \in Trackers, NEW k \in Slots, Finish(t, k)
      PROVE  AgreeInv(w)'
  <2>1. t = w /\ thread[w][k].pc = "sync" /\ thread[w][k].todo = {}
    BY <1>3, <1>e DEF Finish
  <2>2. Free \in Thread /\ Free.pc = "free" /\ Free.linked
    BY FreeIsThread DEF Free
  <2>3. thread' = Goto(w, k, Free) /\ UNCHANGED <<status, disk, closing, crashes>>
    BY <1>3, <2>1 DEF Finish
  <2> QED
    BY <1>a, <2>1, <2>2, <2>3, PushStep
<1>4. ASSUME NEW t \in Trackers, NEW k \in Slots, NEW f \in Files, SyncProbe(t, k, f)
      PROVE  AgreeInv(w)'
  <2> DEFINE rest == [thread[w][k] EXCEPT !.todo = @ \ {f}]
             conn == [rest EXCEPT !.pc = "connect", !.file = f,
                                  !.replaced = FALSE, !.linked = TRUE]
  <2>1. t = w /\ thread[w][k].pc = "sync"
    BY <1>4, <1>e DEF SyncProbe
  <2>2. conn \in Thread /\ conn.pc = "connect" /\ conn.file = f /\ conn.linked
        /\ conn.todo = thread[w][k].todo \ {f}
    BY <1>f DEF Thread
  <2>3. thread' = Goto(w, k, conn) /\ UNCHANGED <<status, disk, closing, crashes>>
    BY <1>4, <1>b, <1>d, <2>1 DEF SyncProbe, s
  <2> HIDE DEF conn
  <2> QED
    BY <1>a, <2>1, <2>2, <2>3, PushStep
<1>5. ASSUME NEW t \in Trackers, NEW k \in Slots, SyncConnect(t, k)
      PROVE  AgreeInv(w)'
  <2> DEFINE th == [thread[w][k] EXCEPT !.pc = "handshake"]
  <2>1. t = w /\ thread[w][k].pc = "connect"
    BY <1>5, <1>e DEF SyncConnect
  <2>2. th \in Thread /\ th.pc = "handshake" /\ th.linked
        /\ th.file = thread[w][k].file /\ th.todo = thread[w][k].todo
    BY <1>f DEF Thread
  <2>3. thread' = Goto(w, k, th) /\ UNCHANGED <<status, disk, closing, crashes>>
    BY <1>5, <2>1 DEF SyncConnect
  <2> HIDE DEF th
  <2> QED
    BY <1>a, <2>1, <2>2, <2>3, PushStep
<1>6. ASSUME NEW t \in Trackers, NEW k \in Slots, SyncSend(t, k)
      PROVE  AgreeInv(w)'
  <2> DEFINE th == [thread[w][k] EXCEPT !.pc = "over", !.data = disk[w][thread[w][k].file]]
  <2>1. t = w /\ thread[w][k].pc = "send"
    BY <1>6, <1>e DEF SyncSend
  <2>2. disk[w][thread[w][k].file] \in Contents /\ thread[w][k].file \in Files
    BY <1>a, <1>f, <2>1 DEF TypeOK
  <2>3. th \in Thread /\ th.pc = "over" /\ th.linked
        /\ th.file = thread[w][k].file /\ th.todo = thread[w][k].todo
        /\ th.data = disk[w][thread[w][k].file]
    BY <1>f, <2>2 DEF Thread
  <2>4. thread' = Goto(w, k, th) /\ UNCHANGED <<status, disk, closing, crashes>>
    BY <1>6, <1>f, <2>1 DEF SyncSend
  <2> HIDE DEF th
  <2> QED
    BY <1>a, <2>1, <2>2, <2>3, <2>4, PushStep
<1>7. ASSUME NEW t \in Trackers, NEW k \in Slots, SyncOver(t, k)
      PROVE  AgreeInv(w)'
  <2> DEFINE me == thread[w][k]
             th == [Free EXCEPT !.pc = "sync", !.todo = me.todo, !.line = me.line]
             c == [at |-> GetTracker2(w), file |-> me.file, data |-> me.data]
  <2>1. t = w /\ me.pc = "over"
    BY <1>7, <1>e DEF SyncOver
  <2>2. me.todo \in SUBSET Files /\ me.line \in 0..MaxWrites
    BY <1>f DEF Thread
  <2>3. th \in Thread /\ th.pc = "sync" /\ th.linked /\ th.todo = me.todo
    <3>1. th \in Thread /\ th.pc = "sync"
      BY <2>2, SyncingThread
    <3> QED
      BY <3>1 DEF Free
  <2>4. thread' = Goto(w, k, th) /\ UNCHANGED <<status, disk, crashes>>
        /\ closing' = closing \cup {c}
    BY <1>7, <1>f, <2>1 DEF SyncOver
  <2>5. c.at = GetTracker2(w) /\ c.file = me.file /\ c.data = me.data
    OBVIOUS
  <2> HIDE DEF th, c
  <2> QED
    BY <1>a, <2>1, <2>3, <2>4, <2>5, PushStep
<1>8. ASSUME NEW t \in Trackers, NEW k \in Slots, SyncRecv(t, k)
      PROVE  AgreeInv(w)'
  <2> DEFINE th == [thread[w][k] EXCEPT !.pc = "send"]
             f == thread[w][k].file
  <2>1. t = w /\ thread[w][k].pc = "handshake"
    BY <1>8, <1>e DEF SyncRecv
  <2>2. /\ th \in Thread /\ th.pc = "send" /\ th.linked
        /\ th.file = f /\ th.todo = thread[w][k].todo
    BY <1>f DEF Thread
  <2>3. thread' = Goto(w, k, th) /\ UNCHANGED <<status, closing, crashes>>
    BY <1>8, <2>1 DEF SyncRecv
  <2>4. disk' = [disk EXCEPT ![s][f] = << >>]
    BY <1>8, <2>1 DEF SyncRecv, s
  <2>5. f \in Files
    BY <1>f, <2>1
  <2> HIDE DEF th, f
  <2>6. \A u \in Trackers, g \in Files :
          disk'[u][g] = IF u = s /\ g = f THEN << >> ELSE disk[u][g]
    BY <1>b, <1>c, <2>4, <2>5
  <2>7. \A u \in Trackers, j \in Slots :
          thread'[u][j] = IF u = w /\ j = k THEN th ELSE thread[u][j]
    BY <1>a, <2>2, <2>3, GotoFacts
  <2>8. OnlyPushes(w)'
    BY <1>a, <1>b, <2>2, <2>3, <2>7 DEF OnlyPushes, s
  <2>9. \A g \in Files : disk'[w][g] = disk[w][g]
    BY <1>b, <2>6
  <2>10. Behind(w)'
    <3>1. \A g \in Files : Prefix(disk'[s][g], disk'[w][g])
      <4>1. \A g \in Files : Prefix(<< >>, disk[w][g])
        BY <1>c DEF Prefix
      <4>2. \A g \in Files : Prefix(disk[s][g], disk[w][g])
        BY <1>a DEF Behind, s
      <4> QED
        BY <1>b, <2>6, <2>9, <4>1, <4>2
    <3>2. ASSUME NEW j \in Slots, thread'[w][j].pc = "over"
          PROVE  Prefix(thread'[w][j].data, disk'[w][thread'[w][j].file])
      <4>1. thread'[w][j] = thread[w][j] /\ thread[w][j].file \in Files
        BY <1>f, <2>2, <2>7, <3>2
      <4> QED
        BY <1>a, <2>9, <3>2, <4>1 DEF Behind
    <3>3. ASSUME NEW c \in closing'
          PROVE  Prefix(c.data, disk'[w][c.file])
      <4>1. c \in closing /\ c.file \in Files
        BY <1>a, <2>3 DEF TypeOK
      <4> QED
        BY <1>a, <2>9, <4>1 DEF Behind
    <3> QED
      BY <1>b, <3>1, <3>2, <3>3 DEF Behind, Prefix
  <2>11. CatchesUp(w)'
    <3> SUFFICES ASSUME NEW g \in Files
                 PROVE  disk'[s][g] = disk'[w][g] \/ Underway(w, g)'
      BY <1>b DEF CatchesUp
    <3>1. CASE g = f
      BY <2>2, <2>7, <3>1 DEF Underway
    <3>2. CASE g # f
      <4>1. disk'[s][g] = disk[s][g] /\ disk'[w][g] = disk[w][g]
        BY <1>b, <2>6, <3>2
      <4>2. CASE disk[s][g] = disk[w][g]
        BY <4>1, <4>2
      <4>3. ASSUME Underway(w, g) PROVE Underway(w, g)'
        <5>1. \A j \in Slots : j # k => thread'[w][j] = thread[w][j]
          BY <2>7
        <5>2. thread'[w][k].pc = "send" /\ thread'[w][k].todo = thread[w][k].todo
          BY <2>2, <2>7
        <5> QED
          BY <2>1, <2>3, <3>2, <4>1, <4>3, <5>1, <5>2 DEF Underway, f
      <4> QED
        BY <1>a, <4>2, <4>3 DEF CatchesUp, s
    <3> QED
      BY <3>1, <3>2
  <2> QED
    BY <2>8, <2>10, <2>11 DEF AgreeInv
<1>9. ASSUME NEW c \in closing, SyncClose(c)
      PROVE  AgreeInv(w)'
  <2> DEFINE f == c.file
             new == Overwrite(c.data, disk[s][f])
  <2>1. c.at = s /\ f \in Files /\ c.data \in Seq(Bytes)
    BY <1>a DEF Contents, TypeOK, OnlyPushes, s
  <2>2. disk' = [disk EXCEPT ![s][f] = new]
    BY <1>9, <2>1 DEF SyncClose
  <2>3. UNCHANGED <<status, thread, crashes>> /\ closing' = closing \ {c}
    BY <1>9 DEF SyncClose
  <2>4. /\ Prefix(c.data, disk[w][f]) /\ Prefix(disk[s][f], disk[w][f])
        /\ disk[w][f] \in Seq(Bytes) /\ disk[s][f] \in Seq(Bytes)
    BY <1>a, <1>b, <1>c, <2>1 DEF Behind, s
  <2>5. /\ Prefix(new, disk[w][f])
        /\ c.data = disk[w][f] => new = disk[w][f]
        /\ disk[s][f] = disk[w][f] => new = disk[w][f]
    BY <2>1, <2>4, PrefixFacts
  <2> HIDE DEF new, f
  <2>6. \A u \in Trackers, g \in Files :
          disk'[u][g] = IF u = s /\ g = f THEN new ELSE disk[u][g]
    BY <1>b, <1>c, <2>1, <2>2
  <2>7. \A g \in Files : disk'[w][g] = disk[w][g]
    BY <1>b, <2>6
  <2>8. OnlyPushes(w)'
    BY <1>a, <1>b, <2>3 DEF OnlyPushes, s
  <2>9. Behind(w)'
    <3>1. \A g \in Files : Prefix(disk'[s][g], disk'[w][g])
      BY <1>a, <1>b, <2>5, <2>6, <2>7 DEF Behind, s
    <3>2. ASSUME NEW j \in Slots, thread'[w][j].pc = "over"
          PROVE  Prefix(thread'[w][j].data, disk'[w][thread'[w][j].file])
      BY <1>a, <1>f, <2>3, <2>7, <3>2 DEF Behind
    <3>3. ASSUME NEW d \in closing'
          PROVE  Prefix(d.data, disk'[w][d.file])
      <4>1. d \in closing /\ d.file \in Files
        BY <1>a, <2>3 DEF TypeOK
      <4> QED
        BY <1>a, <2>7, <4>1 DEF Behind
    <3> QED
      BY <1>b, <3>1, <3>2, <3>3 DEF Behind, Prefix
  <2>10. CatchesUp(w)'
    <3> SUFFICES ASSUME NEW g \in Files, disk'[s][g] # disk'[w][g]
                 PROVE  Underway(w, g)'
      BY <1>b DEF CatchesUp
    <3>1. disk[s][g] # disk[w][g] /\ ~(c.file = g /\ c.data = disk[w][g])
      BY <1>b, <2>5, <2>6, <2>7 DEF f
    <3>2. Underway(w, g)
      BY <1>a, <3>1 DEF CatchesUp, s
    <3>3. disk'[w][g] = disk[w][g]
      BY <2>7
    <3> QED
      BY <2>3, <3>1, <3>2, <3>3 DEF Underway
  <2> QED
    BY <2>8, <2>9, <2>10 DEF AgreeInv
<1>10. ASSUME NEW t \in Trackers, AcceptOther(t) \/ Join(t)
       PROVE  AgreeInv(w)'
  BY <1>1, <1>10 DEF AcceptOther, Join
<1>11. CASE UNCHANGED vars
  BY <1>1, <1>11 DEF vars, conns
<1>12. \A t \in Trackers :
         /\ ~Start(t) /\ ~SyncAll(t) /\ ~Listen(t) /\ ~SyncAllConnectFails(t)
         /\ ~SyncAllLost(t)
         /\ \A k \in Slots : ~SyncConnectFails(t, k) /\ ~SyncAllHandler(t, k)
  BY <1>d, Sibling DEF Start, SyncAll, Listen, SyncAllConnectFails,
       SyncConnectFails, SyncAllHandler, SyncAllLost
<1>13. \A t \in Trackers : ~Crash(t)
  BY <1>a DEF OnlyPushes, Crash
<1>14. ~\E t \in Trackers, k \in Slots, f \in Files, l \in Lines : AcceptDelete(t, k, f, l)
  BY DEF Deletion
<1> QED
  BY <1>2, <1>3, <1>4, <1>5, <1>6, <1>7, <1>8, <1>9, <1>10, <1>11, <1>12, <1>13, <1>14
     DEF Next, Serve, Boot, Push

\* A line was deleted: its request counts, and is not and will not be answered.
Unanswered(l) ==
  l \notin answered /\ \A t \in Trackers, k \in Slots : thread[t][k].line # l

Gone == \E l \in 1..writes : Unanswered(l)

LEMMA GoneStays ==
  ASSUME TypeInv, Gone, [Next]_vars
  PROVE  Gone'
<1>a. TypeOK
  BY DEF TypeInv
<1>b. writes \in Nat
  BY <1>a, BoundsAssumption DEF TypeOK
<1>c. PICK l \in 1..writes : Unanswered(l)
  BY DEF Gone
<1>d. l # 0 /\ l # writes + 1 /\ l \in 1..(writes + 1)
  BY <1>b, <1>c
<1>e. \A t \in Trackers, k \in Slots : thread[t][k].line # l /\ thread[t][k] \in Thread
  BY <1>a, <1>c DEF Unanswered, TypeOK
<1>f. Free.line = 0 /\ Free \in Thread
  BY FreeIsThread DEF Free
<1>1. ASSUME UNCHANGED <<thread, writes, answered>>
      PROVE  Gone'
  BY <1>1, <1>c DEF Gone, Unanswered
\* A step of one thread.
<1>2. ASSUME NEW t \in Trackers, NEW k \in Slots, NEW th, th.line # l,
             thread' = Goto(t, k, th), writes' \in {writes, writes + 1},
             answered' \subseteq answered \cup {thread[t][k].line}
      PROVE  Gone'
  <2>1. \A u \in Trackers, j \in Slots :
          thread'[u][j] = IF u = t /\ j = k THEN th ELSE thread[u][j]
    BY <1>a, <1>2 DEF TypeOK, Goto
  <2>2. Unanswered(l)'
    BY <1>c, <1>e, <1>2, <2>1 DEF Unanswered
  <2>3. l \in 1..writes'
    BY <1>c, <1>d, <1>2
  <2> QED
    BY <2>2, <2>3 DEF Gone
<1>3. ASSUME NEW t \in Trackers, NEW k \in Slots, NEW f \in Files, AcceptAppend(t, k, f)
      PROVE  Gone'
  <2>1. PICK th : th = [Free EXCEPT !.pc = "sync", !.todo = {f}, !.line = writes']
    OBVIOUS
  <2>2. th.line = writes + 1
    BY <1>3, <1>f, <2>1 DEF AcceptAppend, Thread
  <2>3. /\ thread' = Goto(t, k, th) /\ writes' = writes + 1 /\ answered' = answered
    BY <1>3, <2>1 DEF AcceptAppend
  <2> QED
    BY <1>d, <1>2, <2>2, <2>3
<1>4. ASSUME NEW t \in Trackers, NEW k \in Slots, Finish(t, k)
      PROVE  Gone'
  BY <1>d, <1>f, <1>2, <1>4 DEF Finish
<1>5. ASSUME NEW t \in Trackers, NEW k \in Slots, NEW f \in Files, SyncProbe(t, k, f)
      PROVE  Gone'
  <2>1. PICK me \in Thread : me = thread[t][k]
    BY <1>e
  <2>2. PICK rest : rest = [me EXCEPT !.todo = @ \ {f}]
    OBVIOUS
  <2>3. rest \in Thread /\ rest.line = me.line
    BY <2>2 DEF Thread
  <2>4. PICK go : go = [rest EXCEPT !.pc = "connect", !.file = f,
                                    !.replaced = FALSE, !.linked = TRUE]
    OBVIOUS
  <2>5. go.line = me.line
    BY <2>3, <2>4 DEF Thread
  <2>6. thread' = Goto(t, k, IF IsOnline(GetTracker2(t)) THEN go ELSE rest)
    BY <1>5, <2>1, <2>2, <2>4, Zenon DEF SyncProbe
  <2>7. writes' = writes /\ answered' = answered
    BY <1>5 DEF SyncProbe
  <2> QED
    BY <1>e, <1>2, <2>1, <2>3, <2>5, <2>6, <2>7
<1>6. ASSUME NEW t \in Trackers, NEW k \in Slots, SyncConnect(t, k) \/ SyncRecv(t, k)
      PROVE  Gone'
  <2>1. PICK me \in Thread : me = thread[t][k]
    BY <1>e
  <2>2. PICK p : thread' = Goto(t, k, [me EXCEPT !.pc = p])
    BY <1>6, <2>1 DEF SyncConnect, SyncRecv
  <2>3. [me EXCEPT !.pc = p].line = me.line
    BY DEF Thread
  <2>4. writes' = writes /\ answered' = answered
    BY <1>6 DEF SyncConnect, SyncRecv
  <2> QED
    BY <1>e, <1>2, <2>1, <2>2, <2>3, <2>4
<1>7. ASSUME NEW t \in Trackers, NEW k \in Slots, SyncSend(t, k)
      PROVE  Gone'
  <2>1. PICK me \in Thread : me = thread[t][k]
    BY <1>e
  <2>2. PICK d : thread' = Goto(t, k, [me EXCEPT !.pc = "over", !.data = d])
    BY <1>7, <2>1 DEF SyncSend
  <2>3. [me EXCEPT !.pc = "over", !.data = d].line = me.line
    BY DEF Thread
  <2>4. writes' = writes /\ answered' = answered
    BY <1>7 DEF SyncSend
  <2> QED
    BY <1>e, <1>2, <2>1, <2>2, <2>3, <2>4
<1>8. ASSUME NEW t \in Trackers, NEW k \in Slots, SyncOver(t, k)
      PROVE  Gone'
  <2>1. PICK me \in Thread : me = thread[t][k]
    BY <1>e
  <2>2. PICK th : th = [Free EXCEPT !.pc = "sync", !.todo = me.todo, !.line = me.line]
    OBVIOUS
  <2>3. th.line = me.line
    BY <1>f, <2>2 DEF Thread
  <2>4. thread' = Goto(t, k, th) /\ writes' = writes /\ answered' = answered
    BY <1>8, <2>1, <2>2 DEF SyncOver
  <2> QED
    BY <1>e, <1>2, <2>1, <2>3, <2>4
<1>9. ASSUME NEW t \in Trackers, NEW k \in Slots, SyncAllHandler(t, k)
      PROVE  Gone'
  <2>1. PICK th : th = [Free EXCEPT !.pc = "sync", !.todo = Files]
    OBVIOUS
  <2>2. th.line = 0
    BY <1>f, <2>1 DEF Thread
  <2>3. thread' = Goto(t, k, th) /\ writes' = writes /\ answered' = answered
    BY <1>9, <2>1 DEF SyncAllHandler
  <2> QED
    BY <1>d, <1>2, <2>2, <2>3
<1>10. ASSUME NEW t \in Trackers, Stop(t)
       PROVE  Gone'
  <2>1. PICK s \in Trackers : s = GetTracker2(t) /\ s # t /\ \A u \in Trackers : u = t \/ u = s
    BY Sibling
  <2>2. PICK A, B : /\ thread' = [thread EXCEPT ![t] = A, ![s] = B]
                    /\ A = [k \in Slots |-> Free]
                    /\ B = [k \in Slots |->
                         IF thread[s][k].pc \in {"handshake", "send", "over"}
                         THEN [Free EXCEPT !.pc = "sync", !.todo = thread[s][k].todo,
                                           !.line = thread[s][k].line]
                         ELSE thread[s][k]]
    BY <1>10, <2>1 DEF Stop
  <2>3. thread'[t] = A /\ thread'[s] = B
    BY <1>a, <2>1, <2>2 DEF TypeOK
  <2>4. ASSUME NEW k \in Slots
        PROVE  A[k].line # l /\ B[k].line # l
    <3>1. PICK me \in Thread : me = thread[s][k]
      BY <1>e
    <3>2. PICK th : th = [Free EXCEPT !.pc = "sync", !.todo = me.todo, !.line = me.line]
      OBVIOUS
    <3>3. th.line = me.line
      BY <1>f, <3>2 DEF Thread
    <3>4. B[k] \in {th, me}
      BY <2>2, <3>1, <3>2
    <3> QED
      BY <1>d, <1>e, <1>f, <2>2, <3>1, <3>3, <3>4
  <2>5. \A u \in Trackers, k \in Slots : thread'[u][k].line # l
    BY <2>1, <2>3, <2>4
  <2>6. writes' = writes /\ answered' = answered
    BY <1>10 DEF Stop
  <2> QED
    BY <1>c, <2>5, <2>6 DEF Gone, Unanswered
<1>11. ASSUME NEW t \in Trackers, NEW k \in Slots, NEW f \in Files, NEW m \in Lines,
              AcceptDelete(t, k, f, m)
       PROVE  Gone'
  <2>1. \A u \in Trackers, j \in Slots : thread'[u][j].line \in {thread[u][j].line, 0}
    BY <1>a, <1>11, DeleteThreads
  <2>2. writes' = writes /\ answered' \subseteq answered
    BY <1>11 DEF AcceptDelete
  <2> QED
    BY <1>c, <1>d, <1>e, <2>1, <2>2 DEF Gone, Unanswered
<1>12. ASSUME NEW c \in closing, SyncClose(c)
       PROVE  Gone'
  BY <1>1, <1>12 DEF SyncClose
<1>13. ASSUME NEW t \in Trackers,
              \/ AcceptOther(t) \/ Join(t) \/ SyncAllLost(t)
              \/ Start(t) \/ SyncAll(t) \/ Listen(t)
       PROVE  Gone'
  BY <1>1, <1>13 DEF AcceptOther, Join, SyncAllLost, Start, SyncAll, Listen, conns
<1>14. ASSUME NEW t \in Trackers,
              \/ Crash(t) \/ SyncAllConnectFails(t)
              \/ \E k \in Slots : SyncConnectFails(t, k)
       PROVE  Gone'
  BY <1>10, <1>14 DEF Crash, SyncAllConnectFails, SyncConnectFails
<1>15. CASE UNCHANGED vars
  BY <1>1, <1>15 DEF vars, conns
<1> QED
  BY <1>3, <1>4, <1>5, <1>6, <1>7, <1>8, <1>9, <1>11, <1>12, <1>13, <1>14, <1>15
     DEF Next, Serve, Boot, Push

\* A deletion takes the line of a past request.
LEMMA DeletionIsGone ==
  ASSUME TypeInv, PlaceInv, Deletion
  PROVE  Gone'
<1>1. PICK t \in Trackers, k \in Slots, f \in Files, l \in Lines : AcceptDelete(t, k, f, l)
  BY DEF Deletion
<1>2. TypeOK /\ OnePlace
  BY DEF TypeInv, PlaceInv
<1>3. PICK i \in DOMAIN disk[t][f] : StandsAt(disk[t][f], i, l)
  BY <1>1 DEF AcceptDelete
<1>4. i \in Nat
  <2>1. disk[t][f] \in Seq(Bytes)
    BY <1>2 DEF TypeOK, Contents
  <2> QED
    BY <2>1
<1>5. Placed(f, i, <<l, 1>>) /\ <<l, 1>> \in Bytes
  <2>1. 1 \in 1..Width[l] /\ i + 1 - 1 = i
    BY <1>4, TextFacts
  <2>2. disk[t][f][i] = <<l, 1>>
    BY <1>3, <2>1 DEF StandsAt
  <2> QED
    BY <2>2 DEF Placed, Bytes
<1>6. l <= writes
  <2>1. <<l, 1>>[1] <= writes
    BY <1>2, <1>4, <1>5 DEF OnePlace
  <2> QED
    BY <2>1
<1>7. writes' = writes /\ l \notin answered'
  BY <1>1 DEF AcceptDelete
<1>8. \A u \in Trackers, j \in Slots : thread'[u][j].line # l
  BY <1>1, <1>2, DeleteThreads
<1>9. l \in 1..writes'
  <2>1. writes \in Nat /\ MaxWrites \in Nat
    BY <1>2, BoundsAssumption DEF TypeOK
  <2> QED
    BY <1>6, <1>7, <2>1 DEF Lines
<1> QED
  BY <1>7, <1>8, <1>9 DEF Gone, Unanswered

\* The two copies are equal whenever no push is under way, for every number of
\* handler threads that push the same files at the same time in any order, provided
\* that one tracker gets the requests and that no tracker is killed, until a line is
\* deleted: Sync opens and reads the file after SyncRecv truncated the copy
\* (trackersync.cpp:86-92, 171-184), so the last push to be read has everything.
THEOREM CopiesAgree ==
  ASSUME NEW w \in Trackers, Writers \subseteq {w}, MaxCrashes = 0
  PROVE  SpecServing => []ReplicasAgree
<1>1. InitServing => TypeInv /\ PlaceInv /\ AgreeInv(w)
  <2> SUFFICES ASSUME InitServing PROVE AgreeInv(w)
    BY TypeInit, PlaceInit
  <2>1. GetTracker2(w) \in Trackers
    BY Sibling
  <2> QED
    BY <2>1 DEF InitServing, Empty, AgreeInv, OnlyPushes, Behind, CatchesUp, Prefix, Free
<1>2. TypeInv /\ (Gone \/ (PlaceInv /\ AgreeInv(w))) /\ [Next]_vars
        => TypeInv' /\ (Gone' \/ (PlaceInv' /\ AgreeInv(w)'))
  <2> SUFFICES ASSUME TypeInv, Gone \/ (PlaceInv /\ AgreeInv(w)), [Next]_vars
               PROVE  TypeInv' /\ (Gone' \/ (PlaceInv' /\ AgreeInv(w)'))
    OBVIOUS
  <2>1. TypeInv'
    BY TypeStep
  <2>2. CASE Gone
    BY <2>1, <2>2, GoneStays
  <2>3. CASE PlaceInv /\ AgreeInv(w) /\ Deletion
    BY <2>1, <2>3, DeletionIsGone
  <2>4. CASE PlaceInv /\ AgreeInv(w) /\ ~Deletion
    BY <2>1, <2>4, PlaceNext, AgreeNext DEF PlaceInv
  <2> QED
    BY <2>2, <2>3, <2>4
<1>3. Gone => ReplicasAgree
  BY DEF Gone, Unanswered, ReplicasAgree, OnlyAppends
<1>4. TypeInv /\ AgreeInv(w) => ReplicasAgree
  <2> SUFFICES ASSUME TypeInv, AgreeInv(w), Quiet,
                      NEW t \in Trackers, NEW u \in Trackers
               PROVE  disk[t] = disk[u]
    BY DEF ReplicasAgree
  <2>1. \A f \in Files : ~Underway(w, f)
    BY DEF Quiet, Underway
  <2>2. \A f \in Files : disk[GetTracker2(w)][f] = disk[w][f]
    BY <2>1 DEF AgreeInv, CatchesUp
  <2>3. disk[GetTracker2(w)] = disk[w]
    BY <2>2, Sibling DEF TypeInv, TypeOK
  <2> QED
    BY <2>3, Sibling
<1> QED
  BY <1>1, <1>2, <1>3, <1>4, PTL DEF SpecServing
=============================================================================
