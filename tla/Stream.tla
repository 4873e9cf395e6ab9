------------------------------- MODULE Stream -------------------------------
(***************************************************************************)
(* One TLS connection over which a tracker pushes a file: the framing of   *)
(* tls.cpp and the exchange of blocks and acknowledgements of Sync and     *)
(* SyncRecv in trackersync.cpp.                                            *)
(*                                                                         *)
(* A unit of data stands for some bytes.  OpenSSL cuts what is written     *)
(* into records, and a read returns at most one of them, so SyncRecv       *)
(* acknowledges records while Sync waits for one acknowledgement a block.  *)
(* The connection may be cut at any time, and a socket closed before all   *)
(* it received was read resets it; what has not arrived then is lost.      *)
(***************************************************************************)
EXTENDS Naturals, Sequences

CONSTANTS
  RecordMax,  \* units in a TLS record, 16384 bytes
  BlockMax,   \* units Sync reads at a time: MAX_SIZE, 65535 bytes
  MsgMax,     \* MAX_MSG_SIZE, in units
  MaxFile     \* bound: units in the file

ASSUME SizesAssumption ==
  /\ RecordMax \in Nat \ {0} /\ MsgMax \in Nat /\ MaxFile \in Nat
  /\ BlockMax \in Nat /\ BlockMax >= RecordMax

VARIABLES
  file,      \* the units of the file
  len,       \* units in the request
  client,    \* Sync: pc, the records SSL_write has yet to send, units read by fread
  c2s,       \* records on their way to the receiver
  acks,      \* acknowledgements on their way back
  server,    \* TrackerKernel and SyncRecv: pc, the length announced, units got
  copy,      \* what SyncRecv has written
  broken     \* "no", "cut" or "reset"

vars == <<file, len, client, c2s, acks, server, copy, broken>>
wire == <<c2s, acks, broken>>

Smaller(a, b) == IF a < b THEN a ELSE b
Units == 1..MaxFile

\* A record: the four bytes of a length, units of the request or of the file, or
\* "Sync Over".
Record == [kind : {"len", "msg"}, n : 1..(MsgMax + 1)]
            \cup [kind : {"data"}, data : Seq(Units)]
            \cup [kind : {"over"}]

TypeOK ==
  /\ file \in Seq(Units) /\ Len(file) <= MaxFile
  /\ len \in 1..(MsgMax + 1)
  /\ client.pc \in {"header", "payload", "first", "block", "ack", "end", "closed"}
  /\ client.out \in Seq(Record)
  /\ client.pos \in 0..Len(file)
  /\ c2s \in Seq(Record)
  /\ acks \in 0..(MaxFile + 2)
  /\ server.pc \in {"header", "payload", "ack", "read", "over", "refused"}
  /\ server.need \in 0..(MsgMax + 1) /\ server.got \in 0..server.need
  /\ copy \in Seq(Units)
  /\ broken \in {"no", "cut", "reset"}

----------------------------------------------------------------------------
(* The client: Sync.                                                       *)

Records(n) == (n + RecordMax - 1) \div RecordMax
SizeOfRecord(n, i) == Smaller(RecordMax, n - (i - 1) * RecordMax)

\* SSL_write of n units of the request, and of units a+1..b of the file.
MsgRecords(n) ==
  [i \in 1..Records(n) |-> [kind |-> "msg", n |-> SizeOfRecord(n, i)]]
DataRecords(a, b) ==
  [i \in 1..Records(b - a) |->
    LET first == a + (i - 1) * RecordMax IN
    [kind |-> "data", data |-> SubSeq(file, first + 1, first + SizeOfRecord(b - a, i))]]

\* SSLWriteAll: a record at a time, until one fails.
SSLWriteAll ==
  /\ client.out # << >>
  /\ \/ /\ broken = "no" /\ server.pc # "refused"
        /\ c2s' = Append(c2s, Head(client.out))
        /\ client' = [client EXCEPT !.out = Tail(@)]
     \/ /\ broken # "no" \/ server.pc = "refused"
        /\ client' = [client EXCEPT !.out = << >>]
        /\ UNCHANGED c2s
  /\ UNCHANGED <<file, len, acks, server, copy, broken>>

\* The next call, when the last write is complete.
Call(pc, next, out) ==
  /\ client.pc = pc /\ client.out = << >>
  /\ client' = [client EXCEPT !.pc = next, !.out = out]
  /\ UNCHANGED <<file, len, wire, server, copy>>

\* TLSSendMsg of the request: the length, then the payload.
SendLength == Call("header", "payload", <<[kind |-> "len", n |-> len]>>)
SendPayload == Call("payload", "first", MsgRecords(len))

\* TLSRecvRaw, whose result Sync does not look at.
ReadAck(pc) ==
  /\ client.pc = pc /\ client.out = << >>
  /\ \/ acks > 0 /\ acks' = acks - 1
     \/ acks = 0 /\ (broken # "no" \/ server.pc = "refused") /\ UNCHANGED acks
  /\ client' = [client EXCEPT !.pc = "block"]
  /\ UNCHANGED <<file, len, c2s, server, copy, broken>>

\* Variants: fread is taken to fill the block; no acknowledgement is read.
SendBlockFull ==
  LET to == client.pos + BlockMax IN
  /\ client.pc = "block" /\ client.out = << >> /\ client.pos < Len(file)
  /\ client' = [client EXCEPT !.pc = "ack", !.pos = to,
                  !.out = DataRecords(client.pos, Smaller(to, Len(file)))]
  /\ UNCHANGED <<file, len, wire, server, copy>>

SendBlockAhead ==
  LET to == Smaller(client.pos + BlockMax, Len(file)) IN
  /\ client.pc = "block" /\ client.out = << >> /\ client.pos < Len(file)
  /\ client' = [client EXCEPT !.pos = to, !.out = DataRecords(client.pos, to)]
  /\ UNCHANGED <<file, len, wire, server, copy>>

\* The loop of Sync: fread and TLSSendRaw.
SendBlock ==
  LET to == Smaller(client.pos + BlockMax, Len(file)) IN
  /\ client.pc = "block" /\ client.out = << >> /\ client.pos < Len(file)
  /\ client' = [client EXCEPT !.pc = "ack", !.pos = to,
                  !.out = DataRecords(client.pos, to)]
  /\ UNCHANGED <<file, len, wire, server, copy>>

SendOver ==
  /\ client.pos = Len(file)
  /\ Call("block", "end", <<[kind |-> "over"]>>)

\* TLSClose and close.
Close == Call("end", "closed", << >>)

----------------------------------------------------------------------------
(* The server: TrackerKernel, TLSRecvMsg, SyncRecv.                        *)

\* SSL_read returns 0 or less.
ReadFails == c2s = << >> /\ (broken # "no" \/ client.pc = "closed")

\* Variant: SyncRecv reads before it acknowledges.
DispatchSilent(got) == server' = [server EXCEPT !.got = got, !.pc = "read"]

\* TLSRecvMsg returns the empty string, or the request.
Refuse == server' = [server EXCEPT !.pc = "refused"]
Dispatch(got) == server' = [server EXCEPT !.got = got, !.pc = "ack"]

\* TLSRecvMsg: the length.
RecvLength ==
  /\ server.pc = "header"
  /\ \/ /\ c2s # << >>
        /\ c2s' = Tail(c2s)
        /\ server' = [server EXCEPT !.need = Head(c2s).n,
                        !.pc = IF Head(c2s).n > MsgMax THEN "refused" ELSE "payload"]
     \/ ReadFails /\ Refuse /\ UNCHANGED c2s
  /\ UNCHANGED <<file, len, client, acks, copy, broken>>

\* Variant: a payload that ends early is returned as it is.
RecvPayloadShort ==
  LET got == server.got + Head(c2s).n IN
  /\ server.pc = "payload"
  /\ \/ /\ c2s # << >>
        /\ c2s' = Tail(c2s)
        /\ IF got < server.need THEN server' = [server EXCEPT !.got = got]
           ELSE Dispatch(got)
     \/ ReadFails /\ Dispatch(server.got) /\ UNCHANGED c2s
  /\ UNCHANGED <<file, len, client, acks, copy, broken>>

\* TLSRecvMsg: SSLReadAll for the payload.
RecvPayload ==
  LET got == server.got + Head(c2s).n IN
  /\ server.pc = "payload"
  /\ \/ /\ c2s # << >>
        /\ c2s' = Tail(c2s)
        /\ IF got < server.need THEN server' = [server EXCEPT !.got = got]
           ELSE Dispatch(got)
     \/ ReadFails /\ Refuse /\ UNCHANGED c2s
  /\ UNCHANGED <<file, len, client, acks, copy, broken>>

\* The loop of SyncRecv: TLSSendRaw, then TLSRecvRaw.
SendAck ==
  /\ server.pc = "ack"
  /\ acks' = IF broken = "no" THEN acks + 1 ELSE acks
  /\ server' = [server EXCEPT !.pc = "read"]
  /\ UNCHANGED <<file, len, client, c2s, copy, broken>>

\* A read that fails is an empty line, and the loop goes round.
RecvBlock ==
  /\ server.pc = "read"
  /\ \/ /\ c2s # << >>
        /\ c2s' = Tail(c2s)
        /\ \/ /\ Head(c2s).kind = "over"
              /\ server' = [server EXCEPT !.pc = "over"]
              /\ UNCHANGED copy
           \/ /\ Head(c2s).kind = "data"
              /\ copy' = copy \o Head(c2s).data
              /\ server' = [server EXCEPT !.pc = "ack"]
     \/ /\ ReadFails
        /\ server' = [server EXCEPT !.pc = "ack"]
        /\ UNCHANGED <<c2s, copy>>
  /\ UNCHANGED <<file, len, client, acks, broken>>

----------------------------------------------------------------------------
(* The network.                                                            *)

Lose(how) ==
  /\ broken = "no"
  /\ broken' = how
  /\ \E k \in 0..Len(c2s) : c2s' = SubSeq(c2s, 1, k)
  /\ UNCHANGED <<file, len, client, server, copy>>

Cut == Lose("cut") /\ \E k \in 0..acks : acks' = k

\* Acknowledgements reach a socket that is closed, or was closed before they were read.
Reset == client.pc = "closed" /\ acks > 0 /\ Lose("reset") /\ UNCHANGED acks

----------------------------------------------------------------------------
Init ==
  /\ \E n \in 0..MaxFile : file = [i \in 1..n |-> i]
  /\ len \in 1..(MsgMax + 1)
  /\ client = [pc |-> "header", out |-> << >>, pos |-> 0]
  /\ c2s = << >>
  /\ acks = 0
  /\ server = [pc |-> "header", need |-> 0, got |-> 0]
  /\ copy = << >>
  /\ broken = "no"

ClientStep ==
  \/ SSLWriteAll \/ SendLength \/ SendPayload \/ ReadAck("first")
  \/ SendBlock \/ ReadAck("ack") \/ SendOver \/ Close
ServerStep == RecvLength \/ RecvPayload \/ SendAck \/ RecvBlock

Next == ClientStep \/ ServerStep \/ Cut \/ Reset

\* Both processes run as long as they do not wait for the other.
Fairness == WF_vars(ClientStep) /\ WF_vars(ServerStep)

Spec == Init /\ [][Next]_vars /\ Fairness

----------------------------------------------------------------------------
\* The connection implements a transfer: TLSRecvMsg returns the whole request or
\* "", SyncRecv's file is a prefix of the sender's, and it is all of it when
\* "Sync Over" has been read.
Request ==
  CASE server.pc \in {"header", "payload"} -> "waiting"
    [] server.pc = "refused" -> "none"
    [] OTHER -> IF server.got = len THEN "whole" ELSE "part"
SeenOver == server.pc = "over"
Receiver == INSTANCE Transfer WITH request <- Request, over <- SeenOver
ImplementsTransfer == Receiver!Spec

\* Sync closes a connection that SyncRecv still acknowledges, and may lose the end
\* of the file with it, only if a block took more than one record
\* (trackersync.cpp:86-95).
OnlyLongFilesAreReset == broken = "reset" => Len(file) > RecordMax

\* Sync returns, and SyncRecv reads "Sync Over" unless the connection broke or the
\* request was too long.
TransferEnds ==
  /\ <>(client.pc = "closed")
  /\ <>(server.pc = "over" \/ broken # "no" \/ len > MsgMax)

=============================================================================
