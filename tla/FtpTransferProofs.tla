------------------------- MODULE FtpTransferProofs -------------------------
(***************************************************************************)
(* Proofs about FtpTransfer, for any number of operations, keep-alive      *)
(* commands and unasked replies, in either mode and with or without the    *)
(* fallback.                                                               *)
(*                                                                         *)
(* ClientInv holds whatever the server sends: replies to come and replies  *)
(* to skip agree with the operation, the transfer socket belongs to it,    *)
(* and the events of earlier transfers are in front of those of this one.  *)
(*                                                                         *)
(* Replies carry no numbers, so that they match only because client and    *)
(* server take turns (Turns).  One command at most is outstanding, on its  *)
(* way, being worked on or answered; what is on its way suits what the     *)
(* client believes of the session (Settings) and waits for (OpMeans).      *)
(* Only a reply that nobody asked for breaks this; hence stray = 0 in the  *)
(* theorems of the second part.                                            *)
(***************************************************************************)
EXTENDS FtpTransfer, SequenceTheorems, TLAPS

Events == [type : {"command", "data", "end"}, id : Ids, reason : Reasons \cup {"none"}]
Requests == [id : Ids, verb : Verbs, binary : 0 .. 1, offset : 0 .. 1]
Replies == [id : Ids, verb : Verbs \cup {"stray"}, code : {1, 2, 5}]
Sockets == [id : Ids, reason : Reasons \cup {"none"}]
Types == {Unknown, 0, 1}

-----------------------------------------------------------------------------
(* What holds whatever the server sends.                                   *)

(* The owner executes one command at a time.                               *)
OneCommand ==
    \A i \in DOMAIN queue : queue[i].type = "command" =>
        /\ op.kind = "none" /\ issued < MaxOps
        /\ \A j \in DOMAIN queue : queue[j].type = "command" => i = j

(* Operations are numbered in order, and a transfer that waits for the     *)
(* login has caused no events.                                             *)
IdsAreFresh ==
    /\ op.kind = "none" => op = NoOp
    /\ op.kind # "none" => op.id # None
    /\ op.id <= issued /\ data.id <= issued
    /\ \A i \in DOMAIN queue :
          queue[i].id <= issued /\ (queue[i].type # "command" => queue[i].id # None)
    /\ ~conn /\ op.kind # "none" => \A i \in DOMAIN queue : queue[i].id # op.id

(* Without an operation every reply to come is skipped; an operation that  *)
(* has sent something skips none; without a connection nothing is pending  *)
(* and no timer runs.                                                      *)
CountersAgree ==
    /\ skip <= pending
    /\ op.kind = "none" => skip = pending
    /\ op.state # "init" => skip = 0
    /\ ~conn => /\ pending = 0 /\ toServer = <<>> /\ toClient = <<>> /\ data = NoData
                /\ op.state = "init" /\ ~idleTimer

(* The transfer socket is that of the current operation.                   *)
DataIsOfOp ==
    /\ data.id # None => op.kind = "transfer" /\ data.id = op.id
    /\ data.id = None => data = NoData
    /\ data.reason = "successful" => data.id \in complete

(* Events of earlier transfers are in front of those of this one.          *)
EndsInOrder ==
    data.id # None =>
        /\ \A i \in DOMAIN queue : queue[i].type = "data" /\ queue[i].id = data.id =>
              /\ data.reason = "none"
              /\ \A j \in DOMAIN queue : queue[j].type = "data" /\ queue[j].id = data.id => i = j
              /\ \A j \in DOMAIN queue : queue[j].type = "end" => j < i
        /\ data.reason # "none" =>
              \A i \in DOMAIN queue : queue[i].type = "end" => queue[i].id = data.id

ClientInv ==
    /\ TypeOK /\ RepliesAreCounted
    /\ OneCommand /\ IdsAreFresh /\ CountersAgree /\ DataIsOfOp /\ EndsInOrder

-----------------------------------------------------------------------------
(* Types of the operators.                                                 *)
LEMMA IdsAreNaturals == Ids \subseteq Nat /\ None \in Ids /\ (\A n \in Ids : n <= MaxOps)
  BY FtpBounds DEF Ids, None

LEMMA NoOpType ==
    /\ NoOp \in Op /\ NoData \in Sockets
    /\ NoOp.kind = "none" /\ NoOp.id = None /\ NoOp.state = "init"
    /\ NoData.id = None /\ NoData.reason = "none"
  BY IdsAreNaturals DEF NoOp, NoData, Op, Sockets, RawStates, Reasons

LEMMA NewOpType ==
    ASSUME NEW kind \in {"raw", "transfer"}, NEW id \in Ids, NEW binary \in 0 .. 1,
           NEW offset \in 0 .. 1, NEW pasv \in BOOLEAN, NEW more \in BOOLEAN
    PROVE  LET o == NewOp(kind, id, binary, offset, pasv, more)
           IN  /\ o \in Op /\ o.kind = kind /\ o.id = id /\ o.state = "init"
               /\ o.binary = binary /\ o.offset = offset /\ o.reason = "successful"
  BY DEF NewOp, NoOp, Op, RawStates, Reasons

(* Resumed changes the state, from rawtransfer_init only.                  *)
LEMMA ResumedType ==
    ASSUME NEW o \in Op, NEW type
    PROVE  LET n == Resumed(o, type)
           IN  /\ n \in Op /\ n.kind = o.kind /\ n.id = o.id /\ n.binary = o.binary
               /\ n.offset = o.offset /\ n.reason = o.reason /\ n.pasv = o.pasv
               /\ n.state = o.state \/ n.state \in {"type", "port_pasv"}
               /\ n.state = "init" => n.kind # "transfer"
               /\ n.kind # "transfer" \/ o.state # "init" => n = o
  BY DEF Resumed, Op, RawStates

LEMMA RequestType ==
    ASSUME NEW o \in Op
    PROVE  /\ Verb(o) \in {"raw", "type", "port_pasv", "rest", "transfer"}
           /\ Request(o.id, Verb(o), o.binary, o.offset) \in Requests
<1>1. Verb(o) \in {"raw", "type", "port_pasv", "rest", "transfer"}
  BY DEF Verb
<1> QED
  BY <1>1 DEF Request, Requests, Verbs, Op

(* SendNextCommand, without the case analysis.                             *)
LEMMA Sending ==
    ASSUME NEW o \in Op, NEW type \in Types, NEW rest \in BOOLEAN, NEW p \in Nat,
           NEW k \in Nat, toServer \in Seq(Requests), SendNextCommand(o, type, rest, p, k)
    PROVE  /\ op' \in Op /\ op'.kind = o.kind /\ op'.id = o.id
           /\ lastType' \in Types /\ sentRest' \in BOOLEAN /\ toServer' \in Seq(Requests)
           /\ skip' = k /\ pending' \in Nat /\ pending' >= p
           /\ k > 0 => op' = o
           /\ o.kind # "transfer" => op' = o
<1> DEFINE n == Resumed(o, type)
<1>1. n \in Op /\ n.kind = o.kind /\ n.id = o.id /\ (o.kind # "transfer" => n = o)
  BY ResumedType
<1>2. Request(n.id, Verb(n), n.binary, n.offset) \in Requests
  BY <1>1, RequestType
<1>3. skip' = k /\ (op' = o \/ op' = n) /\ (k > 0 => op' = o)
  BY DEF SendNextCommand
<1>4. pending' \in Nat /\ pending' >= p
  BY DEF SendNextCommand
<1>5. lastType' \in Types /\ sentRest' \in BOOLEAN
  BY DEF SendNextCommand, Types
<1>6. toServer' = toServer
      \/ toServer' = Append(toServer, Request(n.id, Verb(n), n.binary, n.offset))
  BY DEF SendNextCommand
<1> HIDE DEF n
<1>7. toServer' \in Seq(Requests)
  BY <1>2, <1>6
<1> QED
  BY <1>1, <1>3, <1>4, <1>5, <1>7

-----------------------------------------------------------------------------
(* What an action does to the client.  The operation ends, goes on or is   *)
(* replaced by a new one, and the counters stay consistent.                *)
Ends == op' = NoOp /\ data' = NoData /\ issued' = issued

GoesOn ==
    /\ op'.kind = op.kind /\ op'.id = op.id
    /\ op.kind = "none" => op' = op
    /\ data' = data /\ issued' = issued

Starts ==
    /\ issued' = issued + 1
    /\ op'.kind \in {"raw", "transfer"} /\ op'.id = issued + 1
    /\ \/ data' = NoData
       \/ op'.kind = "transfer" /\ data' = [id |-> issued + 1, reason |-> "none"]

Client ==
    /\ conn \in BOOLEAN /\ op \in Op /\ pending \in Nat /\ skip \in Nat
    /\ lastType \in Types /\ sentRest \in BOOLEAN /\ idleTimer \in BOOLEAN
    /\ data \in Sockets /\ toServer \in Seq(Requests) /\ issued \in Ids /\ done \subseteq Ids
    /\ RepliesAreCounted /\ CountersAgree

LEMMA InvHasClient == ClientInv => Client
  BY DEF ClientInv, TypeOK, Client, Types, Sockets, Requests

LEMMA NewSocketType ==
    ASSUME issued \in Ids, issued < MaxOps
    PROVE  issued + 1 \in Ids /\ [id |-> issued + 1, reason |-> "none"] \in Sockets
  BY FtpBounds DEF Ids, Sockets

(* ResetOperation at the end of a command                                  *)
LEMMA EndingOperation ==
    ASSUME Client, conn, NEW type \in Types, NEW rest \in BOOLEAN, NEW p \in Nat,
           EndOperation(type, rest, p), UNCHANGED conn, done' \subseteq Ids
    PROVE  Client' /\ Ends
<1>1. op' = NoOp /\ data' = NoData /\ pending' = p /\ skip' = p /\ lastType' = type
      /\ sentRest' = rest /\ toServer' = toServer /\ issued' = issued
  BY DEF EndOperation
<1>2. idleTimer' \in BOOLEAN /\ (idleTimer' \/ p > 0)
  <2>1. idleTimer' = (idleTimer \/ p = 0)
    BY DEF EndOperation, StartKeepaliveTimer
  <2>2. p = 0 \/ p > 0
    OBVIOUS
  <2> QED
    BY <2>1, <2>2
<1>3. RepliesAreCounted'
  BY <1>1, <1>2 DEF RepliesAreCounted
<1>4. CountersAgree'
  BY <1>1, NoOpType DEF CountersAgree
<1> QED
  BY <1>1, <1>2, <1>3, <1>4, NoOpType DEF Client, Ends

(* ResetOperation when another raw transfer follows                        *)
LEMMA StartingNextTransfer ==
    ASSUME Client, conn, op.kind # "none", NEW type \in Types, NEW rest \in BOOLEAN,
           NEW p \in Nat, NextRawTransfer(type, rest, p), UNCHANGED conn, done' \subseteq Ids
    PROVE  Client' /\ Starts /\ issued < MaxOps
<1>1. /\ issued < MaxOps /\ issued' = issued + 1
      /\ data' = [id |-> issued + 1, reason |-> "none"]
  BY DEF NextRawTransfer
<1>2. issued + 1 \in Ids /\ data' \in Sockets
  BY <1>1, NewSocketType DEF Client
<1>3. idleTimer' \in BOOLEAN
  BY DEF NextRawTransfer, StartKeepaliveTimer, Client
<1>4. PICK binary \in 0 .. 1, offset \in 0 .. 1, more \in BOOLEAN :
           SendNextCommand(NewOp("transfer", issued + 1, binary, offset, op.pasv, more),
                           type, rest, p, p)
  BY DEF NextRawTransfer
<1> DEFINE o == NewOp("transfer", issued + 1, binary, offset, op.pasv, more)
<1>5. o \in Op /\ o.kind = "transfer" /\ o.id = issued + 1 /\ o.state = "init"
  BY <1>2, NewOpType DEF Client, Op
<1> HIDE DEF o
<1>6. /\ op' \in Op /\ op'.kind = "transfer" /\ op'.id = issued + 1
      /\ lastType' \in Types /\ sentRest' \in BOOLEAN /\ toServer' \in Seq(Requests)
      /\ skip' = p /\ pending' \in Nat /\ pending' >= p /\ (p > 0 => op' = o)
  BY <1>4, <1>5, Sending DEF Client, o
<1>7. RepliesAreCounted' /\ CountersAgree'
  BY <1>5, <1>6 DEF RepliesAreCounted, CountersAgree
<1> QED
  BY <1>1, <1>2, <1>3, <1>6, <1>7 DEF Client, Starts

(* An operation that skips nothing sends its next command, or waits.       *)
LEMMA SendingOn ==
    ASSUME Client, conn, NEW o \in Op, o.kind = op.kind, o.id = op.id, op.kind # "none",
           NEW type \in Types, NEW rest \in BOOLEAN, NEW p \in Nat,
           SendNextCommand(o, type, rest, p, 0),
           UNCHANGED <<conn, data, idleTimer, issued>>, done' \subseteq Ids
    PROVE  Client' /\ GoesOn
<1>1. /\ op' \in Op /\ op'.kind = o.kind /\ op'.id = o.id
      /\ lastType' \in Types /\ sentRest' \in BOOLEAN /\ toServer' \in Seq(Requests)
      /\ skip' = 0 /\ pending' \in Nat
  BY Sending DEF Client
<1>2. RepliesAreCounted' /\ CountersAgree'
  BY <1>1 DEF RepliesAreCounted, CountersAgree
<1> QED
  BY <1>1, <1>2 DEF Client, GoesOn

LEMMA ReplyTypes ==
    ASSUME NEW o \in Op, NEW code \in {1, 2, 5}, NEW understood \in BOOLEAN,
           lastType \in Types, sentRest \in BOOLEAN
    PROVE  /\ AfterReply(o, code, understood) \in RawStates \cup {"ok", "error"}
           /\ TypeAfterReply(o, code) \in Types
           /\ RestAfterReply(o) \in BOOLEAN
<1>1. AwaitData(code) \in {"waitsocket", "error"} /\ Conclude(o, code) \in {"ok", "error"}
  BY DEF AwaitData, Conclude
<1>2. AfterReply(o, code, understood) \in RawStates \cup {"ok", "error"}
  BY <1>1 DEF AfterReply, RawStates
<1>3. TypeAfterReply(o, code) \in Types
  BY DEF TypeAfterReply, Types, Op
<1>4. RestAfterReply(o) \in BOOLEAN
  BY DEF RestAfterReply
<1> QED
  BY <1>2, <1>3, <1>4

LEMMA ParsingOperationReply ==
    ASSUME Client, conn, UNCHANGED conn, op.kind # "none", NEW code \in {1, 2, 5},
           NEW p \in Nat, NEW understood \in BOOLEAN,
           ParseOperationReply(code, p, understood)
    PROVE  Client' /\ (Ends \/ GoesOn \/ Starts)
<1> DEFINE after == IF op.kind = "raw" THEN (IF Positive(code) THEN "ok" ELSE "error")
                    ELSE AfterReply(op, code, understood)
           type == TypeAfterReply(op, code)
           rest == RestAfterReply(op)
           other == after = "port_pasv" /\ op.state = "port_pasv"
           o == [op EXCEPT !.state = after, !.pasv = (@ # other), !.second = (@ \/ other)]
<1>1. type \in Types /\ rest \in BOOLEAN
  BY ReplyTypes DEF Client
<1>2. done' \subseteq Ids
  <2>1. op.id \in Ids /\ done \subseteq Ids
    BY DEF Client, Op
  <2> QED
    BY <2>1 DEF ParseOperationReply
<1>3. \/ EndOperation(type, rest, p)
      \/ NextRawTransfer(type, rest, p)
      \/ /\ after \in RawStates
         /\ SendNextCommand(o, type, rest, p, 0)
         /\ UNCHANGED <<data, idleTimer, issued>>
  BY DEF ParseOperationReply
<1>4. after \in RawStates => o \in Op /\ o.kind = op.kind /\ o.id = op.id
  <2>1. other \in BOOLEAN
    OBVIOUS
  <2> HIDE DEF other, after
  <2> QED
    BY <2>1 DEF Client, Op
<1> HIDE DEF after, type, rest, other, o
<1>5. CASE EndOperation(type, rest, p)
  BY <1>1, <1>2, <1>5, EndingOperation
<1>6. CASE NextRawTransfer(type, rest, p)
  BY <1>1, <1>2, <1>6, StartingNextTransfer
<1>7. CASE /\ after \in RawStates
           /\ SendNextCommand(o, type, rest, p, 0)
           /\ UNCHANGED <<data, idleTimer, issued>>
  BY <1>1, <1>2, <1>4, <1>7, SendingOn
<1> QED
  BY <1>3, <1>5, <1>6, <1>7

LEMMA SkippingReply ==
    ASSUME Client, conn, UNCHANGED conn, skip > 0, NEW final \in BOOLEAN,
           SkipReply(final, IF final THEN pending - 1 ELSE pending)
    PROVE  Client' /\ GoesOn
<1> DEFINE p == IF final THEN pending - 1 ELSE pending
           k == SkipsLeft(final)
<1>1. /\ pending \in Nat /\ skip \in Nat /\ skip <= pending /\ op \in Op
      /\ op.state = "init" /\ (op.kind = "none" => skip = pending)
  BY DEF Client, CountersAgree
<1>2. p \in Nat /\ k \in Nat /\ k <= p /\ (op.kind = "none" => k = p)
  BY <1>1 DEF SkipsLeft
<1>3. UNCHANGED <<data, issued, done>>
  BY DEF SkipReply
<1>4. /\ IF k = 0 /\ op.kind # "none" /\ p = 0
         THEN SendNextCommand(op, lastType, sentRest, p, k)
         ELSE /\ pending' = p /\ skip' = k
              /\ UNCHANGED <<op, lastType, sentRest, toServer>>
      /\ IF k = 0 /\ op.kind = "none" THEN StartKeepaliveTimer(p) ELSE UNCHANGED idleTimer
  BY DEF SkipReply
<1> HIDE DEF p, k
<1>5. CASE k = 0 /\ op.kind # "none" /\ p = 0
  BY <1>1, <1>2, <1>3, <1>4, <1>5, SendingOn DEF Client
<1>6. CASE ~(k = 0 /\ op.kind # "none" /\ p = 0)
  <2>1. pending' = p /\ skip' = k /\ UNCHANGED <<op, lastType, sentRest, toServer>>
    BY <1>4, <1>6
  <2>2. CASE k = 0 /\ op.kind = "none"
    <3>1. idleTimer' = TRUE
      BY <1>2, <1>4, <2>2 DEF StartKeepaliveTimer
    <3>2. RepliesAreCounted' /\ CountersAgree'
      BY <1>1, <1>2, <2>1, <2>2, <3>1 DEF RepliesAreCounted, CountersAgree
    <3> QED
      BY <1>2, <1>3, <2>1, <3>1, <3>2 DEF Client, GoesOn
  <2>3. CASE ~(k = 0 /\ op.kind = "none")
    <3>1. idleTimer' = idleTimer
      BY <1>4, <2>3
    <3>2. RepliesAreCounted' /\ CountersAgree'
      BY <1>1, <1>2, <2>1, <2>3, <3>1 DEF RepliesAreCounted, CountersAgree
    <3> QED
      BY <1>2, <1>3, <2>1, <3>1, <3>2 DEF Client, GoesOn
  <2> QED
    BY <2>2, <2>3
<1> QED
  BY <1>5, <1>6

LEMMA ParsingResponse ==
    ASSUME ClientInv, ParseResponse
    PROVE  /\ Client' /\ conn /\ UNCHANGED <<conn, queue>> /\ toClient' \in Seq(Replies)
           /\ Ends \/ GoesOn \/ (Starts /\ op.kind # "none")
<1>1. Client /\ toClient \in Seq(Replies)
  BY InvHasClient DEF ClientInv, TypeOK, Replies
<1>2. toClient # <<>> /\ toClient' = Tail(toClient) /\ UNCHANGED <<conn, queue>>
  BY DEF ParseResponse
<1>3. conn
  BY <1>1, <1>2 DEF Client, CountersAgree
<1>4. Head(toClient) \in Replies /\ toClient' \in Seq(Replies)
  BY <1>1, <1>2
<1> DEFINE code == Head(toClient).code
           final == code # 1
           p == IF final THEN pending - 1 ELSE pending
<1>5. code \in {1, 2, 5} /\ final \in BOOLEAN
  BY <1>4 DEF Replies
<1>6. pending \in Nat /\ (~final \/ pending > 0 => p \in Nat)
  BY <1>1 DEF Client
<1>7. CASE UNCHANGED <<op, pending, skip, lastType, sentRest, idleTimer, data, toServer,
                       issued, done>>
  BY <1>1, <1>2, <1>3, <1>4, <1>7 DEF Client, RepliesAreCounted, CountersAgree, GoesOn
<1>8. CASE (~final \/ pending > 0) /\ skip > 0 /\ SkipReply(final, p)
  BY <1>1, <1>2, <1>3, <1>4, <1>5, <1>8, SkippingReply
<1>9. CASE /\ ~final \/ pending > 0
           /\ skip = 0 /\ op.kind = "none"
           /\ pending' = p
           /\ UNCHANGED <<op, skip, lastType, sentRest, idleTimer, data, toServer, issued,
                          done>>
  <2>1. pending = 0 /\ p = pending
    BY <1>1, <1>9 DEF Client, CountersAgree
  <2> QED
    BY <1>1, <1>2, <1>3, <1>4, <1>9, <2>1 DEF Client, RepliesAreCounted, CountersAgree, GoesOn
<1>10. CASE /\ ~final \/ pending > 0
            /\ skip = 0 /\ op.kind # "none"
            /\ \E understood \in BOOLEAN : ParseOperationReply(code, p, understood)
  BY <1>1, <1>2, <1>3, <1>4, <1>5, <1>6, <1>10, ParsingOperationReply
<1> QED
  BY <1>7, <1>8, <1>9, <1>10 DEF ParseResponse

LEMMA CommandEventClient ==
    ASSUME ClientInv, OnCommandEvent
    PROVE  Client' /\ Starts /\ (~conn' => data' = NoData)
<1>1. /\ queue # <<>> /\ Head(queue).type = "command"
      /\ issued' = issued + 1 /\ UNCHANGED <<conn, idleTimer, toClient, done>>
  BY DEF OnCommandEvent
<1>2. op.kind = "none" /\ issued < MaxOps
  <2>1. 1 \in DOMAIN queue /\ queue[1] = Head(queue)
    BY <1>1 DEF ClientInv, TypeOK
  <2> QED
    BY <1>1, <2>1 DEF ClientInv, OneCommand
<1>3. Client
  BY InvHasClient
<1>4. issued + 1 \in Ids /\ [id |-> issued + 1, reason |-> "none"] \in Sockets
  BY <1>2, <1>3, NewSocketType DEF Client
<1>5. PICK kind \in {"raw", "transfer"}, binary \in 0 .. 1, offset \in 0 .. 1,
           pasv \in Modes, more \in BOOLEAN :
           LET o == NewOp(kind, issued + 1, binary, offset, pasv, more)
           IN  IF conn
               THEN /\ SendNextCommand(o, lastType, sentRest, pending, skip)
                    /\ data' = IF kind = "transfer"
                               THEN [id |-> issued + 1, reason |-> "none"] ELSE NoData
               ELSE /\ op' = o
                    /\ UNCHANGED <<pending, skip, lastType, sentRest, toServer, data>>
  BY DEF OnCommandEvent
<1> DEFINE o == NewOp(kind, issued + 1, binary, offset, pasv, more)
<1>6. o \in Op /\ o.kind = kind /\ o.id = issued + 1 /\ o.state = "init"
  <2>1. pasv \in BOOLEAN
    BY FtpBounds
  <2> QED
    BY <1>4, <2>1, NewOpType
<1>7. skip = pending
  BY <1>2, <1>3 DEF Client, CountersAgree
<1> HIDE DEF o
<1>8. CASE conn
  <2>1. /\ SendNextCommand(o, lastType, sentRest, pending, skip)
        /\ data' = IF kind = "transfer" THEN [id |-> issued + 1, reason |-> "none"] ELSE NoData
    BY <1>5, <1>8 DEF o
  <2>2. /\ op' \in Op /\ op'.kind = kind /\ op'.id = issued + 1
        /\ lastType' \in Types /\ sentRest' \in BOOLEAN /\ toServer' \in Seq(Requests)
        /\ skip' = skip /\ pending' \in Nat /\ pending' >= pending /\ (skip > 0 => op' = o)
    BY <1>3, <1>6, <2>1, Sending DEF Client
  <2>3. data' \in Sockets
    BY <1>4, <2>1, NoOpType
  <2>4. RepliesAreCounted'
    BY <1>3, <1>7, <2>2 DEF RepliesAreCounted, Client
  <2>5. CountersAgree'
    BY <1>1, <1>3, <1>6, <1>7, <1>8, <2>2 DEF CountersAgree, Client
  <2> QED
    BY <1>1, <1>3, <1>4, <1>8, <2>1, <2>2, <2>3, <2>4, <2>5 DEF Client, Starts
<1>9. CASE ~conn
  <2>1. op' = o /\ UNCHANGED <<pending, skip, lastType, sentRest, toServer, data>>
    BY <1>5, <1>9 DEF o
  <2>2. data' = NoData
    BY <1>3, <1>9, <2>1 DEF Client, CountersAgree
  <2>3. RepliesAreCounted' /\ CountersAgree'
    BY <1>1, <1>3, <1>6, <1>7, <1>9, <2>1 DEF RepliesAreCounted, CountersAgree, Client
  <2> QED
    BY <1>1, <1>3, <1>4, <1>6, <2>1, <2>2, <2>3 DEF Client, Starts
<1> QED
  BY <1>1, <1>8, <1>9

LEMMA LoggedInClient ==
    ASSUME ClientInv, LoggedIn
    PROVE  /\ Client' /\ conn' /\ op'.kind = op.kind /\ op'.id = op.id /\ op.kind # "none"
           /\ data' = NoData \/ (op.kind = "transfer" /\ data' = [id |-> op.id, reason |-> "none"])
<1>1. /\ ~conn /\ op.kind # "none" /\ conn' = TRUE
      /\ SendNextCommand(op, Unknown, FALSE, 0, 0)
      /\ data' = IF op.kind = "transfer" THEN [id |-> op.id, reason |-> "none"] ELSE NoData
      /\ idleTimer' = TRUE /\ UNCHANGED <<toClient, issued, done>>
  BY DEF LoggedIn, counts
<1>2. Client
  BY InvHasClient
<1>3. /\ op' \in Op /\ op'.kind = op.kind /\ op'.id = op.id
      /\ lastType' \in Types /\ sentRest' \in BOOLEAN /\ toServer' \in Seq(Requests)
      /\ skip' = 0 /\ pending' \in Nat
  <2>1. Unknown \in Types
    BY DEF Types
  <2> QED
    BY <1>1, <1>2, <2>1, Sending DEF Client
<1>4. data' \in Sockets
  <2>1. op.id \in Ids
    BY <1>2 DEF Client, Op
  <2> QED
    BY <1>1, <2>1, NoOpType DEF Sockets
<1>5. RepliesAreCounted' /\ CountersAgree'
  BY <1>1, <1>3 DEF RepliesAreCounted, CountersAgree
<1> QED
  BY <1>1, <1>2, <1>3, <1>4, <1>5 DEF Client

LEMMA ClosingClient ==
    ASSUME Client, Close, done' = done
    PROVE  Client' /\ Ends /\ ~conn' /\ toClient' = <<>>
<1>1. /\ conn' = FALSE /\ op' = NoOp /\ data' = NoData /\ pending' = 0 /\ skip' = 0
      /\ idleTimer' = FALSE /\ toServer' = <<>> /\ toClient' = <<>>
      /\ UNCHANGED <<lastType, sentRest, issued>>
  BY DEF Close
<1>2. RepliesAreCounted' /\ CountersAgree'
  BY <1>1, NoOpType DEF RepliesAreCounted, CountersAgree
<1>3. conn' \in BOOLEAN /\ idleTimer' \in BOOLEAN /\ ~conn'
  BY <1>1
<1>4. pending' \in Nat /\ skip' \in Nat /\ toServer' \in Seq(Requests)
  BY <1>1
<1> QED
  BY <1>1, <1>2, <1>3, <1>4, NoOpType DEF Client, Ends

LEMMA IdleTimerClient ==
    ASSUME ClientInv, OnIdleTimer
    PROVE  Client' /\ GoesOn /\ UNCHANGED <<conn, op>>
<1> Client
  BY InvHasClient
<1>1. /\ idleTimer' = FALSE
      /\ UNCHANGED <<conn, op, lastType, sentRest, data, queue, toClient, issued, done>>
  BY DEF OnIdleTimer
<1>2. CASE op.kind = "none" /\ pending = 0 /\ skip = 0
  <2>1. pending' = 1 /\ skip' = 1
    BY <1>2 DEF OnIdleTimer
  <2>2. toServer' \in Seq(Requests)
    <3>1. PICK type \in BOOLEAN :
               toServer' = Append(toServer, Request(None, IF type THEN "type" ELSE "noop",
                                                    IF lastType # 0 THEN 1 ELSE 0, 0))
      BY <1>2 DEF OnIdleTimer
    <3>2. Request(None, IF type THEN "type" ELSE "noop", IF lastType # 0 THEN 1 ELSE 0, 0)
            \in Requests
      BY IdsAreNaturals DEF Request, Requests, Verbs
    <3> QED
      BY <3>1, <3>2 DEF Client
  <2>3. conn
    <3>1. idleTimer
      BY DEF OnIdleTimer
    <3>2. ~conn => ~idleTimer
      BY DEF Client, CountersAgree
    <3> QED
      BY <3>1, <3>2
  <2>4. op.state = "init"
    BY <1>2, NoOpType DEF ClientInv, IdsAreFresh
  <2>5. RepliesAreCounted' /\ CountersAgree'
    BY <1>1, <1>2, <2>1, <2>3, <2>4 DEF RepliesAreCounted, CountersAgree
  <2> QED
    BY <1>1, <2>1, <2>2, <2>5 DEF Client, GoesOn
<1>3. CASE ~(op.kind = "none" /\ pending = 0 /\ skip = 0)
  <2>1. UNCHANGED <<pending, skip, toServer>>
    BY <1>3 DEF OnIdleTimer
  <2>2. RepliesAreCounted' /\ CountersAgree'
    BY <1>1, <1>3, <2>1 DEF RepliesAreCounted, CountersAgree, Client
  <2> QED
    BY <1>1, <2>1, <2>2 DEF Client, GoesOn
<1> QED
  BY <1>1, <1>2, <1>3

LEMMA EndedOpType ==
    ASSUME op \in Op, data.reason \in Reasons
    PROVE  /\ EndedOp \in Op /\ EndedOp.kind = op.kind /\ EndedOp.id = op.id
           /\ EndedOp.binary = op.binary /\ EndedOp.offset = op.offset
           /\ EndedOp.reason = IF op.reason = "successful" THEN data.reason ELSE op.reason
           /\ EndedOp.state = IF op.state = "transfer" THEN "waittransferpre"
                              ELSE IF op.state = "waitfinish" THEN "waittransfer" ELSE op.state
<1> DEFINE r == IF op.reason = "successful" THEN data.reason ELSE op.reason
           s == IF op.state = "transfer" THEN "waittransferpre"
                ELSE IF op.state = "waitfinish" THEN "waittransfer" ELSE op.state
<1>1. r \in Reasons /\ s \in RawStates
  BY DEF Op, RawStates
<1>2. EndedOp = [op EXCEPT !.reason = r, !.state = s]
  BY DEF EndedOp, Op
<1> HIDE DEF r, s
<1>3. /\ EndedOp \in Op /\ EndedOp.kind = op.kind /\ EndedOp.id = op.id
      /\ EndedOp.binary = op.binary /\ EndedOp.offset = op.offset
      /\ EndedOp.reason = r /\ EndedOp.state = s
  BY <1>1, <1>2 DEF Op
<1> QED
  BY <1>3 DEF r, s

(* TransferEnd acts only on the end of the current data connection, and    *)
(* then only while there is a connection.                                  *)
LEMMA TransferEndClient ==
    ASSUME ClientInv, TransferEnd
    PROVE  /\ Client' /\ toClient' \in Seq(Replies) /\ (conn' = conn \/ (~conn' /\ op' = NoOp))
           /\ Ends \/ GoesOn \/ (Starts /\ op.kind # "none")
<1>1. Client /\ toClient \in Seq(Replies)
  BY InvHasClient DEF ClientInv, TypeOK, Replies
<1>2. EndExpected => conn /\ op.kind = "transfer" /\ data.reason \in Reasons
  <2>1. EndExpected => op.kind = "transfer" /\ data.reason \in Reasons
    BY <1>1 DEF EndExpected, Client, Sockets
  <2>2. ~conn => data = NoData
    BY <1>1 DEF Client, CountersAgree
  <2>3. EndExpected => data # NoData
    BY NoOpType DEF EndExpected
  <2> QED
    BY <2>1, <2>2, <2>3
<1>3. CASE ~EndExpected /\ UNCHANGED <<client, toServer, toClient, issued, done>>
  BY <1>1, <1>3 DEF Client, client, RepliesAreCounted, CountersAgree, GoesOn
<1>4. CASE EndExpected /\ Close /\ UNCHANGED done
  <2>1. Client' /\ Ends /\ ~conn' /\ toClient' = <<>> /\ op' = NoOp
    BY <1>1, <1>4, ClosingClient DEF Close
  <2> QED
    BY <2>1
<1>5. CASE /\ EndExpected /\ op' = EndedOp
           /\ UNCHANGED <<conn, pending, skip, lastType, sentRest, idleTimer, data, toServer,
                          toClient, issued, done>>
  <2>1. op' \in Op /\ op'.kind = op.kind /\ op'.id = op.id /\ op.kind # "none"
        /\ (op'.state = "init" <=> op.state = "init")
    BY <1>1, <1>2, <1>5, EndedOpType DEF Client
  <2>2. conn' /\ UNCHANGED <<pending, skip>>
    BY <1>2, <1>5
  <2>3. RepliesAreCounted' /\ CountersAgree'
    BY <1>1, <2>1, <2>2 DEF Client, RepliesAreCounted, CountersAgree
  <2> QED
    BY <1>1, <1>5, <2>1, <2>3 DEF Client, GoesOn
<1>6. CASE /\ EndExpected
           /\ done' = IF data.reason = "successful" THEN done \cup {op.id} ELSE done
           /\ \/ EndOperation(lastType, sentRest, pending)
              \/ NextRawTransfer(lastType, sentRest, pending)
           /\ UNCHANGED <<conn, toClient>>
  <2>1. /\ done' \subseteq Ids /\ lastType \in Types /\ sentRest \in BOOLEAN /\ pending \in Nat
        /\ op.kind # "none"
    BY <1>1, <1>2, <1>6 DEF Client, Op
  <2>2. conn /\ UNCHANGED <<conn, toClient>>
    BY <1>2, <1>6
  <2>3. CASE EndOperation(lastType, sentRest, pending)
    BY <1>1, <2>1, <2>2, <2>3, EndingOperation
  <2>4. CASE NextRawTransfer(lastType, sentRest, pending)
    BY <1>1, <2>1, <2>2, <2>4, StartingNextTransfer
  <2> QED
    BY <1>6, <2>3, <2>4
<1> QED
  BY <1>3, <1>4, <1>5, <1>6 DEF TransferEnd

-----------------------------------------------------------------------------
(* The queue.                                                              *)

(* Its first d events have been taken.                                     *)
Shifted(d) == \A i \in DOMAIN queue' : i + d \in DOMAIN queue /\ queue'[i] = queue[i + d]

LEMMA TakingEvent ==
    ASSUME queue \in Seq(Events), queue # <<>>, queue' = Tail(queue)
    PROVE  queue' \in Seq(Events) /\ Shifted(1) /\ 1 \in DOMAIN queue /\ queue[1] = Head(queue)
  BY DEF Shifted

LEMMA KeepingEvents ==
    ASSUME queue \in Seq(Events), queue' = queue
    PROVE  queue' \in Seq(Events) /\ Shifted(0)
  BY DEF Shifted

LEMMA AppendingEvent ==
    ASSUME NEW q \in Seq(Events), NEW e \in Events
    PROVE  /\ Append(q, e) \in Seq(Events)
           /\ Len(q) + 1 \in DOMAIN Append(q, e) /\ Append(q, e)[Len(q) + 1] = e
           /\ \A i \in DOMAIN Append(q, e) :
                 \/ i \in DOMAIN q /\ Append(q, e)[i] = q[i]
                 \/ i = Len(q) + 1
           /\ \A i \in DOMAIN q : i \in Nat /\ i < Len(q) + 1
  OBVIOUS

(* Taking events and ending, continuing or starting operations keeps the   *)
(* queue in order.                                                         *)
LEMMA QueueKept ==
    ASSUME ClientInv, op' \in Op, queue' \in Seq(Events), NEW d \in 0 .. 1, Shifted(d),
           \/ Ends
           \/ GoesOn
           \/ Starts /\ \A i \in DOMAIN queue' : queue'[i].type # "command",
           conn' = conn \/ (~conn' /\ op' = NoOp),
           complete \subseteq complete'
    PROVE  (OneCommand /\ IdsAreFresh /\ DataIsOfOp /\ EndsInOrder)'
<1>1. queue \in Seq(Events) /\ issued \in Nat /\ op \in Op /\ data \in Sockets
  BY IdsAreNaturals DEF ClientInv, TypeOK, Events, Sockets
<1>2. /\ \A i \in DOMAIN queue : i \in Nat /\ queue[i] \in Events /\ queue[i].id \in Nat
      /\ \A i \in DOMAIN queue' : i \in Nat /\ i + d \in DOMAIN queue /\ queue'[i] = queue[i + d]
  <2>1. \A i \in DOMAIN queue : i \in Nat /\ queue[i] \in Events
    BY <1>1
  <2>2. \A e \in Events : e.id \in Nat
    BY IdsAreNaturals DEF Events
  <2>3. \A i \in DOMAIN queue' : i \in Nat
    OBVIOUS
  <2> QED
    BY <2>1, <2>2, <2>3 DEF Shifted
<1>3. op.id \in Nat /\ data.id \in Nat
  BY <1>1, IdsAreNaturals DEF Op, Sockets
<1>4. OneCommand /\ IdsAreFresh /\ DataIsOfOp /\ EndsInOrder
  BY DEF ClientInv
<1>5. CASE Ends
  <2>1. OneCommand'
    BY <1>2, <1>4, <1>5, NoOpType DEF OneCommand, Ends
  <2>2. IdsAreFresh'
    BY <1>1, <1>2, <1>4, <1>5, NoOpType DEF IdsAreFresh, Ends, None
  <2>3. DataIsOfOp' /\ EndsInOrder'
    BY <1>5, NoOpType DEF DataIsOfOp, EndsInOrder, Ends
  <2> QED
    BY <2>1, <2>2, <2>3
<1>6. CASE GoesOn
  <2>1. op'.kind = op.kind /\ op'.id = op.id /\ data' = data /\ issued' = issued
    BY <1>6 DEF GoesOn
  <2>2. OneCommand'
    BY <1>2, <1>4, <2>1 DEF OneCommand
  <2>3. IdsAreFresh'
    <3>1. op'.kind = "none" => op' = NoOp
      BY <1>4, <1>6 DEF GoesOn, IdsAreFresh
    <3>2. op'.kind # "none" => conn' = conn
      BY NoOpType
    <3> QED
      BY <1>2, <1>4, <2>1, <3>1, <3>2 DEF IdsAreFresh
  <2>4. DataIsOfOp'
    BY <1>4, <2>1 DEF DataIsOfOp
  <2>5. EndsInOrder'
    <3> SUFFICES ASSUME data.id # None
                 PROVE  EndsInOrder'
      BY <2>1 DEF EndsInOrder
    <3>1. ASSUME NEW i \in DOMAIN queue', queue'[i].type = "data", queue'[i].id = data.id
          PROVE  /\ data.reason = "none"
                 /\ \A j \in DOMAIN queue' :
                       queue'[j].type = "data" /\ queue'[j].id = data.id => i = j
                 /\ \A j \in DOMAIN queue' : queue'[j].type = "end" => j < i
      BY <1>2, <1>4, <3>1 DEF EndsInOrder
    <3>2. data.reason # "none" =>
              \A i \in DOMAIN queue' : queue'[i].type = "end" => queue'[i].id = data.id
      BY <1>2, <1>4 DEF EndsInOrder
    <3> QED
      BY <2>1, <3>1, <3>2 DEF EndsInOrder
  <2> QED
    BY <2>2, <2>3, <2>4, <2>5
<1>7. CASE Starts /\ \A i \in DOMAIN queue' : queue'[i].type # "command"
  <2>1. /\ issued' = issued + 1 /\ op'.kind # "none" /\ op'.id = issued + 1
        /\ data' = NoData
           \/ (op'.kind = "transfer" /\ data' = [id |-> issued + 1, reason |-> "none"])
    BY <1>7 DEF Starts
  <2>2. \A i \in DOMAIN queue' :
           /\ queue'[i].id \in Nat /\ queue'[i].id <= issued
           /\ queue'[i].type # "command" => queue'[i].id # None
    BY <1>2, <1>4 DEF IdsAreFresh
  <2>3. OneCommand'
    BY <1>7 DEF OneCommand
  <2>4. IdsAreFresh'
    BY <1>1, <2>1, <2>2, NoOpType DEF IdsAreFresh, None
  <2>5. DataIsOfOp'
    BY <2>1, NoOpType, <1>1 DEF DataIsOfOp, None
  <2>6. EndsInOrder'
    BY <1>1, <2>1, <2>2, NoOpType DEF EndsInOrder
  <2> QED
    BY <2>3, <2>4, <2>5, <2>6
<1> QED
  BY <1>5, <1>6, <1>7

-----------------------------------------------------------------------------
(* Every action keeps ClientInv.                                           *)
Sessions == [type : 0 .. 1, rest : 0 .. 1, manual : BOOLEAN, busy : Ids]

World ==
    /\ queue \in Seq(Events) /\ toClient \in Seq(Replies) /\ server \in Sessions
    /\ keepalives \in 0 .. MaxKeepalives /\ stray \in 0 .. MaxStray
    /\ confirmed \subseteq Ids /\ complete \subseteq Ids

LEMMA TypeOKParts == TypeOK /\ RepliesAreCounted /\ CountersAgree <=> Client /\ World
  BY DEF TypeOK, Client, World, Types, Sockets, Requests, Replies, Sessions, Events

LEMMA TypeOKPartsNext ==
    (TypeOK /\ RepliesAreCounted /\ CountersAgree)' <=> Client' /\ World'
  BY DEF TypeOK, Client, World, Types, Sockets, Requests, Replies, Sessions, Events

LEMMA InvTogether ==
    ASSUME Client', World', (OneCommand /\ IdsAreFresh /\ DataIsOfOp /\ EndsInOrder)'
    PROVE  ClientInv'
  BY TypeOKPartsNext DEF ClientInv

LEMMA InvHasWorld == ClientInv => World
  BY TypeOKParts DEF ClientInv

LEMMA ParseKeepsInv ==
    ASSUME ClientInv, ParseResponse
    PROVE  ClientInv'
<1>1. /\ Client' /\ UNCHANGED <<conn, queue>> /\ toClient' \in Seq(Replies)
      /\ Ends \/ GoesOn \/ (Starts /\ op.kind # "none")
  BY ParsingResponse
<1>2. UNCHANGED <<server, keepalives, stray, confirmed, complete>>
  BY DEF ParseResponse
<1>3. World'
  BY <1>1, <1>2, InvHasWorld DEF World
<1>4. Shifted(0) /\ queue' \in Seq(Events)
  BY <1>1, InvHasWorld, KeepingEvents DEF World
<1>5. op.kind # "none" => \A i \in DOMAIN queue' : queue'[i].type # "command"
  BY <1>1 DEF ClientInv, OneCommand
<1>6. op' \in Op
  BY <1>1 DEF Client
<1>7. (OneCommand /\ IdsAreFresh /\ DataIsOfOp /\ EndsInOrder)'
  BY <1>1, <1>2, <1>4, <1>5, <1>6, QueueKept
<1> QED
  BY <1>1, <1>3, <1>7, InvTogether

LEMMA TransferEndKeepsInv ==
    ASSUME ClientInv, TransferEnd
    PROVE  ClientInv'
<1>1. /\ Client' /\ toClient' \in Seq(Replies) /\ (conn' = conn \/ (~conn' /\ op' = NoOp))
      /\ Ends \/ GoesOn \/ (Starts /\ op.kind # "none")
  BY TransferEndClient
<1>2. /\ queue # <<>> /\ queue' = Tail(queue)
      /\ UNCHANGED <<server, keepalives, stray, confirmed, complete>>
  BY DEF TransferEnd
<1>3. Shifted(1) /\ queue' \in Seq(Events)
  BY <1>2, InvHasWorld, TakingEvent DEF World
<1>4. World'
  BY <1>1, <1>2, <1>3, InvHasWorld DEF World
<1>5. op.kind # "none" => \A i \in DOMAIN queue' : queue'[i].type # "command"
  BY <1>3 DEF ClientInv, OneCommand, Shifted
<1>6. op' \in Op
  BY <1>1 DEF Client
<1>7. (OneCommand /\ IdsAreFresh /\ DataIsOfOp /\ EndsInOrder)'
  BY <1>1, <1>2, <1>3, <1>5, <1>6, QueueKept
<1> QED
  BY <1>1, <1>4, <1>7, InvTogether

LEMMA CommandEventKeepsInv ==
    ASSUME ClientInv, OnCommandEvent
    PROVE  ClientInv'
<1>1. Client' /\ Starts
  BY CommandEventClient
<1>2. /\ queue # <<>> /\ Head(queue).type = "command" /\ queue' = Tail(queue)
      /\ UNCHANGED <<conn, toClient, server, keepalives, stray, confirmed, complete>>
  BY DEF OnCommandEvent
<1>3. Shifted(1) /\ queue' \in Seq(Events) /\ 1 \in DOMAIN queue /\ queue[1] = Head(queue)
  BY <1>2, InvHasWorld, TakingEvent DEF World
<1>4. World'
  BY <1>2, <1>3, InvHasWorld DEF World
<1>5. \A i \in DOMAIN queue' : queue'[i].type # "command"
  <2>1. \A i \in DOMAIN queue' : i \in Nat \ {0}
    BY <1>3
  <2>2. \A j \in DOMAIN queue : queue[j].type = "command" => 1 = j
    BY <1>2, <1>3 DEF ClientInv, OneCommand
  <2> QED
    BY <2>1, <2>2, <1>3 DEF Shifted
<1>6. op' \in Op
  BY <1>1 DEF Client
<1>7. (OneCommand /\ IdsAreFresh /\ DataIsOfOp /\ EndsInOrder)'
  BY <1>1, <1>2, <1>3, <1>5, <1>6, QueueKept
<1> QED
  BY <1>1, <1>4, <1>7, InvTogether

LEMMA LoggedInKeepsInv ==
    ASSUME ClientInv, LoggedIn
    PROVE  ClientInv'
<1>1. /\ Client' /\ conn' /\ op'.kind = op.kind /\ op'.id = op.id /\ op.kind # "none"
      /\ data' = NoData \/ (op.kind = "transfer" /\ data' = [id |-> op.id, reason |-> "none"])
  BY LoggedInClient
<1>2. ~conn /\ server' = NewSession
      /\ UNCHANGED <<queue, toClient, keepalives, stray, confirmed, complete, issued>>
  BY DEF LoggedIn, counts
<1>3. NewSession \in Sessions
  BY IdsAreNaturals DEF NewSession, Sessions
<1>4. World'
  BY <1>2, <1>3, InvHasWorld DEF World
<1>5. OneCommand'
  BY <1>1, <1>2 DEF ClientInv, OneCommand
<1>6. IdsAreFresh'
  <2>1. op.id <= issued /\ op.id # None /\ data'.id \in {None, op.id} /\ issued \in Nat
    BY <1>1, NoOpType, IdsAreNaturals DEF ClientInv, IdsAreFresh, TypeOK
  <2>2. \A i \in DOMAIN queue :
           queue[i].id <= issued /\ (queue[i].type # "command" => queue[i].id # None)
    BY DEF ClientInv, IdsAreFresh
  <2> QED
    BY <1>1, <1>2, <2>1, <2>2 DEF IdsAreFresh, None
<1>7. DataIsOfOp'
  BY <1>1, NoOpType DEF ClientInv, IdsAreFresh, DataIsOfOp
<1>8. EndsInOrder'
  <2>1. \A i \in DOMAIN queue' : queue'[i].id # op.id
    BY <1>1, <1>2 DEF ClientInv, IdsAreFresh
  <2> QED
    BY <1>1, <2>1, NoOpType DEF EndsInOrder
<1> QED
  BY <1>1, <1>4, <1>5, <1>6, <1>7, <1>8, InvTogether

LEMMA ClosedKeepsInv ==
    ASSUME ClientInv, Closed
    PROVE  ClientInv'
<1>1. Close /\ UNCHANGED <<queue, server, keepalives, stray, confirmed, complete, done>>
  BY DEF Closed
<1>2. Client' /\ Ends /\ ~conn' /\ toClient' = <<>>
  BY <1>1, InvHasClient, ClosingClient
<1>3. Shifted(0) /\ queue' \in Seq(Events)
  BY <1>1, InvHasWorld, KeepingEvents DEF World
<1>4. World'
  BY <1>1, <1>2, <1>3, InvHasWorld DEF World
<1>5. op' \in Op /\ op' = NoOp
  BY <1>2 DEF Client, Ends
<1>6. (OneCommand /\ IdsAreFresh /\ DataIsOfOp /\ EndsInOrder)'
  BY <1>1, <1>2, <1>3, <1>5, QueueKept
<1> QED
  BY <1>2, <1>4, <1>6, InvTogether

LEMMA CancelKeepsInv ==
    ASSUME ClientInv, Cancel
    PROVE  ClientInv'
<1>1. /\ conn /\ EndOperation(lastType, sentRest, pending)
      /\ UNCHANGED <<conn, queue, toClient, server, keepalives, stray, confirmed, complete, done>>
  BY DEF Cancel
<1>2. Client' /\ Ends
  BY <1>1, InvHasClient, EndingOperation DEF Client
<1>3. Shifted(0) /\ queue' \in Seq(Events)
  BY <1>1, InvHasWorld, KeepingEvents DEF World
<1>4. World'
  BY <1>1, InvHasWorld DEF World
<1>5. op' \in Op
  BY <1>2 DEF Client
<1>6. (OneCommand /\ IdsAreFresh /\ DataIsOfOp /\ EndsInOrder)'
  BY <1>1, <1>2, <1>3, <1>5, QueueKept
<1> QED
  BY <1>2, <1>4, <1>6, InvTogether

LEMMA IdleTimerKeepsInv ==
    ASSUME ClientInv, OnIdleTimer
    PROVE  ClientInv'
<1>1. Client' /\ GoesOn /\ UNCHANGED <<conn, op>>
  BY IdleTimerClient
<1>2. UNCHANGED <<queue, toClient, server, stray, confirmed, complete>>
  BY DEF OnIdleTimer
<1>3. keepalives' \in 0 .. MaxKeepalives
  BY InvHasWorld, FtpBounds DEF World, OnIdleTimer
<1>4. Shifted(0) /\ queue' \in Seq(Events)
  BY <1>2, InvHasWorld, KeepingEvents DEF World
<1>5. World'
  BY <1>2, <1>3, InvHasWorld DEF World
<1>6. op' \in Op
  BY <1>1 DEF Client
<1>7. (OneCommand /\ IdsAreFresh /\ DataIsOfOp /\ EndsInOrder)'
  BY <1>1, <1>2, <1>4, <1>6, QueueKept
<1> QED
  BY <1>1, <1>5, <1>7, InvTogether

LEMMA ClientUnchanged ==
    ASSUME Client, UNCHANGED <<client, toServer, toClient, issued, done>>
    PROVE  Client'
  BY DEF Client, client, RepliesAreCounted, CountersAgree

LEMMA ExecuteKeepsInv ==
    ASSUME ClientInv, Execute
    PROVE  ClientInv'
<1> DEFINE e == [type |-> "command", id |-> None, reason |-> "none"]
<1>1. /\ op.kind = "none" /\ ~CommandQueued /\ issued < MaxOps /\ queue' = Append(queue, e)
      /\ UNCHANGED <<client, toServer, toClient, server, counts, confirmed, complete, done>>
  BY DEF Execute
<1>2. e \in Events /\ e.type = "command" /\ e.id = None
  BY IdsAreNaturals DEF Events
<1>3. queue \in Seq(Events)
  BY InvHasWorld DEF World
<1> HIDE DEF e
<1>4. /\ queue' \in Seq(Events)
      /\ \A i \in DOMAIN queue' : (i \in DOMAIN queue /\ queue'[i] = queue[i])
                                  \/ (i = Len(queue) + 1 /\ queue'[i] = e)
      /\ \A i \in DOMAIN queue : queue[i].type # "command"
  BY <1>1, <1>2, <1>3, AppendingEvent DEF CommandQueued
<1>5. Client' /\ World'
  BY <1>1, <1>4, ClientUnchanged, InvHasClient, InvHasWorld DEF World, counts
<1>6. UNCHANGED <<op, data, conn, issued, complete>>
  BY <1>1 DEF client, counts
<1>7. OneCommand'
  BY <1>1, <1>2, <1>4, <1>6 DEF OneCommand
<1>8. IdsAreFresh'
  BY <1>1, <1>2, <1>4, <1>6, IdsAreNaturals DEF IdsAreFresh, None, ClientInv, TypeOK
<1>9. DataIsOfOp' /\ EndsInOrder'
  <2>1. data'.id = None
    BY <1>1, <1>6 DEF ClientInv, DataIsOfOp
  <2> QED
    BY <1>6, <2>1 DEF ClientInv, DataIsOfOp, EndsInOrder
<1> QED
  BY <1>5, <1>7, <1>8, <1>9, InvTogether

LEMMA DataEventKeepsInv ==
    ASSUME ClientInv, NEW reason \in Reasons, DataEvent(reason)
    PROVE  ClientInv'
<1> DEFINE e == [type |-> "data", id |-> data.id, reason |-> reason]
<1>1. /\ data.id # None /\ data.reason = "none" /\ queue' = Append(queue, e)
      /\ \A i \in DOMAIN queue : ~(queue[i].type = "data" /\ queue[i].id = data.id)
      /\ UNCHANGED <<client, toServer, toClient, server, counts, confirmed, complete, done>>
  BY DEF DataEvent
<1>2. queue \in Seq(Events) /\ data \in Sockets /\ Client
  BY InvHasWorld, InvHasClient DEF World, Client
<1>3. e \in Events /\ e.type = "data" /\ e.id = data.id
  BY <1>2 DEF Events, Sockets
<1> HIDE DEF e
<1>4. /\ queue' \in Seq(Events)
      /\ \A i \in DOMAIN queue' : (i \in DOMAIN queue /\ queue'[i] = queue[i])
                                  \/ (i = Len(queue) + 1 /\ queue'[i] = e)
      /\ \A i \in DOMAIN queue : i \in Nat /\ i < Len(queue) + 1
  BY <1>1, <1>2, <1>3, AppendingEvent
<1>5. Client' /\ World'
  BY <1>1, <1>4, ClientUnchanged, InvHasClient, InvHasWorld DEF World, counts
<1>6. UNCHANGED <<op, data, conn, issued, complete>>
  BY <1>1 DEF client, counts
<1>7. conn
  <2>1. ~conn => data = NoData
    BY <1>2 DEF Client, CountersAgree
  <2> QED
    BY <1>1, <2>1, NoOpType
<1>8. OneCommand'
  BY <1>3, <1>4, <1>6 DEF ClientInv, OneCommand
<1>9. IdsAreFresh'
  <2>1. IdsAreFresh /\ conn'
    BY <1>6, <1>7 DEF ClientInv
  <2> QED
    BY <1>1, <1>3, <1>4, <1>6, <2>1 DEF IdsAreFresh
<1>10. DataIsOfOp'
  BY <1>6 DEF ClientInv, DataIsOfOp
<1>11. EndsInOrder'
  BY <1>1, <1>3, <1>4, <1>6 DEF EndsInOrder
<1> QED
  BY <1>5, <1>8, <1>9, <1>10, <1>11, InvTogether

LEMMA OnDataEventKeepsInv ==
    ASSUME ClientInv, OnDataEvent
    PROVE  ClientInv'
<1>1. /\ queue # <<>> /\ Head(queue).type = "data"
      /\ UNCHANGED <<conn, op, pending, skip, lastType, sentRest, idleTimer, toServer, toClient,
                     server, counts, confirmed, done>>
  BY DEF OnDataEvent
<1>2. queue \in Seq(Events) /\ data \in Sockets /\ Client /\ World
  BY InvHasWorld, InvHasClient DEF World, Client
<1>3. CASE data.id = Head(queue).id
  <2> DEFINE e == [type |-> "end", id |-> data.id, reason |-> "none"]
  <2>1. /\ data' = [data EXCEPT !.reason = Head(queue).reason]
        /\ queue' = Append(Tail(queue), e)
        /\ complete' = IF Head(queue).reason = "successful"
                       THEN complete \cup {data.id} ELSE complete
    BY <1>3 DEF OnDataEvent
  <2>2. 1 \in DOMAIN queue /\ queue[1] = Head(queue) /\ Head(queue) \in Events
        /\ Tail(queue) \in Seq(Events)
    BY <1>1, <1>2
  <2>3. /\ data' \in Sockets /\ data'.id = data.id /\ data'.reason = Head(queue).reason
        /\ e \in Events /\ e.type = "end" /\ e.id = data.id
    BY <1>2, <2>1, <2>2 DEF Sockets, Events
  <2> HIDE DEF e
  <2>4. /\ queue' \in Seq(Events)
        /\ \A i \in DOMAIN queue' :
              \/ i \in Nat /\ i >= 1 /\ i + 1 \in DOMAIN queue /\ queue'[i] = queue[i + 1]
              \/ queue'[i] = e
    BY <1>1, <1>2, <2>1, <2>2, <2>3, AppendingEvent
  <2>5. complete' \subseteq Ids
    BY <1>2, <2>1 DEF World, Sockets
  <2>6. World'
    BY <1>1, <1>2, <2>4, <2>5 DEF World, counts
  <2>7. UNCHANGED <<issued, conn, op>>
    BY <1>1 DEF counts
  <2>8. CASE data.id = None
    BY <1>1, <1>3, <2>2, <2>8 DEF ClientInv, IdsAreFresh
  <2>9. CASE data.id # None
    <3>1. conn
      <4>1. ~conn => data = NoData
        BY <1>2 DEF Client, CountersAgree
      <4> QED
        BY <2>9, <4>1, NoOpType
    <3>2. Client'
      BY <1>1, <1>2, <2>3, <2>7, <3>1 DEF Client, RepliesAreCounted, CountersAgree
    <3>3. OneCommand'
      BY <2>3, <2>4, <2>7 DEF ClientInv, OneCommand
    <3>4. IdsAreFresh'
      <4>1. IdsAreFresh /\ conn'
        BY <2>7, <3>1 DEF ClientInv
      <4> QED
        BY <2>3, <2>4, <2>7, <2>9, <4>1 DEF IdsAreFresh
    <3>5. DataIsOfOp'
      BY <2>1, <2>3, <2>7, <2>9 DEF ClientInv, DataIsOfOp
    <3>6. ASSUME NEW i \in DOMAIN queue'
          PROVE  /\ ~(queue'[i].type = "data" /\ queue'[i].id = data.id)
                 /\ queue'[i].type = "end" => queue'[i].id = data.id
      BY <1>1, <1>3, <2>2, <2>3, <2>4, <2>9 DEF ClientInv, EndsInOrder
    <3>7. EndsInOrder'
      BY <2>3, <3>6 DEF EndsInOrder
    <3> QED
      BY <2>6, <3>2, <3>3, <3>4, <3>5, <3>7, InvTogether
  <2> QED
    BY <2>8, <2>9
<1>4. CASE data.id # Head(queue).id
  <2>1. queue' = Tail(queue) /\ UNCHANGED <<data, complete>>
    BY <1>4 DEF OnDataEvent
  <2>2. Shifted(1) /\ queue' \in Seq(Events)
    BY <1>1, <1>2, <2>1, TakingEvent
  <2>3. Client' /\ World'
    BY <1>1, <1>2, <2>1, <2>2, ClientUnchanged DEF World, counts, client
  <2>4. GoesOn /\ op' \in Op
    BY <1>1, <1>2, <2>1 DEF GoesOn, counts, Client
  <2>5. (OneCommand /\ IdsAreFresh /\ DataIsOfOp /\ EndsInOrder)'
    BY <1>1, <2>1, <2>2, <2>4, QueueKept
  <2> QED
    BY <2>3, <2>5, InvTogether
<1> QED
  BY <1>3, <1>4

LEMMA ServerTypes ==
    ASSUME ClientInv, Server \/ ServerSpeaksUnasked
    PROVE  /\ conn /\ toServer' \in Seq(Requests) /\ toClient' \in Seq(Replies)
           /\ server' \in Sessions /\ confirmed' \subseteq Ids /\ stray' \in 0 .. MaxStray
           /\ UNCHANGED <<client, queue, issued, keepalives, complete, done>>
<1>1. /\ toServer \in Seq(Requests) /\ toClient \in Seq(Replies) /\ server \in Sessions
      /\ confirmed \subseteq Ids /\ stray \in 0 .. MaxStray
  BY InvHasClient, InvHasWorld DEF Client, World
<1>2. toServer # <<>> => conn
  BY InvHasClient DEF Client, CountersAgree
<1>3. toServer # <<>> => Head(toServer) \in Requests /\ Tail(toServer) \in Seq(Requests)
  BY <1>1
<1>4. ASSUME NEW c \in Requests, NEW code \in {1, 2, 5}
      PROVE  Reply(c.id, c.verb, code) \in Replies
  BY <1>4 DEF Reply, Replies, Requests
<1>5. CASE ServerHandles
  <2> DEFINE c == Head(toServer)
  <2>1. toServer # <<>> /\ toServer' = Tail(toServer)
        /\ UNCHANGED <<client, queue, counts, confirmed, complete, done>>
    BY <1>5 DEF ServerHandles
  <2>2. c \in Requests
    BY <1>3, <2>1
  <2>3. PICK code \in {2, 5}, early \in BOOLEAN, type \in 0 .. 1, rest \in 0 .. 1 :
            /\ toClient' = toClient \o (IF early THEN <<Reply(c.id, c.verb, 1)>> ELSE <<>>)
                             \o <<Reply(c.id, c.verb, code)>>
            /\ server' = SessionAfter(c, code, type, rest)
    BY <1>5 DEF ServerHandles
  <2>4. c.binary \in 0 .. 1 /\ c.offset \in 0 .. 1
    BY <2>2 DEF Requests
  <2>5. Reply(c.id, c.verb, 1) \in Replies /\ Reply(c.id, c.verb, code) \in Replies
    BY <1>4, <2>2
  <2> HIDE DEF c
  <2>6. server' \in Sessions
    BY <1>1, <2>3, <2>4 DEF Sessions, SessionAfter
  <2>7. toClient' \in Seq(Replies)
    <3> DEFINE first == IF early THEN <<Reply(c.id, c.verb, 1)>> ELSE <<>>
    <3>1. first \in Seq(Replies)
      BY <2>5
    <3>2. toClient' = toClient \o first \o <<Reply(c.id, c.verb, code)>>
      BY <2>3
    <3> HIDE DEF first
    <3> QED
      BY <1>1, <2>5, <3>1, <3>2
  <2> QED
    BY <1>1, <1>2, <1>3, <2>1, <2>6, <2>7 DEF counts
<1>6. CASE ServerStarts
  <2> DEFINE c == Head(toServer)
  <2>1. toServer # <<>> /\ toServer' = Tail(toServer) /\ c.verb = "transfer"
        /\ UNCHANGED <<client, queue, counts, complete, done>>
    BY <1>6 DEF ServerStarts
  <2>2. c \in Requests
    BY <1>3, <2>1
  <2>3. PICK code \in {1, 2, 5}, rest \in {0, server.rest} :
            /\ toClient' = Append(toClient, Reply(c.id, c.verb, code))
            /\ server' = [server EXCEPT !.rest = rest, !.manual = @ /\ rest # 0,
                                        !.busy = IF code = 1 THEN c.id ELSE None]
            /\ confirmed' = IF code = 2 THEN confirmed \cup {c.id} ELSE confirmed
    BY <1>6, <2>1 DEF ServerStarts
  <2>4. c.id \in Ids /\ Reply(c.id, c.verb, code) \in Replies /\ None \in Ids
    BY <1>4, <2>2, IdsAreNaturals DEF Requests
  <2> HIDE DEF c
  <2>5. server' \in Sessions /\ confirmed' \subseteq Ids
    <3>1. rest \in 0 .. 1
      BY <1>1, <2>3 DEF Sessions
    <3>2. (IF code = 1 THEN c.id ELSE None) \in Ids
      BY <2>4
    <3> QED
      BY <1>1, <2>3, <2>4, <3>1, <3>2 DEF Sessions
  <2>6. toClient' \in Seq(Replies)
    BY <1>1, <2>3, <2>4
  <2> QED
    BY <1>1, <1>2, <1>3, <2>1, <2>5, <2>6 DEF counts
<1>7. CASE ServerFinishes
  <2>1. conn /\ server' = [server EXCEPT !.busy = None]
        /\ UNCHANGED <<client, queue, toServer, counts, complete, done>>
    BY <1>7 DEF ServerFinishes
  <2>2. PICK code \in {2, 5} :
            /\ toClient' = Append(toClient, Reply(server.busy, "transfer", code))
            /\ confirmed' = IF code = 2 THEN confirmed \cup {server.busy} ELSE confirmed
    BY <1>7 DEF ServerFinishes
  <2>3. server.busy \in Ids /\ Reply(server.busy, "transfer", code) \in Replies
    BY <1>1 DEF Sessions, Reply, Replies, Verbs
  <2>4. server' \in Sessions /\ confirmed' \subseteq Ids
    BY <1>1, <2>1, <2>2, <2>3, IdsAreNaturals DEF Sessions
  <2>5. toClient' \in Seq(Replies)
    BY <1>1, <2>2, <2>3
  <2> QED
    BY <1>1, <2>1, <2>4, <2>5 DEF counts
<1>8. CASE ServerSpeaksUnasked
  <2>1. /\ conn /\ stray < MaxStray /\ stray' = stray + 1
        /\ toClient' = Append(toClient, Reply(None, "stray", 5))
        /\ UNCHANGED <<client, queue, toServer, server, issued, keepalives, confirmed,
                       complete, done>>
    BY <1>8 DEF ServerSpeaksUnasked
  <2>2. Reply(None, "stray", 5) \in Replies
    BY IdsAreNaturals DEF Reply, Replies
  <2>3. toClient' \in Seq(Replies)
    BY <1>1, <2>1, <2>2
  <2>4. stray' \in 0 .. MaxStray
    BY <1>1, <2>1, FtpBounds
  <2> QED
    BY <1>1, <2>1, <2>3, <2>4
<1> QED
  BY <1>5, <1>6, <1>7, <1>8 DEF Server

LEMMA ServerKeepsInv ==
    ASSUME ClientInv, Server \/ ServerSpeaksUnasked
    PROVE  ClientInv'
<1>1. /\ conn /\ toServer' \in Seq(Requests) /\ toClient' \in Seq(Replies)
      /\ server' \in Sessions /\ confirmed' \subseteq Ids /\ stray' \in 0 .. MaxStray
      /\ UNCHANGED <<client, queue, issued, keepalives, complete, done>>
  BY ServerTypes
<1>2. World' /\ queue \in Seq(Events)
  BY <1>1, InvHasWorld DEF World
<1>3. Client'
  <2>1. conn /\ conn' /\ UNCHANGED <<op, pending, skip, idleTimer>>
    BY <1>1 DEF client
  <2>2. RepliesAreCounted' /\ CountersAgree'
    BY <2>1, InvHasClient DEF Client, RepliesAreCounted, CountersAgree
  <2> QED
    BY <1>1, <2>2, InvHasClient DEF Client, client
<1>4. GoesOn /\ op' \in Op /\ conn' = conn
  BY <1>1, InvHasClient DEF GoesOn, client, Client
<1>5. Shifted(0) /\ queue' \in Seq(Events)
  BY <1>1, <1>2, KeepingEvents
<1>6. (OneCommand /\ IdsAreFresh /\ DataIsOfOp /\ EndsInOrder)'
  BY <1>1, <1>4, <1>5, QueueKept
<1> QED
  BY <1>2, <1>3, <1>6, InvTogether

LEMMA ClientInvInit == Init => ClientInv
<1> SUFFICES ASSUME Init
             PROVE  ClientInv
  OBVIOUS
<1>1. Client
  <2>1. conn \in BOOLEAN /\ sentRest \in BOOLEAN /\ idleTimer \in BOOLEAN /\ ~conn /\ ~idleTimer
    BY DEF Init
  <2>2. RepliesAreCounted /\ CountersAgree
    BY <2>1, NoOpType DEF Init, RepliesAreCounted, CountersAgree
  <2>3. lastType \in Types /\ issued \in Ids
    BY IdsAreNaturals DEF Init, Types, None
  <2> QED
    BY <2>1, <2>2, <2>3, NoOpType DEF Init, Client
<1>2. World
  BY IdsAreNaturals, FtpBounds DEF Init, World, Sessions, NewSession
<1>3. TypeOK /\ RepliesAreCounted /\ CountersAgree
  BY <1>1, <1>2, TypeOKParts
<1>4. OneCommand /\ IdsAreFresh /\ DataIsOfOp /\ EndsInOrder
  BY NoOpType DEF Init, OneCommand, IdsAreFresh, DataIsOfOp, EndsInOrder, None
<1> QED
  BY <1>3, <1>4 DEF ClientInv

LEMMA ClientInvNext == ClientInv /\ [Next]_vars => ClientInv'
<1> SUFFICES ASSUME ClientInv, [Next]_vars
             PROVE  ClientInv'
  OBVIOUS
<1>1. CASE UNCHANGED vars
  <2>1. Client' /\ World'
    BY <1>1, InvHasClient, InvHasWorld, ClientUnchanged DEF vars, counts, World
  <2>2. (OneCommand /\ IdsAreFresh /\ DataIsOfOp /\ EndsInOrder)'
    BY <1>1 DEF vars, client, counts, ClientInv, OneCommand, IdsAreFresh, DataIsOfOp, EndsInOrder
  <2> QED
    BY <2>1, <2>2, InvTogether
<1> QED
  BY <1>1, ExecuteKeepsInv, CancelKeepsInv, CommandEventKeepsInv, OnDataEventKeepsInv,
     TransferEndKeepsInv, ParseKeepsInv, LoggedInKeepsInv, ClosedKeepsInv, IdleTimerKeepsInv,
     DataEventKeepsInv, ServerKeepsInv
     DEF Next, EventLoop

LEMMA ClientInvHolds == Spec => []ClientInv
<1>1. Init => ClientInv
  BY ClientInvInit
<1>2. ClientInv /\ [Next]_vars => ClientInv'
  BY ClientInvNext
<1> QED
  BY <1>1, <1>2, PTL DEF Spec

(* Types are respected; in particular the counters of replies never fall   *)
(* below zero and no operation is numbered beyond those that were issued.  *)
THEOREM TypeCorrect == Spec => []TypeOK
<1>1. ClientInv => TypeOK
  BY DEF ClientInv
<1> QED
  BY <1>1, ClientInvHolds, PTL

(* Whatever the server sends, only replies that are due are skipped, and   *)
(* an idle connection is kept alive.                                       *)
THEOREM CountersStayRight == Spec => []RepliesAreCounted
<1>1. ClientInv => RepliesAreCounted
  BY DEF ClientInv
<1> QED
  BY <1>1, ClientInvHolds, PTL

(* An event at the end of an earlier transfer changes neither the current  *)
(* operation nor the transfers that count as successful.                   *)
THEOREM LateEndsAreHarmless == Spec => EndIsOfThisTransfer
<1>1. ClientInv /\ [Next]_vars
        => [TransferEnd /\ (op' # op \/ done' # done) => Head(queue).id = data.id]_vars
  <2> SUFFICES ASSUME ClientInv, TransferEnd, op' # op \/ done' # done
               PROVE  Head(queue).id = data.id
    OBVIOUS
  <2>1. EndExpected
    BY DEF TransferEnd, client
  <2>2. queue # <<>> /\ Head(queue).type = "end" /\ queue \in Seq(Events)
    BY InvHasWorld DEF TransferEnd, World
  <2>3. 1 \in DOMAIN queue /\ queue[1] = Head(queue)
    BY <2>2
  <2> QED
    BY <2>1, <2>2, <2>3 DEF ClientInv, EndsInOrder, EndExpected
<1> QED
  BY <1>1, ClientInvHolds, PTL DEF Spec, EndIsOfThisTransfer

-----------------------------------------------------------------------------
(* What holds as long as the server sends nothing unasked: the client and  *)
(* the server take turns.  At most one command is outstanding, so the      *)
(* reply that comes next is the reply to it.                               *)

(* If the operation takes the next reply, it waits for this one.           *)
Awaited(id, verb) == skip = 0 /\ op.kind # "none" => id = op.id /\ verb = Verb(op)

(* A command on its way to the server: the client has forgotten what it    *)
(* may change, and a transfer finds the session as it should.              *)
GoodRequest(c) ==
    /\ skip = 0 /\ op.kind # "none" => c = Request(op.id, Verb(op), op.binary, op.offset)
    /\ c.verb = "raw" => lastType = Unknown
    /\ c.verb = "type" => lastType \in {Unknown, c.binary}
    /\ c.verb = "rest" => sentRest \/ c.offset = 0
    /\ c.verb = "transfer" => /\ c.id # None
                              /\ server.type = c.binary /\ AtOffset(c.offset)

(* A final reply on its way to the client tells the truth.                 *)
GoodReply(r) ==
    /\ r.code # 1 /\ Awaited(r.id, r.verb)
    /\ r.verb = "transfer" /\ r.code = 2 => r.id \in confirmed
    /\ skip = 0 /\ op.kind = "transfer" =>
          /\ op.state = "type" /\ r.code = 2 => server.type = op.binary
          /\ op.state = "rest" /\ op.offset = 0 => AtOffset(0)
          /\ op.state = "rest" /\ r.code = 2 => AtOffset(op.offset)

GoodNews(f) == f.code = 1 /\ f.verb \in {"raw", "transfer"} /\ Awaited(f.id, f.verb)

Quiet == pending = 0 /\ toServer = <<>> /\ toClient = <<>> /\ server.busy = None

Asked ==
    /\ pending = 1 /\ toClient = <<>> /\ server.busy = None
    /\ \E c \in Requests : toServer = <<c>> /\ GoodRequest(c)

Answered ==
    /\ pending = 1 /\ toServer = <<>> /\ server.busy = None
    /\ \E r \in Replies :
          /\ GoodReply(r)
          /\ toClient = <<r>> \/ \E f \in Replies : GoodNews(f) /\ toClient = <<f, r>>

Working ==
    /\ pending = 1 /\ toServer = <<>> /\ server.busy # None /\ Awaited(server.busy, "transfer")
    /\ toClient = <<>> \/ \E f \in Replies : GoodNews(f) /\ toClient = <<f>>

Turns == Quiet \/ Asked \/ Answered \/ Working

(* What the client believes about the session is true.                     *)
Settings ==
    /\ lastType # Unknown => server.type = lastType
    /\ sentRest \/ AtOffset(0)

(* The session is at offset n after the step.                              *)
AtLater(n) == server'.manual \/ server'.rest = n

(* What the state of the operation says.                                   *)
OpMeans ==
    /\ op.kind = "raw" => op.state = "init"
    /\ op.kind = "transfer" =>
          /\ op.state \in {"port_pasv", "rest"} => lastType = op.binary
          /\ op.state \in {"waittransferpre", "waittransfer"} /\ op.reason = "successful"
                => op.id \in complete
          /\ op.state = "waitsocket" => op.id \in confirmed

Orderly == OpMeans /\ SuccessIsReal /\ (conn => Turns /\ Settings)

(* The inductive invariant.                                                *)
Inv == ClientInv /\ (stray = 0 => Orderly)

-----------------------------------------------------------------------------
(* Turns depends on little.                                                *)
LEMMA TurnsUnchanged ==
    ASSUME Turns, UNCHANGED <<op, skip, pending, lastType, sentRest, toServer, toClient,
                              server, confirmed>>
    PROVE  Turns'
  BY DEF Turns, Quiet, Asked, Answered, Working, GoodRequest, GoodReply, GoodNews, Awaited,
         AtOffset

(* A command stays outstanding when its operation ends or is replaced.     *)
LEMMA TurnsWithoutOp ==
    ASSUME Turns, op'.kind = "none" \/ skip' # 0,
           UNCHANGED <<pending, lastType, sentRest, toServer, toClient, server, confirmed>>
    PROVE  Turns'
<1>1. ASSUME NEW c, GoodRequest(c)
      PROVE  GoodRequest(c)'
  BY <1>1 DEF GoodRequest, AtOffset
<1>2. ASSUME NEW r, GoodReply(r)
      PROVE  GoodReply(r)'
  BY <1>2 DEF GoodReply, Awaited
<1>3. ASSUME NEW f, GoodNews(f)
      PROVE  GoodNews(f)'
  BY <1>3 DEF GoodNews, Awaited
<1>4. Awaited(server.busy, "transfer")'
  BY DEF Awaited
<1>5. Asked => Asked'
  BY <1>1 DEF Asked
<1>6. Answered => Answered'
  BY <1>2, <1>3 DEF Answered
<1>7. Working => Working'
  BY <1>3, <1>4 DEF Working
<1> QED
  BY <1>5, <1>6, <1>7 DEF Turns, Quiet

(* Nor does it matter that the operation changes its state in a way that   *)
(* does not change what it waits for.                                      *)
LEMMA TurnsSameVerb ==
    ASSUME Turns, op'.kind = op.kind, op'.id = op.id, Verb(op') = Verb(op),
           op'.binary = op.binary, op'.offset = op.offset,
           op'.state \in {"type", "rest"} => op'.state = op.state,
           UNCHANGED <<skip, pending, lastType, sentRest, toServer, toClient, server, confirmed>>
    PROVE  Turns'
<1>1. ASSUME NEW c, GoodRequest(c)
      PROVE  GoodRequest(c)'
  BY <1>1 DEF GoodRequest, AtOffset
<1>2. ASSUME NEW r, GoodReply(r)
      PROVE  GoodReply(r)'
  BY <1>2 DEF GoodReply, Awaited, AtOffset
<1>3. ASSUME NEW f, GoodNews(f)
      PROVE  GoodNews(f)'
  BY <1>3 DEF GoodNews, Awaited
<1>4. Awaited(server.busy, "transfer") => Awaited(server.busy, "transfer")'
  BY DEF Awaited
<1>5. Asked => Asked'
  BY <1>1 DEF Asked
<1>6. Answered => Answered'
  BY <1>2, <1>3 DEF Answered
<1>7. Working => Working'
  BY <1>3, <1>4 DEF Working
<1> QED
  BY <1>5, <1>6, <1>7 DEF Turns, Quiet

(* A command may be sent when nothing is outstanding: it is good if the    *)
(* operation has reason to believe what it believes.                       *)
Ready(o, type, rest) ==
    /\ type # Unknown => server'.type = type
    /\ rest \/ AtLater(0)
    /\ o.kind = "raw" => o.state = "init"
    /\ o.kind = "transfer" =>
          /\ o.state \in {"port_pasv", "rest", "transfer"} => type = o.binary
          /\ o.state = "transfer" => AtLater(o.offset)

LEMMA SendingWhenQuiet ==
    ASSUME NEW o \in Op, o.kind \in {"raw", "transfer"}, o.id # None,
           NEW type \in Types, NEW rest \in BOOLEAN, SendNextCommand(o, type, rest, 0, 0),
           toServer = <<>>, toClient' = <<>>, server'.busy = None, Ready(o, type, rest)
    PROVE  /\ Turns' /\ Settings'
           /\ op'.kind = o.kind /\ op'.id = o.id /\ op'.reason = o.reason
           /\ op'.kind = "raw" => op'.state = "init"
           /\ op'.kind = "transfer" /\ op'.state \in {"port_pasv", "rest"}
                => lastType' = op'.binary
           /\ op'.state = o.state \/ op'.state \in {"type", "port_pasv"}
<1> DEFINE n == Resumed(o, type)
           c == Request(n.id, Verb(n), n.binary, n.offset)
<1>1. /\ n \in Op /\ n.kind = o.kind /\ n.id = o.id /\ n.binary = o.binary
      /\ n.offset = o.offset /\ n.reason = o.reason
      /\ n.state = o.state \/ n.state \in {"type", "port_pasv"}
      /\ n.kind # "transfer" \/ o.state # "init" => n = o
  BY ResumedType
<1>2. n.kind = "transfer" /\ n.state \in {"port_pasv", "rest", "transfer"} => type = n.binary
  BY <1>1 DEF Ready, Resumed, Op
<1>3. n.kind = "transfer" /\ n.state = "transfer" => o.state = "transfer"
  BY <1>1
<1>4. op' = n /\ skip' = 0
  BY DEF SendNextCommand
<1> HIDE DEF n
<1>5. CASE Sends(n)
  <2>1. /\ lastType' = IF Verb(n) \in {"type", "raw"} THEN Unknown ELSE type
        /\ sentRest' = (rest \/ (Verb(n) = "rest" /\ n.offset > 0))
        /\ pending' = 1 /\ toServer' = <<c>>
    BY <1>5 DEF SendNextCommand, n
  <2>2. c \in Requests /\ Verb(n) \in {"raw", "type", "port_pasv", "rest", "transfer"}
    BY <1>1, RequestType
  <2>3. c.id = n.id /\ c.verb = Verb(n) /\ c.binary = n.binary /\ c.offset = n.offset
    BY DEF Request
  <2>4. n.offset \in 0 .. 1
    BY <1>1 DEF Op
  <2>5. c.verb = "rest" => sentRest' \/ c.offset = 0
    <3>1. n.offset > 0 \/ n.offset = 0
      BY <2>4
    <3> QED
      BY <2>1, <2>3, <3>1
  <2>6. c.verb = "transfer" => /\ c.id # None
                               /\ server'.type = c.binary /\ AtLater(c.offset)
    <3> SUFFICES ASSUME c.verb = "transfer"
                 PROVE  c.id # None /\ server'.type = c.binary /\ AtLater(c.offset)
      OBVIOUS
    <3>1. n.kind = "transfer" /\ n.state = "transfer"
      BY <1>1, <1>5, <2>3 DEF Verb, Sends
    <3>2. type = n.binary /\ n.binary \in 0 .. 1
      BY <1>1, <1>2, <3>1 DEF Op
    <3>3. type # Unknown
      BY <3>2 DEF Unknown
    <3> QED
      BY <1>1, <1>3, <2>3, <3>1, <3>2, <3>3 DEF Ready
  <2> HIDE DEF c
  <2>7. GoodRequest(c)'
    <3>1. c = Request(op'.id, Verb(op'), op'.binary, op'.offset)
      BY <1>4 DEF c
    <3> QED
      BY <2>1, <2>3, <2>5, <2>6, <3>1 DEF GoodRequest, AtOffset, AtLater
  <2>8. Turns'
    BY <2>1, <2>2, <2>7 DEF Turns, Asked
  <2>9. Settings'
    BY <2>1 DEF Settings, Ready, AtOffset, AtLater
  <2>10. op'.kind = "transfer" /\ op'.state \in {"port_pasv", "rest"} => lastType' = op'.binary
    <3>1. op'.kind = "transfer" /\ op'.state \in {"port_pasv", "rest"}
            => Verb(n) \notin {"type", "raw"}
      BY <1>4 DEF Verb
    <3> QED
      BY <1>2, <1>4, <2>1, <3>1
  <2> QED
    BY <1>1, <1>4, <2>8, <2>9, <2>10 DEF Ready
<1>6. CASE ~Sends(n)
  <2>1. lastType' = type /\ sentRest' = rest /\ pending' = 0 /\ toServer' = <<>>
    BY <1>6 DEF SendNextCommand, n
  <2>2. Turns' /\ Settings'
    BY <2>1 DEF Turns, Quiet, Settings, Ready, AtOffset, AtLater
  <2>3. n.kind # "raw" /\ n.state \notin {"port_pasv", "rest"}
    BY <1>6 DEF Sends
  <2> QED
    BY <1>1, <1>4, <2>2, <2>3
<1> QED
  BY <1>5, <1>6


-----------------------------------------------------------------------------
(* The server keeps to its turn.                                           *)
LEMMA OrderlyParts ==
    ASSUME UNCHANGED <<op, lastType, done>>, confirmed \subseteq confirmed',
           complete \subseteq complete', OpMeans, SuccessIsReal
    PROVE  OpMeans' /\ SuccessIsReal'
  BY DEF OpMeans, SuccessIsReal

LEMMA ReplyType ==
    ASSUME NEW id \in Ids, NEW verb \in Verbs, NEW code \in {1, 2, 5}
    PROVE  LET r == Reply(id, verb, code)
           IN  r \in Replies /\ r.id = id /\ r.verb = verb /\ r.code = code
  BY DEF Reply, Replies

LEMMA Pairs ==
    ASSUME NEW S, NEW f \in S, NEW r \in S
    PROVE  /\ Append(<<f>>, r) = <<f, r>> /\ <<>> \o <<f>> \o <<r>> = <<f, r>>
           /\ Head(<<f, r>>) = f /\ Tail(<<f, r>>) = <<r>>
<1> DEFINE a == Append(<<f>>, r)
           b == <<f>> \o <<r>>
<1>1. /\ a \in Seq(S) /\ Len(a) = 2 /\ a[1] = f /\ a[2] = r
      /\ b \in Seq(S) /\ Len(b) = 2 /\ b[1] = f /\ b[2] = r
      /\ <<f, r>> \in Seq(S) /\ Len(<<f, r>>) = 2 /\ <<>> \o <<f>> = <<f>>
  OBVIOUS
<1>2. Head(<<f, r>>) = f /\ Tail(<<f, r>>) = <<r>>
  OBVIOUS
<1> HIDE DEF a, b
<1>3. a = <<f, r>> /\ b = <<f, r>>
  BY <1>1, SeqEqual
<1> QED
  BY <1>1, <1>2, <1>3 DEF a, b

LEMMA ServerHandlesOrderly ==
    ASSUME ClientInv, Orderly, ServerHandles
    PROVE  Orderly'
<1>1. toServer # <<>> /\ toServer' = Tail(toServer) /\ server.busy = None
      /\ UNCHANGED <<client, confirmed, complete, done>>
  BY DEF ServerHandles, client, counts
<1>2. conn /\ server \in Sessions
  BY <1>1, InvHasWorld DEF ClientInv, CountersAgree, World
<1>3. Turns /\ Settings /\ OpMeans /\ SuccessIsReal
  BY <1>2 DEF Orderly
<1>4. pending = 1 /\ toClient = <<>>
  BY <1>1, <1>3 DEF Turns, Quiet, Asked, Answered, Working
<1>5. PICK c \in Requests : toServer = <<c>> /\ GoodRequest(c)
  BY <1>1, <1>3 DEF Turns, Quiet, Asked, Answered, Working
<1>6. Head(toServer) = c /\ toServer' = <<>>
  BY <1>1, <1>5
<1>7. c.verb # "transfer"
  BY <1>6 DEF ServerHandles
<1>8. PICK code \in {2, 5}, early \in BOOLEAN, type \in 0 .. 1, rest \in 0 .. 1 :
        /\ early => c.verb = "raw"
        /\ (c.verb = "rest" /\ code = 5) => server.rest = 0
        /\ toClient' = toClient \o (IF early THEN <<Reply(c.id, c.verb, 1)>> ELSE <<>>)
                         \o <<Reply(c.id, c.verb, code)>>
        /\ server' = SessionAfter(c, code, type, rest)
  BY <1>6 DEF ServerHandles
<1> DEFINE r == Reply(c.id, c.verb, code)
           f == Reply(c.id, c.verb, 1)
<1>9. c.id \in Ids /\ c.verb \in Verbs
  BY DEF Requests
<1>10. /\ r \in Replies /\ r.id = c.id /\ r.verb = c.verb /\ r.code = code
       /\ f \in Replies /\ f.id = c.id /\ f.verb = c.verb /\ f.code = 1
  BY <1>9, ReplyType
<1>11. toClient' = <<r>> \/ (c.verb = "raw" /\ toClient' = <<f, r>>)
  <2> HIDE DEF r, f
  <2>1. toClient' = <<>> \o (IF early THEN <<f>> ELSE <<>>) \o <<r>>
    BY <1>4, <1>8 DEF r, f
  <2>2. CASE early
    BY <1>8, <1>10, <2>1, <2>2, Pairs DEF r, f
  <2>3. CASE ~early
    BY <2>1, <2>3
  <2> QED
    BY <2>2, <2>3
<1> HIDE DEF r, f
<1>12. /\ server'.busy = None
       /\ server'.type = IF c.verb = "type" /\ code = 2 THEN c.binary
                         ELSE IF c.verb = "raw" THEN type ELSE server.type
       /\ c.verb = "rest" /\ code = 2 => AtLater(c.offset)
       /\ c.verb = "rest" /\ code = 5 => AtLater(0)
       /\ AtOffset(0) => AtLater(0) \/ (c.verb = "rest" /\ code = 2)
  <2>1. CASE c.verb = "raw"
    <3>1. server' = [server EXCEPT !.type = type, !.rest = rest,
                                   !.manual = rest # 0 /\ (server.manual \/ rest # server.rest)]
      BY <1>8, <2>1 DEF SessionAfter
    <3>2. /\ server'.busy = None /\ server'.type = type /\ server'.rest = rest
          /\ server'.manual = (rest # 0 /\ (server.manual \/ rest # server.rest))
      BY <1>1, <1>2, <3>1 DEF Sessions
    <3>3. AtOffset(0) => AtLater(0)
      BY <3>2 DEF AtOffset, AtLater
    <3> QED
      BY <2>1, <3>2, <3>3
  <2>2. CASE c.verb = "rest" /\ code = 2
    <3>1. server' = [server EXCEPT !.rest = c.offset, !.manual = FALSE]
      BY <1>8, <2>2 DEF SessionAfter
    <3> QED
      BY <1>1, <1>2, <2>2, <3>1 DEF Sessions, AtLater
  <2>3. CASE c.verb = "type" /\ code = 2
    <3>1. server' = [server EXCEPT !.type = c.binary]
      BY <1>8, <2>3 DEF SessionAfter
    <3> QED
      BY <1>1, <1>2, <2>3, <3>1 DEF Sessions, AtOffset, AtLater
  <2>4. CASE c.verb # "raw" /\ ~(c.verb \in {"rest", "type"} /\ code = 2)
    <3>1. server' = server
      BY <1>8, <2>4 DEF SessionAfter
    <3> QED
      BY <1>1, <1>8, <2>4, <3>1 DEF AtOffset, AtLater
  <2> QED
    BY <2>1, <2>2, <2>3, <2>4
<1>13. UNCHANGED <<conn, op, skip, pending, lastType, sentRest>>
  BY <1>1 DEF client
<1>14. skip = 0 /\ op.kind # "none" => /\ c.id = op.id /\ c.verb = Verb(op)
                                       /\ c.binary = op.binary /\ c.offset = op.offset
  BY <1>5 DEF GoodRequest, Request
<1>15. GoodReply(r)'
  <2>1. r.code # 1 /\ Awaited(r.id, r.verb)'
    BY <1>10, <1>13, <1>14 DEF Awaited
  <2>2. ASSUME skip = 0, op.kind = "transfer"
        PROVE  /\ op.state = "type" /\ r.code = 2 => server'.type = op.binary
               /\ op.state = "rest" /\ op.offset = 0 => AtLater(0)
               /\ op.state = "rest" /\ r.code = 2 => AtLater(op.offset)
    <3>1. c.verb = Verb(op) /\ c.binary = op.binary /\ c.offset = op.offset
      BY <1>14, <2>2
    <3>2. /\ op.state = "type" => c.verb = "type"
          /\ op.state = "rest" => c.verb = "rest"
      BY <2>2, <3>1 DEF Verb
    <3> QED
      BY <1>8, <1>10, <1>12, <3>1, <3>2
  <2> QED
    BY <1>7, <1>10, <1>13, <2>1, <2>2 DEF GoodReply, AtOffset, AtLater
<1>16. c.verb = "raw" => GoodNews(f)'
  BY <1>10, <1>13, <1>14 DEF GoodNews, Awaited
<1>17. Turns'
  BY <1>4, <1>6, <1>10, <1>11, <1>12, <1>13, <1>15, <1>16 DEF Turns, Answered
<1>18. Settings'
  <2>1. lastType # Unknown => server'.type = lastType
    BY <1>3, <1>5, <1>12 DEF Settings, GoodRequest
  <2>2. sentRest \/ AtLater(0)
    BY <1>3, <1>5, <1>12 DEF Settings, GoodRequest
  <2> QED
    BY <1>13, <2>1, <2>2 DEF Settings, AtOffset, AtLater
<1> QED
  BY <1>1, <1>3, <1>13, <1>17, <1>18, OrderlyParts DEF Orderly

LEMMA ServerStartsOrderly ==
    ASSUME ClientInv, Orderly, ServerStarts
    PROVE  Orderly'
<1>1. toServer # <<>> /\ toServer' = Tail(toServer) /\ server.busy = None
      /\ Head(toServer).verb = "transfer" /\ UNCHANGED <<client, complete, done>>
  BY DEF ServerStarts, client, counts
<1>2. conn /\ server \in Sessions
  BY <1>1, InvHasWorld DEF ClientInv, CountersAgree, World
<1>3. Turns /\ Settings /\ OpMeans /\ SuccessIsReal
  BY <1>2 DEF Orderly
<1>4. pending = 1 /\ toClient = <<>>
  BY <1>1, <1>3 DEF Turns, Quiet, Asked, Answered, Working
<1>5. PICK c \in Requests : toServer = <<c>> /\ GoodRequest(c)
  BY <1>1, <1>3 DEF Turns, Quiet, Asked, Answered, Working
<1>6. Head(toServer) = c /\ toServer' = <<>> /\ c.verb = "transfer"
  BY <1>1, <1>5
<1>7. PICK code \in {1, 2, 5}, rest \in {0, server.rest} :
        /\ toClient' = Append(toClient, Reply(c.id, "transfer", code))
        /\ server' = [server EXCEPT !.rest = rest, !.manual = @ /\ rest # 0,
                                    !.busy = IF code = 1 THEN c.id ELSE None]
        /\ confirmed' = IF code = 2 THEN confirmed \cup {c.id} ELSE confirmed
  BY <1>6 DEF ServerStarts
<1> DEFINE r == Reply(c.id, "transfer", code)
<1>8. r \in Replies /\ r.id = c.id /\ r.verb = "transfer" /\ r.code = code
  <2>1. c.id \in Ids /\ "transfer" \in Verbs
    BY DEF Requests, Verbs
  <2> QED
    BY <2>1, ReplyType
<1>9. toClient' = <<r>>
  BY <1>4, <1>7
<1> HIDE DEF r
<1>10. /\ server'.busy = (IF code = 1 THEN c.id ELSE None)
       /\ server'.type = server.type /\ (AtOffset(0) => AtOffset(0)')
  BY <1>2, <1>7 DEF Sessions, AtOffset
<1>11. UNCHANGED <<conn, op, skip, pending, lastType, sentRest>>
  BY <1>1 DEF client
<1>12. c.id # None /\ (skip = 0 /\ op.kind # "none" => c.id = op.id /\ Verb(op) = "transfer")
  BY <1>5, <1>6 DEF GoodRequest, Request
<1>13. CASE code = 1
  <2>1. GoodNews(r)' /\ Awaited(server.busy, "transfer")'
    BY <1>8, <1>10, <1>11, <1>12, <1>13 DEF GoodNews, Awaited
  <2>2. Working'
    BY <1>4, <1>6, <1>8, <1>9, <1>10, <1>11, <1>12, <1>13, <2>1 DEF Working
  <2> QED
    BY <1>1, <1>3, <1>7, <1>10, <1>11, <2>2, OrderlyParts DEF Orderly, Turns, Settings, AtOffset
<1>14. CASE code # 1
  <2>1. skip = 0 /\ op.kind = "transfer" => op.state \notin {"type", "rest"}
    BY <1>12 DEF Verb
  <2>2. GoodReply(r)'
    BY <1>7, <1>8, <1>11, <1>12, <1>14, <2>1 DEF GoodReply, Awaited
  <2>3. Answered'
    BY <1>4, <1>6, <1>8, <1>9, <1>10, <1>11, <1>14, <2>2 DEF Answered
  <2> QED
    BY <1>1, <1>3, <1>7, <1>10, <1>11, <2>3, OrderlyParts DEF Orderly, Turns, Settings, AtOffset
<1> QED
  BY <1>13, <1>14

LEMMA ServerFinishesOrderly ==
    ASSUME ClientInv, Orderly, ServerFinishes
    PROVE  Orderly'
<1>1. server.busy # None /\ conn /\ UNCHANGED <<client, toServer, complete, done>>
      /\ server' = [server EXCEPT !.busy = None]
  BY DEF ServerFinishes, client, counts
<1>2. server \in Sessions
  BY InvHasWorld DEF World
<1>3. Turns /\ Settings /\ OpMeans /\ SuccessIsReal
  BY <1>1 DEF Orderly
<1>4. Working
  BY <1>1, <1>3 DEF Turns, Quiet, Asked, Answered
<1>5. PICK code \in {2, 5} :
        /\ toClient' = Append(toClient, Reply(server.busy, "transfer", code))
        /\ confirmed' = IF code = 2 THEN confirmed \cup {server.busy} ELSE confirmed
  BY DEF ServerFinishes
<1>6. PICK r \in Replies : /\ r = Reply(server.busy, "transfer", code)
                           /\ r.id = server.busy /\ r.verb = "transfer" /\ r.code = code
  <2>1. server.busy \in Ids /\ "transfer" \in Verbs
    BY <1>2 DEF Sessions, Verbs
  <2> QED
    BY <2>1, ReplyType
<1>7. server'.busy = None /\ server'.type = server.type
      /\ server'.rest = server.rest /\ server'.manual = server.manual
  BY <1>1, <1>2 DEF Sessions
<1>8. UNCHANGED <<conn, op, skip, pending, lastType, sentRest>>
  BY <1>1 DEF client
<1>9. toClient' = Append(toClient, r)
  BY <1>5, <1>6
<1>10. skip = 0 /\ op.kind # "none" => server.busy = op.id /\ Verb(op) = "transfer"
  BY <1>4 DEF Working, Awaited
<1>11. GoodReply(r)'
  <2>1. skip = 0 /\ op.kind = "transfer" => op.state \notin {"type", "rest"}
    BY <1>10 DEF Verb
  <2>2. r.code # 1 /\ (r.code = 2 => r.id \in confirmed')
    BY <1>5, <1>6
  <2> QED
    BY <1>6, <1>8, <1>10, <2>1, <2>2 DEF GoodReply, Awaited
<1>12. toClient' = <<r>> \/ \E f \in Replies : GoodNews(f)' /\ toClient' = <<f, r>>
  <2>1. CASE toClient = <<>>
    BY <1>9, <2>1
  <2>2. CASE \E f \in Replies : GoodNews(f) /\ toClient = <<f>>
    <3>1. PICK f \in Replies : GoodNews(f) /\ toClient = <<f>>
      BY <2>2
    <3>2. GoodNews(f)'
      BY <1>8, <3>1 DEF GoodNews, Awaited
    <3>3. toClient' = <<f, r>>
      BY <1>6, <1>9, <3>1, Pairs
    <3> QED
      BY <3>2, <3>3
  <2> QED
    BY <1>4, <2>1, <2>2 DEF Working
<1>13. Answered'
  <2>1. pending' = 1 /\ toServer' = <<>>
    BY <1>1, <1>4, <1>8 DEF Working
  <2> QED
    BY <1>6, <1>7, <1>11, <1>12, <2>1 DEF Answered
<1> QED
  BY <1>1, <1>3, <1>5, <1>7, <1>8, <1>13, OrderlyParts DEF Orderly, Turns, Settings, AtOffset

-----------------------------------------------------------------------------
(* The client: commands, events, keep-alive and the loss of the connection.*)
LEMMA QuietEnough ==
    ASSUME Turns, pending = 0
    PROVE  toServer = <<>> /\ toClient = <<>> /\ server.busy = None
  BY DEF Turns, Quiet, Asked, Answered, Working

LEMMA ExecuteOrderly ==
    ASSUME Orderly, Execute
    PROVE  Orderly'
<1>1. UNCHANGED <<conn, op, skip, pending, lastType, sentRest, toServer, toClient, server,
                  confirmed, complete, done>>
  BY DEF Execute, client
<1> QED
  BY <1>1, TurnsUnchanged, OrderlyParts DEF Orderly, Settings, AtOffset

LEMMA DataEventOrderly ==
    ASSUME Orderly, NEW reason, DataEvent(reason)
    PROVE  Orderly'
<1>1. UNCHANGED <<conn, op, skip, pending, lastType, sentRest, toServer, toClient, server,
                  confirmed, complete, done>>
  BY DEF DataEvent, client
<1> QED
  BY <1>1, TurnsUnchanged, OrderlyParts DEF Orderly, Settings, AtOffset

LEMMA OnDataEventOrderly ==
    ASSUME Orderly, OnDataEvent
    PROVE  Orderly'
<1>1. UNCHANGED <<conn, op, skip, pending, lastType, sentRest, toServer, toClient, server,
                  confirmed, done>>
  BY DEF OnDataEvent
<1>2. complete \subseteq complete'
  BY DEF OnDataEvent
<1> QED
  BY <1>1, <1>2, TurnsUnchanged, OrderlyParts DEF Orderly, Settings, AtOffset

LEMMA EndingOrderly ==
    ASSUME Turns, Settings, EndOperation(lastType, sentRest, pending),
           UNCHANGED <<toClient, server, confirmed>>
    PROVE  Turns' /\ Settings' /\ OpMeans'
<1>1. op' = NoOp /\ UNCHANGED <<pending, lastType, sentRest, toServer>>
  BY DEF EndOperation
<1>2. Turns'
  BY <1>1, NoOpType, TurnsWithoutOp
<1> QED
  BY <1>1, <1>2, NoOpType DEF Settings, OpMeans, AtOffset

LEMMA CancelOrderly ==
    ASSUME Orderly, Cancel
    PROVE  Orderly'
<1>1. conn /\ EndOperation(lastType, sentRest, pending)
      /\ UNCHANGED <<conn, toClient, server, confirmed, complete, done>>
  BY DEF Cancel
<1> QED
  BY <1>1, EndingOrderly DEF Orderly, SuccessIsReal

LEMMA CloseOrderly ==
    ASSUME SuccessIsReal, Close, UNCHANGED <<confirmed, complete, done>>
    PROVE  Orderly'
<1>1. op' = NoOp /\ conn' = FALSE
  BY DEF Close
<1> QED
  BY <1>1, NoOpType DEF Orderly, OpMeans, SuccessIsReal

LEMMA ClosedOrderly ==
    ASSUME Orderly, Closed
    PROVE  Orderly'
  BY CloseOrderly DEF Orderly, Closed

LEMMA IdleTimerOrderly ==
    ASSUME ClientInv, Orderly, OnIdleTimer
    PROVE  Orderly'
<1>1. UNCHANGED <<conn, op, lastType, sentRest, toClient, server, confirmed, complete, done>>
  BY DEF OnIdleTimer
<1>2. conn
  BY DEF OnIdleTimer, ClientInv, CountersAgree
<1>3. Turns /\ Settings /\ OpMeans /\ SuccessIsReal
  BY <1>2 DEF Orderly
<1>4. OpMeans' /\ SuccessIsReal' /\ Settings'
  BY <1>1, <1>3, OrderlyParts DEF Settings, AtOffset
<1>5. CASE op.kind = "none" /\ pending = 0 /\ skip = 0
  <2>1. pending' = 1 /\ skip' = 1
    BY <1>5 DEF OnIdleTimer
  <2>2. PICK verb \in {"type", "noop"}, binary \in 0 .. 1 :
          /\ toServer' = Append(toServer, Request(None, verb, binary, 0))
          /\ binary = IF lastType # 0 THEN 1 ELSE 0
    BY <1>5 DEF OnIdleTimer
  <2>3. PICK c \in Requests :
          /\ c = Request(None, verb, binary, 0)
          /\ c.verb \in {"type", "noop"} /\ c.binary = IF lastType # 0 THEN 1 ELSE 0
    BY <2>2, IdsAreNaturals DEF Request, Requests, Verbs
  <2>4. toServer = <<>> /\ toClient = <<>> /\ server.busy = None
    BY <1>3, <1>5, QuietEnough
  <2>5. toServer' = <<c>>
    BY <2>2, <2>3, <2>4
  <2>6. lastType \in {Unknown, c.binary}
    BY <2>3 DEF ClientInv, TypeOK
  <2>7. GoodRequest(c)'
    BY <1>1, <2>1, <2>3, <2>6 DEF GoodRequest
  <2>8. Turns'
    BY <1>1, <2>1, <2>4, <2>5, <2>7 DEF Turns, Asked
  <2> QED
    BY <1>4, <2>8 DEF Orderly
<1>6. CASE ~(op.kind = "none" /\ pending = 0 /\ skip = 0)
  <2>1. UNCHANGED <<pending, skip, toServer>>
    BY <1>6 DEF OnIdleTimer
  <2>2. Turns'
    BY <1>1, <1>3, <2>1, TurnsUnchanged
  <2> QED
    BY <1>4, <2>2 DEF Orderly
<1> QED
  BY <1>5, <1>6

(* An operation that starts on a quiet connection sends its first command; *)
(* another one waits until all replies have been skipped.                  *)
LEMMA StartingOrderly ==
    ASSUME NEW o \in Op, o.kind \in {"raw", "transfer"}, o.id # None, o.state = "init",
           lastType \in Types, sentRest \in BOOLEAN, pending \in Nat, Turns, Settings,
           SendNextCommand(o, lastType, sentRest, pending, pending),
           UNCHANGED <<toClient, server, confirmed>>
    PROVE  Turns' /\ Settings' /\ OpMeans'
<1>1. CASE pending = 0
  <2>1. toServer = <<>> /\ toClient = <<>> /\ server.busy = None
    BY <1>1, QuietEnough
  <2>2. Ready(o, lastType, sentRest)
    BY DEF Ready, Settings, AtOffset, AtLater
  <2>3. SendNextCommand(o, lastType, sentRest, 0, 0)
    BY <1>1
  <2>4. /\ Turns' /\ Settings'
        /\ op'.kind = "raw" => op'.state = "init"
        /\ op'.kind = "transfer" /\ op'.state \in {"port_pasv", "rest"}
             => lastType' = op'.binary
        /\ op'.state = o.state \/ op'.state \in {"type", "port_pasv"}
    BY <2>1, <2>2, <2>3, SendingWhenQuiet
  <2> QED
    BY <2>4 DEF OpMeans
<1>2. CASE pending # 0
  <2>1. op' = o /\ skip' = pending /\ UNCHANGED <<lastType, sentRest, pending, toServer>>
    BY <1>2 DEF SendNextCommand
  <2>2. Turns'
    BY <1>2, <2>1, TurnsWithoutOp
  <2> QED
    BY <2>1, <2>2 DEF Settings, OpMeans, AtOffset
<1> QED
  BY <1>1, <1>2

LEMMA CommandEventOrderly ==
    ASSUME ClientInv, Orderly, OnCommandEvent
    PROVE  Orderly'
<1>1. /\ queue # <<>> /\ Head(queue).type = "command"
      /\ issued' = issued + 1 /\ UNCHANGED <<conn, toClient, server, confirmed, complete, done>>
  BY DEF OnCommandEvent
<1>2. op.kind = "none" /\ issued < MaxOps
  <2>1. 1 \in DOMAIN queue /\ queue[1] = Head(queue)
    BY <1>1 DEF ClientInv, TypeOK
  <2> QED
    BY <1>1, <2>1 DEF ClientInv, OneCommand
<1>3. Client
  BY InvHasClient
<1>4. issued + 1 \in Ids /\ issued + 1 # None
  BY <1>2, <1>3, NewSocketType, IdsAreNaturals DEF Client, None
<1>5. PICK kind \in {"raw", "transfer"}, binary \in 0 .. 1, offset \in 0 .. 1,
           pasv \in Modes, more \in BOOLEAN :
           LET o == NewOp(kind, issued + 1, binary, offset, pasv, more)
           IN  IF conn
               THEN SendNextCommand(o, lastType, sentRest, pending, skip)
               ELSE op' = o
  BY DEF OnCommandEvent
<1> DEFINE o == NewOp(kind, issued + 1, binary, offset, pasv, more)
<1>6. o \in Op /\ o.kind = kind /\ o.id = issued + 1 /\ o.state = "init"
  <2>1. pasv \in BOOLEAN
    BY FtpBounds
  <2> QED
    BY <1>4, <2>1, NewOpType
<1>7. skip = pending
  BY <1>2, <1>3 DEF Client, CountersAgree
<1> HIDE DEF o
<1>8. SuccessIsReal'
  BY <1>1 DEF Orderly, SuccessIsReal
<1>9. CASE conn
  <2>1. SendNextCommand(o, lastType, sentRest, pending, pending)
    BY <1>5, <1>7, <1>9 DEF o
  <2>2. Turns' /\ Settings' /\ OpMeans'
    BY <1>1, <1>3, <1>4, <1>6, <1>9, <2>1, StartingOrderly DEF Orderly, Client
  <2> QED
    BY <1>8, <2>2 DEF Orderly
<1>10. CASE ~conn
  <2>1. op' = o
    BY <1>5, <1>10 DEF o
  <2> QED
    BY <1>1, <1>6, <1>8, <1>10, <2>1 DEF Orderly, OpMeans
<1> QED
  BY <1>9, <1>10

LEMMA LoggedInOrderly ==
    ASSUME ClientInv, Orderly, LoggedIn
    PROVE  Orderly'
<1>1. /\ ~conn /\ op.kind # "none" /\ server' = NewSession
      /\ SendNextCommand(op, Unknown, FALSE, 0, 0)
      /\ UNCHANGED <<toClient, confirmed, complete, done>>
  BY DEF LoggedIn
<1>2. PICK rest \in BOOLEAN : rest = FALSE
  OBVIOUS
<1>3. /\ op \in Op /\ op.kind \in {"raw", "transfer"} /\ op.id # None
      /\ op.state = "init" /\ toServer = <<>> /\ toClient = <<>>
  BY <1>1, InvHasClient DEF ClientInv, Client, Op, IdsAreFresh, CountersAgree
<1>4. server'.busy = None /\ AtLater(0)
  BY <1>1 DEF NewSession, AtOffset, AtLater
<1>5. Unknown \in Types /\ Ready(op, Unknown, rest)
  BY <1>3, <1>4 DEF Ready, Types
<1>6. SendNextCommand(op, Unknown, rest, 0, 0)
  BY <1>1, <1>2
<1>7. /\ Turns' /\ Settings'
      /\ op'.kind = "raw" => op'.state = "init"
      /\ op'.kind = "transfer" /\ op'.state \in {"port_pasv", "rest"} => lastType' = op'.binary
      /\ op'.state = op.state \/ op'.state \in {"type", "port_pasv"}
  BY <1>1, <1>3, <1>4, <1>5, <1>6, SendingWhenQuiet
<1>8. OpMeans'
  BY <1>3, <1>7 DEF OpMeans
<1>9. SuccessIsReal'
  BY <1>1 DEF Orderly, SuccessIsReal
<1> QED
  BY <1>7, <1>8, <1>9 DEF Orderly

-----------------------------------------------------------------------------
(* The client: replies.                                                    *)
LEMMA NextTransferOp ==
    ASSUME Client, op.kind # "none", NEW type, NEW rest, NEW p, NextRawTransfer(type, rest, p)
    PROVE  \E o \in Op : /\ o.kind = "transfer" /\ o.id # None /\ o.state = "init"
                         /\ SendNextCommand(o, type, rest, p, p)
<1>1. issued + 1 \in Ids /\ issued + 1 # None
  BY NewSocketType, IdsAreNaturals DEF NextRawTransfer, Client, None
<1>2. PICK binary \in 0 .. 1, offset \in 0 .. 1, more \in BOOLEAN :
           SendNextCommand(NewOp("transfer", issued + 1, binary, offset, op.pasv, more),
                           type, rest, p, p)
  BY DEF NextRawTransfer
<1> DEFINE o == NewOp("transfer", issued + 1, binary, offset, op.pasv, more)
<1>3. o \in Op /\ o.kind = "transfer" /\ o.id = issued + 1 /\ o.state = "init"
  BY <1>1, NewOpType DEF Client, Op
<1> HIDE DEF o
<1> QED
  BY <1>1, <1>2, <1>3 DEF o

(* The reply that comes next.                                              *)
FinalTurn(r) == GoodReply(r) /\ server.busy = None /\ Head(toClient) = r /\ toClient' = <<>>

NewsTurn(f) ==
    /\ GoodNews(f) /\ Head(toClient) = f
    /\ \/ toClient' = <<>> /\ server.busy # None /\ Awaited(server.busy, "transfer")
       \/ server.busy = None /\ \E r \in Replies : GoodReply(r) /\ toClient' = <<r>>

LEMMA NextReply ==
    ASSUME Turns, toClient # <<>>, toClient' = Tail(toClient)
    PROVE  /\ pending = 1 /\ toServer = <<>>
           /\ \/ \E r \in Replies : FinalTurn(r)
              \/ \E f \in Replies : NewsTurn(f)
<1>1. CASE Answered
  <2>1. PICK r \in Replies :
          /\ GoodReply(r)
          /\ toClient = <<r>> \/ \E f \in Replies : GoodNews(f) /\ toClient = <<f, r>>
    BY <1>1 DEF Answered
  <2>2. CASE toClient = <<r>>
    <3>1. Head(toClient) = r /\ toClient' = <<>>
      BY <2>2
    <3> QED
      BY <1>1, <2>1, <3>1 DEF Answered, FinalTurn
  <2>3. CASE \E f \in Replies : GoodNews(f) /\ toClient = <<f, r>>
    <3>1. PICK f \in Replies : GoodNews(f) /\ toClient = <<f, r>>
      BY <2>3
    <3>2. Head(toClient) = f /\ toClient' = <<r>>
      BY <3>1, Pairs
    <3> QED
      BY <1>1, <2>1, <3>1, <3>2 DEF Answered, NewsTurn
  <2> QED
    BY <2>1, <2>2, <2>3
<1>2. CASE Working
  <2>1. PICK f \in Replies : GoodNews(f) /\ toClient = <<f>>
    BY <1>2 DEF Working
  <2>2. Head(toClient) = f /\ toClient' = <<>>
    BY <2>1
  <2> QED
    BY <1>2, <2>1, <2>2 DEF Working, NewsTurn
<1> QED
  BY <1>1, <1>2 DEF Turns, Quiet, Asked

(* Whoever takes a preliminary reply, the final one is still to come.      *)
LEMMA NewsTaken ==
    ASSUME NEW f \in Replies, NewsTurn(f), pending = 1, toServer = <<>>,
           UNCHANGED <<pending, toServer, server, confirmed>>,
           \/ op'.kind = "none" \/ skip' # 0
           \/ /\ op'.kind = op.kind /\ op'.id = op.id /\ Verb(op') = Verb(op) /\ skip' = skip
              /\ op'.binary = op.binary /\ op'.offset = op.offset
              /\ op'.state \in {"type", "rest"} => op'.state = op.state
    PROVE  Turns'
<1>1. ASSUME NEW r \in Replies, GoodReply(r)
      PROVE  GoodReply(r)'
  BY <1>1 DEF GoodReply, Awaited, AtOffset
<1>2. Awaited(server.busy, "transfer") => Awaited(server.busy, "transfer")'
  BY DEF Awaited
<1>3. CASE toClient' = <<>> /\ server.busy # None /\ Awaited(server.busy, "transfer")
  BY <1>2, <1>3 DEF Turns, Working
<1>4. CASE server.busy = None /\ \E r \in Replies : GoodReply(r) /\ toClient' = <<r>>
  BY <1>1, <1>4 DEF Turns, Answered
<1> QED
  BY <1>3, <1>4 DEF NewsTurn

(* CFtpRawTransferOpData::ParseResponse                                    *)
LEMMA AfterFinal ==
    ASSUME NEW o \in Op, NEW code \in {2, 5}, NEW understood \in BOOLEAN, sentRest \in BOOLEAN
    PROVE  LET after == AfterReply(o, code, understood)
           IN  /\ after \in {"ok", "error", "port_pasv", "rest", "transfer", "waitsocket"}
               /\ after = "ok" => /\ o.state \in {"waittransferpre", "waittransfer"}
                                  /\ code = 2 /\ o.reason = "successful"
               /\ after = "waitsocket" => code = 2 /\ o.state \in {"transfer", "waitfinish"}
               /\ after = "port_pasv" => \/ o.state = "type" /\ code = 2
                                         \/ o.state = "port_pasv"
               /\ after = "rest" => o.state = "port_pasv"
               /\ after = "transfer" => \/ o.state = "port_pasv" /\ o.offset = 0 /\ ~sentRest
                                        \/ o.state = "rest" /\ (o.offset = 0 \/ code = 2)
<1>1. o.offset > 0 \/ o.offset = 0
  BY DEF Op
<1>2. /\ AwaitData(code) = IF code = 2 THEN "waitsocket" ELSE "error"
      /\ Conclude(o, code) = IF code = 2 /\ o.reason = "successful" THEN "ok" ELSE "error"
  BY DEF AwaitData, Conclude, Positive
<1>3. CASE o.state = "type"
  BY <1>3 DEF AfterReply, Positive
<1>4. CASE o.state = "port_pasv"
  BY <1>1, <1>4 DEF AfterReply, Positive
<1>5. CASE o.state = "rest"
  BY <1>1, <1>5 DEF AfterReply, Positive
<1>6. CASE o.state \in {"transfer", "waitfinish"}
  BY <1>2, <1>6 DEF AfterReply
<1>7. CASE o.state \in {"waittransferpre", "waittransfer"}
  BY <1>2, <1>7 DEF AfterReply
<1>8. CASE o.state \in {"init", "waitsocket"}
  BY <1>8 DEF AfterReply
<1> QED
  BY <1>3, <1>4, <1>5, <1>6, <1>7, <1>8 DEF Op, RawStates

LEMMA AfterPreliminary ==
    ASSUME NEW o \in Op, NEW understood \in BOOLEAN, o.kind = "transfer", Verb(o) = "transfer"
    PROVE  LET after == AfterReply(o, 1, understood)
           IN  /\ after \in {"error", "waitfinish", "waittransfer"}
               /\ after = "waittransfer" => o.state = "waittransferpre"
<1>1. o.state \notin {"type", "port_pasv", "rest"}
  BY DEF Verb
<1>2. AwaitData(1) = "error" /\ Conclude(o, 1) = "error"
  BY DEF AwaitData, Conclude, Positive
<1>3. CASE o.state \in {"transfer", "waitfinish"}
  BY <1>2, <1>3 DEF AfterReply
<1>4. CASE o.state \in {"waittransferpre", "waittransfer"}
  BY <1>2, <1>4 DEF AfterReply
<1>5. CASE o.state \in {"init", "waitsocket"}
  BY <1>5 DEF AfterReply
<1> QED
  BY <1>1, <1>3, <1>4, <1>5 DEF Op, RawStates

(* What the reply says about the session is true.                          *)
LEMMA SettingsAfterReply ==
    ASSUME op \in Op, op.kind # "none", skip = 0, OpMeans, Settings, NEW r, GoodReply(r)
    PROVE  /\ TypeAfterReply(op, r.code) # Unknown => server.type = TypeAfterReply(op, r.code)
           /\ RestAfterReply(op) \/ AtOffset(0)
<1>1. op.kind = "raw" => op.state = "init"
  BY DEF OpMeans
<1>2. op.kind \in {"raw", "transfer"}
  BY DEF Op
<1>3. TypeAfterReply(op, r.code) # Unknown => server.type = TypeAfterReply(op, r.code)
  BY DEF TypeAfterReply, Positive, Settings, GoodReply
<1>4. RestAfterReply(op) \/ AtOffset(0)
  <2>1. CASE op.state = "rest" /\ op.offset = 0
    BY <1>1, <1>2, <2>1 DEF GoodReply
  <2>2. CASE ~(op.state = "rest" /\ op.offset = 0)
    BY <2>2 DEF RestAfterReply, Settings
  <2> QED
    BY <2>1, <2>2
<1> QED
  BY <1>3, <1>4

(* The operation ends, or another one follows, with its final reply.       *)
LEMMA QuietAfterEnd ==
    ASSUME NEW type, NEW rest, EndOperation(type, rest, 0), toServer = <<>>, toClient' = <<>>,
           server'.busy = None, type # Unknown => server'.type = type, rest \/ AtLater(0)
    PROVE  Turns' /\ Settings' /\ OpMeans'
<1>1. op' = NoOp /\ pending' = 0 /\ lastType' = type /\ sentRest' = rest /\ toServer' = toServer
  BY DEF EndOperation
<1> QED
  BY <1>1, NoOpType DEF Turns, Quiet, Settings, OpMeans, AtOffset, AtLater

LEMMA QuietAfterNext ==
    ASSUME Client, op.kind # "none", NEW type \in Types, NEW rest \in BOOLEAN,
           NextRawTransfer(type, rest, 0), toServer = <<>>, toClient' = <<>>,
           server'.busy = None, type # Unknown => server'.type = type, rest \/ AtLater(0)
    PROVE  Turns' /\ Settings' /\ OpMeans'
<1>1. PICK o \in Op : /\ o.kind = "transfer" /\ o.id # None /\ o.state = "init"
                      /\ SendNextCommand(o, type, rest, 0, 0)
  BY NextTransferOp
<1>2. Ready(o, type, rest)
  BY <1>1 DEF Ready
<1>3. /\ Turns' /\ Settings'
      /\ op'.kind = "raw" => op'.state = "init"
      /\ op'.kind = "transfer" /\ op'.state \in {"port_pasv", "rest"} => lastType' = op'.binary
      /\ op'.state = o.state \/ op'.state \in {"type", "port_pasv"}
  BY <1>1, <1>2, SendingWhenQuiet
<1> QED
  BY <1>1, <1>3 DEF OpMeans

(* The operation takes its final reply.                                    *)
LEMMA FinalReplyTaken ==
    ASSUME Client, IdsAreFresh, op.kind # "none", skip = 0, OpMeans, Settings, SuccessIsReal,
           NEW r \in Replies, FinalTurn(r), toServer = <<>>, NEW understood \in BOOLEAN,
           ParseOperationReply(r.code, 0, understood), UNCHANGED <<server, confirmed, complete>>
    PROVE  Turns' /\ Settings' /\ OpMeans' /\ SuccessIsReal'
<1> DEFINE after == IF op.kind = "raw" THEN (IF Positive(r.code) THEN "ok" ELSE "error")
                    ELSE AfterReply(op, r.code, understood)
           type == TypeAfterReply(op, r.code)
           rest == RestAfterReply(op)
           other == after = "port_pasv" /\ op.state = "port_pasv"
           o == [op EXCEPT !.state = after, !.pasv = (@ # other), !.second = (@ \/ other)]
<1>1. /\ op \in Op /\ op.kind \in {"raw", "transfer"} /\ op.id # None
      /\ lastType \in Types /\ sentRest \in BOOLEAN
  BY DEF Client, IdsAreFresh, Op
<1>2. GoodReply(r) /\ server.busy = None /\ toClient' = <<>>
  BY DEF FinalTurn
<1>3. r.code \in {2, 5} /\ r.id = op.id /\ r.verb = Verb(op)
  BY <1>2 DEF GoodReply, Awaited, Replies
<1>4. type \in Types /\ rest \in BOOLEAN
  BY <1>1, <1>3, ReplyTypes
<1>5. (type # Unknown => server'.type = type) /\ (rest \/ AtLater(0))
  BY <1>1, <1>2, SettingsAfterReply DEF AtOffset, AtLater
<1>6. op.kind = "transfer" =>
         /\ after \in {"ok", "error", "port_pasv", "rest", "transfer", "waitsocket"}
         /\ after = "ok" => /\ op.state \in {"waittransferpre", "waittransfer"}
                            /\ r.code = 2 /\ op.reason = "successful"
         /\ after = "waitsocket" => r.code = 2 /\ op.state \in {"transfer", "waitfinish"}
         /\ after = "port_pasv" => \/ op.state = "type" /\ r.code = 2
                                   \/ op.state = "port_pasv"
         /\ after = "rest" => op.state = "port_pasv"
         /\ after = "transfer" => \/ op.state = "port_pasv" /\ op.offset = 0 /\ ~sentRest
                                  \/ op.state = "rest" /\ (op.offset = 0 \/ r.code = 2)
  BY <1>1, <1>3, AfterFinal
<1>7. op.kind # "transfer" => after \in {"ok", "error"}
  BY <1>1
<1>8. \/ after \in {"ok", "error", "transfer"} /\ EndOperation(type, rest, 0)
      \/ after \in {"ok", "error", "transfer"} /\ NextRawTransfer(type, rest, 0)
      \/ after \in RawStates /\ SendNextCommand(o, type, rest, 0, 0)
  BY DEF ParseOperationReply
<1>9. done' = done \/ (after = "ok" /\ op.kind = "transfer" /\ done' = done \cup {op.id})
  BY DEF ParseOperationReply
<1>10. op.kind = "transfer" /\ after \in RawStates => 
         /\ o \in Op /\ o.kind = "transfer" /\ o.id = op.id /\ o.state = after
         /\ o.binary = op.binary /\ o.offset = op.offset
  <2>1. other \in BOOLEAN
    OBVIOUS
  <2> HIDE DEF other, after
  <2> QED
    BY <1>1, <2>1 DEF Op
<1>11. op.kind = "transfer" =>
         type = IF op.state = "type" /\ r.code = 2 THEN op.binary ELSE lastType
  BY DEF TypeAfterReply, Positive
<1> HIDE DEF after, type, rest, other, o
<1>12. op.kind = "transfer" /\ Verb(op) = "transfer" /\ r.code = 2 => op.id \in confirmed
  BY <1>2, <1>3 DEF GoodReply
<1>13. SuccessIsReal'
  <2>1. CASE done' = done
    BY <2>1 DEF SuccessIsReal
  <2>2. CASE after = "ok" /\ op.kind = "transfer" /\ done' = done \cup {op.id}
    <3>1. op.id \in complete
      BY <1>6, <2>2 DEF OpMeans
    <3>2. op.id \in confirmed
      BY <1>6, <1>12, <2>2 DEF Verb
    <3> QED
      BY <2>2, <3>1, <3>2 DEF SuccessIsReal
  <2> QED
    BY <1>9, <2>1, <2>2
<1>14. CASE EndOperation(type, rest, 0)
  BY <1>2, <1>5, <1>13, <1>14, QuietAfterEnd
<1>15. CASE NextRawTransfer(type, rest, 0)
  BY <1>2, <1>4, <1>5, <1>13, <1>15, QuietAfterNext
<1>16. CASE after \in RawStates /\ SendNextCommand(o, type, rest, 0, 0)
  <2>1. op.kind = "transfer"
    BY <1>7, <1>16 DEF RawStates
  <2>2. o.state \in {"port_pasv", "rest", "transfer"} => type = o.binary
    <3>1. op.state \in {"port_pasv", "rest"} => lastType = op.binary
      BY <2>1 DEF OpMeans
    <3> QED
      BY <1>6, <1>10, <1>11, <1>16, <2>1, <3>1
  <2>3. o.state = "transfer" => AtOffset(o.offset)
    <3>1. /\ op.state = "rest" /\ op.offset = 0 => AtOffset(0)
          /\ op.state = "rest" /\ r.code = 2 => AtOffset(op.offset)
      BY <1>2, <2>1 DEF GoodReply
    <3>2. ~sentRest => AtOffset(0)
      BY DEF Settings
    <3> QED
      BY <1>6, <1>10, <1>16, <2>1, <3>1, <3>2
  <2>4. Ready(o, type, rest)
    BY <1>5, <1>10, <1>16, <2>1, <2>2, <2>3 DEF Ready, AtOffset, AtLater
  <2>5. /\ Turns' /\ Settings' /\ op'.kind = "transfer" /\ op'.id = op.id
        /\ op'.state \in {"port_pasv", "rest"} => lastType' = op'.binary
        /\ op'.state = o.state \/ op'.state \in {"type", "port_pasv"}
    BY <1>1, <1>2, <1>4, <1>10, <1>16, <2>1, <2>4, SendingWhenQuiet
  <2>6. op'.state \in {"port_pasv", "rest", "transfer", "waitsocket", "type"}
    BY <1>6, <1>10, <1>16, <2>1, <2>5 DEF RawStates
  <2>7. op'.state = "waitsocket" => op.id \in confirmed
    BY <1>6, <1>10, <1>12, <1>16, <2>1, <2>5 DEF Verb
  <2>8. OpMeans'
    BY <2>5, <2>6, <2>7 DEF OpMeans
  <2> QED
    BY <1>13, <2>5, <2>8
<1> QED
  BY <1>8, <1>14, <1>15, <1>16

(* The operation takes a preliminary reply.                                *)
LEMMA NewsTakenByOp ==
    ASSUME Client, op.kind # "none", skip = 0, OpMeans, Settings, SuccessIsReal,
           NEW f \in Replies, NewsTurn(f), pending = 1, toServer = <<>>,
           NEW understood \in BOOLEAN, ParseOperationReply(1, 1, understood),
           UNCHANGED <<server, confirmed, complete>>
    PROVE  Turns' /\ Settings' /\ OpMeans' /\ SuccessIsReal'
<1> DEFINE after == IF op.kind = "raw" THEN (IF Positive(1) THEN "ok" ELSE "error")
                    ELSE AfterReply(op, 1, understood)
           type == TypeAfterReply(op, 1)
           rest == RestAfterReply(op)
           other == after = "port_pasv" /\ op.state = "port_pasv"
           o == [op EXCEPT !.state = after, !.pasv = (@ # other), !.second = (@ \/ other)]
<1>1. op \in Op /\ op.kind \in {"raw", "transfer"} /\ sentRest \in BOOLEAN
  BY DEF Client, Op
<1>2. Verb(op) \in {"raw", "transfer"}
  BY DEF NewsTurn, GoodNews, Awaited
<1>3. op.kind = "transfer" => Verb(op) = "transfer" /\ op.state \notin {"type", "port_pasv", "rest"}
  BY <1>2 DEF Verb
<1>4. op.state # "rest"
  BY <1>1, <1>3 DEF OpMeans
<1>5. type = lastType /\ rest = sentRest
  BY <1>1, <1>4 DEF TypeAfterReply, RestAfterReply, Positive
<1>6. op.kind = "transfer" => /\ after \in {"error", "waitfinish", "waittransfer"}
                              /\ after = "waittransfer" => op.state = "waittransferpre"
  BY <1>1, <1>3, AfterPreliminary
<1>7. op.kind # "transfer" => after = "error"
  BY <1>1 DEF Positive
<1>8. \/ after \in {"ok", "error", "transfer"} /\ EndOperation(type, rest, 1)
      \/ after \in {"ok", "error", "transfer"} /\ NextRawTransfer(type, rest, 1)
      \/ after \in RawStates /\ SendNextCommand(o, type, rest, 1, 0)
  BY DEF ParseOperationReply
<1>9. after \notin {"ok", "transfer"} => done' = done
  BY DEF ParseOperationReply
<1>10. op.kind = "transfer" /\ after \in RawStates =>
         /\ o \in Op /\ o.kind = "transfer" /\ o.id = op.id /\ o.state = after
         /\ o.binary = op.binary /\ o.offset = op.offset /\ o.reason = op.reason
  <2>1. other \in BOOLEAN
    OBVIOUS
  <2> HIDE DEF other, after
  <2> QED
    BY <1>1, <2>1 DEF Op
<1> HIDE DEF after, type, rest, other, o
<1>11. SuccessIsReal'
  BY <1>1, <1>6, <1>7, <1>9 DEF SuccessIsReal
<1>12. CASE EndOperation(type, rest, 1)
  <2>1. /\ op' = NoOp /\ pending' = 1 /\ lastType' = lastType /\ sentRest' = sentRest
        /\ toServer' = toServer
    BY <1>5, <1>12 DEF EndOperation
  <2>2. Turns'
    BY <2>1, NoOpType, NewsTaken
  <2> QED
    BY <1>11, <2>1, <2>2, NoOpType DEF Settings, OpMeans, AtOffset
<1>13. CASE NextRawTransfer(type, rest, 1)
  <2>1. PICK n \in Op : /\ n.kind = "transfer" /\ n.id # None /\ n.state = "init"
                        /\ SendNextCommand(n, type, rest, 1, 1)
    BY <1>13, NextTransferOp
  <2>2. /\ op' = n /\ skip' = 1 /\ lastType' = lastType /\ sentRest' = sentRest /\ pending' = 1
        /\ toServer' = toServer
    BY <1>5, <2>1 DEF SendNextCommand
  <2>3. Turns'
    BY <2>2, NewsTaken
  <2> QED
    BY <1>11, <2>1, <2>2, <2>3 DEF Settings, OpMeans, AtOffset
<1>14. CASE after \in RawStates /\ SendNextCommand(o, type, rest, 1, 0)
  <2>1. op.kind = "transfer"
    BY <1>7, <1>14 DEF RawStates
  <2>2. o.state \in {"waitfinish", "waittransfer"}
    BY <1>6, <1>10, <1>14, <2>1 DEF RawStates
  <2>3. Resumed(o, type) = o /\ ~Sends(o) /\ Verb(o) = "transfer"
    BY <1>10, <1>14, <2>1, <2>2 DEF Resumed, Sends, Verb
  <2>4. /\ op' = o /\ skip' = 0 /\ lastType' = lastType /\ sentRest' = sentRest /\ pending' = 1
        /\ toServer' = toServer
    BY <1>5, <1>14, <2>3 DEF SendNextCommand
  <2>5. Turns'
    <3>1. /\ op'.kind = op.kind /\ op'.id = op.id /\ Verb(op') = Verb(op) /\ skip' = skip
          /\ op'.binary = op.binary /\ op'.offset = op.offset
          /\ op'.state \notin {"type", "rest"}
      BY <1>3, <1>10, <1>14, <2>1, <2>2, <2>3, <2>4
    <3> QED
      BY <2>4, <3>1, NewsTaken
  <2>6. OpMeans'
    BY <1>6, <1>10, <1>14, <2>1, <2>2, <2>4 DEF OpMeans
  <2> QED
    BY <1>11, <2>4, <2>5, <2>6 DEF Settings, AtOffset
<1> QED
  BY <1>8, <1>12, <1>13, <1>14

LEMMA ParseOrderly ==
    ASSUME ClientInv, Orderly, ParseResponse
    PROVE  Orderly'
<1>1. toClient # <<>> /\ toClient' = Tail(toClient)
      /\ UNCHANGED <<conn, server, confirmed, complete>>
  BY DEF ParseResponse
<1>2. Client /\ IdsAreFresh
  BY InvHasClient DEF ClientInv
<1>3. conn
  BY <1>1 DEF ClientInv, CountersAgree
<1>4. Turns /\ Settings /\ OpMeans /\ SuccessIsReal
  BY <1>3 DEF Orderly
<1>5. /\ pending = 1 /\ toServer = <<>>
      /\ \/ \E r \in Replies : FinalTurn(r)
         \/ \E f \in Replies : NewsTurn(f)
  BY <1>1, <1>4, NextReply
<1>6. /\ skip \in Nat /\ skip <= 1 /\ (op.kind = "none" => skip = 1)
      /\ op \in Op /\ (op.state # "init" => skip = 0)
      /\ lastType \in Types /\ sentRest \in BOOLEAN
  BY <1>2, <1>5 DEF Client, CountersAgree
<1> SUFFICES Turns' /\ Settings' /\ OpMeans' /\ SuccessIsReal'
  BY DEF Orderly
<1>7. ASSUME NEW r \in Replies, FinalTurn(r)
      PROVE  Turns' /\ Settings' /\ OpMeans' /\ SuccessIsReal'
  <2>1. Head(toClient) = r /\ r.code # 1 /\ toClient' = <<>> /\ server.busy = None
    BY <1>7 DEF FinalTurn, GoodReply
  <2> DEFINE final == Head(toClient).code # 1
             p == IF final THEN pending - 1 ELSE pending
  <2>2. final = TRUE /\ p = 0 /\ pending # 0
    BY <1>5, <2>1
  <2>3. \/ skip > 0 /\ SkipReply(final, p)
        \/ /\ skip = 0 /\ op.kind # "none"
           /\ \E understood \in BOOLEAN : ParseOperationReply(r.code, p, understood)
    BY <1>5, <1>6, <2>1, <2>2 DEF ParseResponse
  <2>4. CASE skip > 0 /\ SkipReply(final, p)
    <3>1. SkipsLeft(final) = 0
      BY <1>6, <2>2, <2>4 DEF SkipsLeft
    <3>2. /\ IF op.kind # "none"
             THEN SendNextCommand(op, lastType, sentRest, 0, 0)
             ELSE pending' = 0 /\ UNCHANGED <<op, lastType, sentRest, toServer>>
          /\ done' = done
      BY <2>2, <2>4, <3>1 DEF SkipReply
    <3>3. SuccessIsReal'
      BY <1>1, <1>4, <3>2 DEF SuccessIsReal
    <3>4. CASE op.kind = "none"
      BY <1>1, <1>4, <1>5, <2>1, <3>2, <3>3, <3>4 DEF Turns, Quiet, Settings, OpMeans, AtOffset
    <3>5. CASE op.kind # "none"
      <4>1. op.kind \in {"raw", "transfer"} /\ op.id # None /\ op.state = "init"
        BY <1>2, <1>6, <2>4, <3>5 DEF IdsAreFresh, Op
      <4>2. Ready(op, lastType, sentRest)
        BY <1>1, <1>4, <4>1 DEF Ready, Settings, AtOffset, AtLater
      <4>3. /\ Turns' /\ Settings'
            /\ op'.kind = "raw" => op'.state = "init"
            /\ op'.kind = "transfer" /\ op'.state \in {"port_pasv", "rest"}
                 => lastType' = op'.binary
            /\ op'.state = op.state \/ op'.state \in {"type", "port_pasv"}
        BY <1>1, <1>5, <1>6, <2>1, <3>2, <3>5, <4>1, <4>2, SendingWhenQuiet
      <4> QED
        BY <3>3, <4>1, <4>3 DEF OpMeans
    <3> QED
      BY <3>4, <3>5
  <2>5. CASE /\ skip = 0 /\ op.kind # "none"
             /\ \E understood \in BOOLEAN : ParseOperationReply(r.code, p, understood)
    BY <1>1, <1>2, <1>4, <1>5, <1>7, <2>2, <2>5, FinalReplyTaken
  <2> QED
    BY <2>3, <2>4, <2>5
<1>8. ASSUME NEW f \in Replies, NewsTurn(f)
      PROVE  Turns' /\ Settings' /\ OpMeans' /\ SuccessIsReal'
  <2>1. Head(toClient) = f /\ f.code = 1
    BY <1>8 DEF NewsTurn, GoodNews
  <2> DEFINE final == Head(toClient).code # 1
             p == IF final THEN pending - 1 ELSE pending
  <2>2. final = FALSE /\ p = 1
    BY <1>5, <2>1
  <2>3. \/ skip > 0 /\ SkipReply(final, p)
        \/ /\ skip = 0 /\ op.kind # "none"
           /\ \E understood \in BOOLEAN : ParseOperationReply(f.code, p, understood)
    BY <1>5, <1>6, <2>1, <2>2 DEF ParseResponse
  <2>4. CASE skip > 0 /\ SkipReply(final, p)
    <3>1. SkipsLeft(final) = skip /\ skip # 0
      BY <1>6, <2>2, <2>4 DEF SkipsLeft
    <3>2. pending' = 1 /\ skip' = skip /\ UNCHANGED <<op, lastType, sentRest, toServer, done>>
      BY <2>2, <2>4, <3>1 DEF SkipReply
    <3>3. Turns'
      BY <1>1, <1>5, <1>8, <3>1, <3>2, NewsTaken
    <3> QED
      BY <1>1, <1>4, <3>2, <3>3 DEF Settings, OpMeans, SuccessIsReal, AtOffset
  <2>5. CASE /\ skip = 0 /\ op.kind # "none"
             /\ \E understood \in BOOLEAN : ParseOperationReply(f.code, p, understood)
    BY <1>1, <1>2, <1>4, <1>5, <1>8, <2>1, <2>2, <2>5, NewsTakenByOp
  <2> QED
    BY <2>3, <2>4, <2>5
<1> QED
  BY <1>5, <1>7, <1>8

LEMMA TransferEndOrderly ==
    ASSUME ClientInv, Orderly, TransferEnd
    PROVE  Orderly'
<1>1. UNCHANGED <<server, confirmed, complete>>
  BY DEF TransferEnd
<1>2. Client /\ DataIsOfOp
  BY InvHasClient DEF ClientInv
<1>3. CASE ~EndExpected
  <2>1. UNCHANGED <<conn, op, skip, pending, lastType, sentRest, toServer, toClient, done>>
    BY <1>3 DEF TransferEnd, client
  <2> QED
    BY <1>1, <2>1, TurnsUnchanged, OrderlyParts DEF Orderly, Settings, AtOffset
<1>4. CASE Close /\ UNCHANGED done
  BY <1>1, <1>4, CloseOrderly DEF Orderly
<1>5. CASE /\ EndExpected /\ op.state # "waitsocket" /\ op' = EndedOp
           /\ UNCHANGED <<conn, pending, skip, lastType, sentRest, data, toServer, toClient, done>>
  <2>1. op.kind = "transfer" /\ op \in Op /\ op.id = data.id
    BY <1>2, <1>5 DEF EndExpected, DataIsOfOp, Client
  <2>2. /\ op'.kind = op.kind /\ op'.id = op.id /\ op'.binary = op.binary
        /\ op'.offset = op.offset
        /\ op'.reason = IF op.reason = "successful" THEN data.reason ELSE op.reason
        /\ op'.state = CASE op.state = "transfer" -> "waittransferpre"
                         [] op.state = "waitfinish" -> "waittransfer"
                         [] OTHER -> op.state
    BY <1>5, <2>1 DEF EndedOp, Op
  <2>3. \/ op'.state = op.state
        \/ op.state \in {"transfer", "waitfinish"} /\ op'.state \in {"waittransferpre", "waittransfer"}
    BY <2>2
  <2>4. Verb(op') = Verb(op)
    BY <2>1, <2>2, <2>3 DEF Verb
  <2>5. conn => Turns'
    BY <1>1, <1>5, <2>2, <2>3, <2>4, TurnsSameVerb DEF Orderly
  <2>6. op'.reason = "successful" => op.id \in complete
    BY <1>2, <2>1, <2>2 DEF DataIsOfOp, EndExpected
  <2>7. OpMeans'
    BY <1>1, <1>5, <2>1, <2>2, <2>3, <2>6 DEF OpMeans, Orderly
  <2> QED
    BY <1>1, <1>5, <2>5, <2>7 DEF Orderly, Settings, SuccessIsReal, AtOffset
<1>6. CASE /\ EndExpected /\ op.state = "waitsocket"
           /\ done' = IF data.reason = "successful" THEN done \cup {op.id} ELSE done
           /\ \/ EndOperation(lastType, sentRest, pending)
              \/ NextRawTransfer(lastType, sentRest, pending)
           /\ UNCHANGED <<conn, toClient>>
  <2>1. op.kind = "transfer" /\ op.id = data.id
    BY <1>2, <1>6 DEF EndExpected, DataIsOfOp
  <2>2. conn
    BY <1>2, <1>6 DEF Client, CountersAgree
  <2>3. Turns /\ Settings /\ OpMeans /\ SuccessIsReal
    BY <2>2 DEF Orderly
  <2>4. SuccessIsReal'
    <3>1. op.id \in confirmed /\ (data.reason = "successful" => op.id \in complete)
      BY <1>2, <1>6, <2>1, <2>3 DEF OpMeans, DataIsOfOp
    <3> QED
      BY <1>1, <1>6, <2>3, <3>1 DEF SuccessIsReal
  <2>5. CASE EndOperation(lastType, sentRest, pending)
    BY <1>1, <1>6, <2>3, <2>4, <2>5, EndingOrderly DEF Orderly
  <2>6. CASE NextRawTransfer(lastType, sentRest, pending)
    <3>1. PICK o \in Op : /\ o.kind = "transfer" /\ o.id # None /\ o.state = "init"
                          /\ SendNextCommand(o, lastType, sentRest, pending, pending)
      BY <1>2, <2>1, <2>6, NextTransferOp
    <3>2. Turns' /\ Settings' /\ OpMeans'
      BY <1>1, <1>2, <1>6, <2>3, <3>1, StartingOrderly DEF Client
    <3> QED
      BY <2>4, <3>2 DEF Orderly
  <2> QED
    BY <1>6, <2>5, <2>6
<1> QED
  BY <1>3, <1>4, <1>5, <1>6 DEF TransferEnd

-----------------------------------------------------------------------------
LEMMA InvNext == Inv /\ [Next]_vars => Inv'
<1> SUFFICES ASSUME ClientInv, stray = 0 => Orderly, [Next]_vars
             PROVE  Inv'
  BY DEF Inv
<1>1. ClientInv'
  BY ClientInvNext
<1> SUFFICES ASSUME stray' = 0
             PROVE  Orderly'
  BY <1>1 DEF Inv
<1>2. stray = 0 /\ ~ServerSpeaksUnasked
  <2>1. stray \in Nat
    BY FtpBounds DEF ClientInv, TypeOK
  <2>2. ~ServerSpeaksUnasked
    BY <2>1 DEF ServerSpeaksUnasked
  <2>3. stray' = stray
    BY <2>2 DEF Next, EventLoop, Server, Execute, Cancel, OnCommandEvent, OnDataEvent,
                TransferEnd, ParseResponse, LoggedIn, Closed, OnIdleTimer, DataEvent,
                ServerHandles, ServerStarts, ServerFinishes, counts, vars
  <2> QED
    BY <2>2, <2>3
<1>3. Orderly
  BY <1>2
<1>4. CASE UNCHANGED vars
  BY <1>3, <1>4, TurnsUnchanged, OrderlyParts DEF Orderly, Settings, vars, client, AtOffset
<1> QED
  BY <1>2, <1>3, <1>4, ExecuteOrderly, CancelOrderly, CommandEventOrderly, OnDataEventOrderly,
     TransferEndOrderly, ParseOrderly, LoggedInOrderly, ClosedOrderly, IdleTimerOrderly,
     DataEventOrderly, ServerHandlesOrderly, ServerStartsOrderly, ServerFinishesOrderly
     DEF Next, EventLoop, Server

LEMMA InvHolds == Spec => []Inv
<1>1. Init => Inv
  <2>1. Init => Orderly
    BY NoOpType DEF Init, Orderly, OpMeans, SuccessIsReal
  <2> QED
    BY <2>1, ClientInvInit DEF Inv
<1> QED
  BY <1>1, InvNext, PTL DEF Spec

(* As long as the server sends nothing unasked, a reply is never taken for *)
(* the reply to another command, however many operations were cancelled,   *)
(* repeated or skipped before it.                                          *)
THEOREM RepliesStayMatched == Spec => [](stray = 0 => RepliesMatch)
<1>1. Inv => (stray = 0 => RepliesMatch)
  <2> SUFFICES ASSUME ClientInv, Orderly, toClient # <<>>, skip = 0, op.kind # "none"
               PROVE  /\ pending > 0
                      /\ Head(toClient).id = op.id /\ Head(toClient).verb = Verb(op)
    BY DEF Inv, RepliesMatch
  <2>1. conn
    BY DEF ClientInv, CountersAgree
  <2>2. CASE Answered
    <3>1. PICK r \in Replies :
            /\ GoodReply(r)
            /\ toClient = <<r>> \/ \E f \in Replies : GoodNews(f) /\ toClient = <<f, r>>
      BY <2>2 DEF Answered
    <3>2. CASE toClient = <<r>>
      BY <2>2, <3>1, <3>2 DEF Answered, GoodReply, Awaited
    <3>3. CASE \E f \in Replies : GoodNews(f) /\ toClient = <<f, r>>
      <4>1. PICK f \in Replies : GoodNews(f) /\ toClient = <<f, r>>
        BY <3>3
      <4>2. Head(toClient) = f
        BY <4>1, Pairs
      <4> QED
        BY <2>2, <4>1, <4>2 DEF Answered, GoodNews, Awaited
    <3> QED
      BY <3>1, <3>2, <3>3
  <2>3. CASE Working
    BY <2>3 DEF Working, GoodNews, Awaited
  <2> QED
    BY <2>1, <2>2, <2>3 DEF Orderly, Turns, Quiet, Asked
<1> QED
  BY <1>1, InvHolds, PTL

(* A transfer command finds the type and the restart offset that its       *)
(* operation asked for, although TYPE and REST are often left out; the     *)
(* offset may also be one that a raw command has set.                      *)
THEOREM SessionIsAsExpected == Spec => [](stray = 0 => RightTypeAndOffset)
<1>1. Inv => (stray = 0 => RightTypeAndOffset)
  <2> SUFFICES ASSUME ClientInv, Orderly, toServer # <<>>, Head(toServer).verb = "transfer"
               PROVE  /\ server.type = Head(toServer).binary
                      /\ AtOffset(Head(toServer).offset)
    BY DEF Inv, RightTypeAndOffset
  <2>1. conn
    BY DEF ClientInv, CountersAgree
  <2>2. Asked
    BY <2>1 DEF Orderly, Turns, Quiet, Answered, Working
  <2> QED
    BY <2>2 DEF Asked, GoodRequest
<1> QED
  BY <1>1, InvHolds, PTL

(* A transfer that the client takes for successful was confirmed by the    *)
(* server and its data connection ended well.                              *)
THEOREM SuccessIsNotFeigned == Spec => [](stray = 0 => SuccessIsReal)
<1>1. Inv => (stray = 0 => SuccessIsReal)
  BY DEF Inv, Orderly
<1> QED
  BY <1>1, InvHolds, PTL
=============================================================================
