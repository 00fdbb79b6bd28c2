----------------------------- MODULE FtpTransfer -----------------------------
(***************************************************************************)
(* Commands and transfers on an FTP connection: the control socket's       *)
(* accounting of replies (engine/ftp/ftpcontrolsocket.cpp), the raw        *)
(* transfer operation (ftp/rawtransfer.cpp) and the end of the data        *)
(* connection (ftp/transfersocket.cpp).                                    *)
(*                                                                         *)
(* FTP does not number its replies.  The client counts the ones it expects *)
(* and, when an operation ends early, skips those that are still to come.  *)
(* A transfer ends when both the final reply and the end of the data       *)
(* connection have been seen, in either order; the latter is an event in   *)
(* the queue of the event loop, where it may outlive its transfer.         *)
(*                                                                         *)
(* An operation is either a single command ("raw") or a transfer, which a  *)
(* listing or a file transfer may repeat; its transfer socket exists from  *)
(* the start, though it is not used before the first reply.  Logging in is *)
(* one step, listening sockets can always be opened, and keep-alive is on. *)
(* The server handles commands in order.                                   *)
(***************************************************************************)
EXTENDS Integers, Sequences

CONSTANTS
    Modes,          \* passive mode (TRUE), active mode (FALSE) or both
    Fallback,       \* OPTION_ALLOW_TRANSFERMODEFALLBACK
    MaxOps,         \* bound: raw commands and raw transfers
    MaxKeepalives,  \* bound: keep-alive commands
    MaxStray        \* bound: replies that the server sends unasked

ASSUME FtpBounds ==
    /\ Modes \subseteq BOOLEAN /\ Fallback \in BOOLEAN
    /\ MaxOps \in Nat /\ MaxKeepalives \in Nat /\ MaxStray \in Nat

VARIABLES
    conn,       \* logged in
    op,         \* the operation on top of operations_
    pending,    \* m_pendingReplies
    skip,       \* m_repliesToSkip
    lastType,   \* m_lastTypeBinary
    sentRest,   \* m_sentRestartOffset
    idleTimer,  \* m_idleTimer runs
    data,       \* m_pTransferSocket
    queue,      \* events in the event loop
    toServer,   \* commands the server has not handled yet
    toClient,   \* replies the client has not handled yet
    server,     \* TYPE and REST of the session (manual: the latter was set by
                \* a raw command), the transfer under way
    issued,     \* number of raw commands and raw transfers
    keepalives, \* number of keep-alive commands
    stray,      \* number of unasked replies
    confirmed,  \* transfers that the server has confirmed
    complete,   \* transfers whose data connection ended successfully
    done        \* transfers that the client takes for successful

client == <<conn, op, pending, skip, lastType, sentRest, idleTimer, data>>
counts == <<issued, keepalives, stray>>
vars == <<client, queue, toServer, toClient, server, counts, confirmed, complete, done>>

None == 0
Unknown == -1  \* m_lastTypeBinary before the server has confirmed a type

RawStates == {"init", "type", "port_pasv", "rest", "transfer", "waitfinish",
              "waittransferpre", "waittransfer", "waitsocket"}

Reasons == {"successful", "failure", "failed_tls_resumption"}

NoOp == [kind |-> "none", id |-> None, state |-> "init", binary |-> 0, offset |-> 0,
         pasv |-> TRUE, second |-> FALSE, reason |-> "successful", more |-> FALSE]

NoData == [id |-> None, reason |-> "none"]

NewSession == [type |-> 0, rest |-> 0, manual |-> FALSE, busy |-> None]

NewOp(kind, id, binary, offset, pasv, more) ==
    [NoOp EXCEPT !.kind = kind, !.id = id, !.binary = binary, !.offset = offset,
                 !.pasv = pasv, !.more = more]

-----------------------------------------------------------------------------
(* SendNextCommand.                                                        *)

(* The state in which Send really sends: rawtransfer_init goes on at once. *)
Resumed(o, type) ==
    IF o.kind = "transfer" /\ o.state = "init"
    THEN [o EXCEPT !.state = IF o.binary = type THEN "port_pasv" ELSE "type"]
    ELSE o

(* What the operation sends in its state.                                  *)
Verb(o) ==
    IF o.kind = "raw" THEN "raw"
    ELSE IF o.state \in {"type", "port_pasv", "rest"} THEN o.state
    ELSE "transfer"

Sends(o) ==
    o.kind = "raw" \/ o.state \in {"type", "port_pasv", "rest", "transfer"}

Request(id, verb, binary, offset) ==
    [id |-> id, verb |-> verb, binary |-> binary, offset |-> offset]

(* The operation o continues with m_lastTypeBinary and m_sentRestartOffset *)
(* as given, p replies pending and k of them to skip.                      *)
SendNextCommand(o, type, rest, p, k) ==
    LET n == Resumed(o, type)
    IN  /\ skip' = k
        /\ \/ /\ k > 0
              /\ op' = o /\ lastType' = type /\ sentRest' = rest /\ pending' = p
              /\ UNCHANGED toServer
           \/ /\ k = 0 /\ Sends(n)
              /\ op' = n
              /\ lastType' = IF Verb(n) \in {"type", "raw"} THEN Unknown ELSE type
              /\ sentRest' = (rest \/ (Verb(n) = "rest" /\ n.offset > 0))
              /\ pending' = p + 1
              /\ toServer' = Append(toServer, Request(n.id, Verb(n), n.binary, n.offset))
           \/ /\ k = 0 /\ ~Sends(n)
              /\ op' = n /\ lastType' = type /\ sentRest' = rest /\ pending' = p
              /\ UNCHANGED toServer

(* mutant: the one-shot timer is taken to run still *)
StartKeepaliveTimerOnce(p) == idleTimer' = idleTimer

(* StartKeepaliveTimer, within half an hour of the last command            *)
StartKeepaliveTimer(p) == idleTimer' = (idleTimer \/ p = 0)

(* mutant: the replies to come are not skipped *)
EndOperationWithoutSkipping(type, rest, p) ==
    /\ op' = NoOp /\ data' = NoData
    /\ pending' = p /\ skip' = 0
    /\ lastType' = type /\ sentRest' = rest
    /\ StartKeepaliveTimer(p)
    /\ UNCHANGED <<toServer, issued>>

(* ResetOperation, when it ends the command                                *)
EndOperation(type, rest, p) ==
    /\ op' = NoOp /\ data' = NoData
    /\ pending' = p /\ skip' = p
    /\ lastType' = type /\ sentRest' = rest
    /\ StartKeepaliveTimer(p)
    /\ UNCHANGED <<toServer, issued>>

(* ResetOperation, when a listing or a file transfer goes on with another  *)
(* raw transfer: LIST -a after LIST, a transfer after a resume test or a   *)
(* listing, even one that failed.  The new transfer socket is created in   *)
(* the same event.                                                         *)
NextRawTransfer(type, rest, p) ==
    /\ op.more /\ issued < MaxOps
    /\ issued' = issued + 1
    /\ data' = [id |-> issued + 1, reason |-> "none"]
    /\ StartKeepaliveTimer(p)
    /\ \E binary \in 0 .. 1, offset \in 0 .. 1, more \in BOOLEAN :
           SendNextCommand(NewOp("transfer", issued + 1, binary, offset, op.pasv, more),
                           type, rest, p, p)

(* DoClose                                                                 *)
Close ==
    /\ conn' = FALSE
    /\ op' = NoOp /\ data' = NoData
    /\ pending' = 0 /\ skip' = 0
    /\ idleTimer' = FALSE
    /\ toServer' = <<>> /\ toClient' = <<>>
    /\ UNCHANGED <<lastType, sentRest, issued>>

-----------------------------------------------------------------------------
(* ParseResponse                                                           *)

Positive(code) == code = 2

(* mutant: a positive final reply ends the transfer *)
AwaitDataNot(code) == IF Positive(code) THEN "ok" ELSE "error"

(* The final reply came before the end of the data connection.             *)
AwaitData(code) == IF Positive(code) THEN "waitsocket" ELSE "error"

(* The data connection had ended before the final reply.                   *)
Conclude(o, code) ==
    IF Positive(code) /\ o.reason = "successful" THEN "ok" ELSE "error"

(* CFtpRawTransferOpData::ParseResponse: the next state, or how it ends.   *)
(* A reply to PASV may not be understood; it is tried in the other mode if *)
(* that is allowed and has not been tried.                                 *)
AfterReply(o, code, understood) ==
    CASE o.state = "type"      -> IF Positive(code) THEN "port_pasv" ELSE "error"
      [] o.state = "port_pasv" -> IF Positive(code) /\ understood
                                  THEN IF o.offset > 0 \/ sentRest THEN "rest" ELSE "transfer"
                                  ELSE IF Fallback /\ ~o.second THEN "port_pasv" ELSE "error"
      [] o.state = "rest"      -> IF o.offset > 0 /\ ~Positive(code) THEN "error" ELSE "transfer"
      [] o.state = "transfer"  -> IF code = 1 THEN "waitfinish" ELSE AwaitData(code)
      [] o.state = "waitfinish" -> AwaitData(code)
      [] o.state = "waittransferpre" -> IF code = 1 THEN "waittransfer" ELSE Conclude(o, code)
      [] o.state = "waittransfer" -> Conclude(o, code)
      [] OTHER                 -> "error"

TypeAfterReply(o, code) ==
    IF o.kind = "transfer" /\ o.state = "type" /\ Positive(code) THEN o.binary ELSE lastType

(* mutant: m_sentRestartOffset is cleared by every REST *)
RestAfterReplyAlways(o) == sentRest /\ o.state # "rest"

RestAfterReply(o) == sentRest /\ ~(o.state = "rest" /\ o.offset = 0)

(* The reply is for the current operation.                                 *)
ParseOperationReply(code, p, understood) ==
    LET after == IF op.kind = "raw" THEN (IF Positive(code) THEN "ok" ELSE "error")
                 ELSE AfterReply(op, code, understood)
        type == TypeAfterReply(op, code)
        rest == RestAfterReply(op)
        other == after = "port_pasv" /\ op.state = "port_pasv"
    IN  \/ /\ after = "ok"
           /\ done' = IF op.kind = "transfer" THEN done \cup {op.id} ELSE done
           /\ \/ EndOperation(type, rest, p)
              \/ NextRawTransfer(type, rest, p)
        \/ /\ after = "error"
           /\ UNCHANGED done
           /\ \/ EndOperation(type, rest, p)
              \/ NextRawTransfer(type, rest, p)
        \/ /\ after \in RawStates
           /\ SendNextCommand([op EXCEPT !.state = after, !.pasv = (@ # other),
                                         !.second = (@ \/ other)], type, rest, p, 0)
           /\ UNCHANGED <<data, idleTimer, issued, done>>
        \/ \* SetupPassiveTransfer fails
           /\ after = "transfer" /\ op.pasv
           /\ UNCHANGED done
           /\ \/ EndOperation(type, rest, p)
              \/ NextRawTransfer(type, rest, p)

SkipsLeft(final) == IF final THEN skip - 1 ELSE skip

(* A reply to an operation that has ended, or to a keep-alive command.     *)
SkipReply(final, p) ==
    LET k == SkipsLeft(final)
    IN  /\ IF k = 0 /\ op.kind # "none" /\ p = 0
           THEN SendNextCommand(op, lastType, sentRest, p, k)
           ELSE /\ pending' = p /\ skip' = k
                /\ UNCHANGED <<op, lastType, sentRest, toServer>>
        /\ IF k = 0 /\ op.kind = "none" THEN StartKeepaliveTimer(p) ELSE UNCHANGED idleTimer
        /\ UNCHANGED <<data, issued, done>>

ParseResponse ==
    /\ toClient # <<>>
    /\ toClient' = Tail(toClient)
    /\ LET final == Head(toClient).code # 1
           p == IF final THEN pending - 1 ELSE pending
       IN  \/ /\ final /\ pending = 0
              /\ UNCHANGED <<op, pending, skip, lastType, sentRest, idleTimer, data, toServer,
                             issued, done>>
           \/ /\ ~final \/ pending > 0
              /\ skip > 0
              /\ SkipReply(final, p)
           \/ /\ ~final \/ pending > 0
              /\ skip = 0 /\ op.kind = "none"
              /\ pending' = p
              /\ UNCHANGED <<op, skip, lastType, sentRest, idleTimer, data, toServer, issued,
                             done>>
           \/ /\ ~final \/ pending > 0
              /\ skip = 0 /\ op.kind # "none"
              /\ \E understood \in BOOLEAN :
                     /\ understood \/ (op.kind = "transfer" /\ op.state = "port_pasv" /\ op.pasv)
                     /\ ParseOperationReply(Head(toClient).code, p, understood)
    /\ UNCHANGED <<conn, queue, server, keepalives, stray, confirmed, complete>>

-----------------------------------------------------------------------------
(* Commands, cancellation, keep-alive and the loss of the connection.      *)

CommandQueued == \E i \in DOMAIN queue : queue[i].type = "command"

(* The owner executes a command once the last one has ended.               *)
Execute ==
    /\ op.kind = "none" /\ ~CommandQueued
    /\ issued < MaxOps
    /\ queue' = Append(queue, [type |-> "command", id |-> None, reason |-> "none"])
    /\ UNCHANGED <<client, toServer, toClient, server, counts, confirmed, complete, done>>

(* The transfer socket is created before the raw transfer is pushed.  If   *)
(* the connection is lost, the operation has to wait for a new login.      *)
OnCommandEvent ==
    /\ queue # <<>> /\ Head(queue).type = "command"
    /\ queue' = Tail(queue)
    /\ issued' = issued + 1
    /\ \E kind \in {"raw", "transfer"}, binary \in 0 .. 1, offset \in 0 .. 1,
          pasv \in Modes, more \in BOOLEAN :
           LET o == NewOp(kind, issued + 1, binary, offset, pasv, more)
           IN  /\ kind = "raw" => ~more /\ binary = 0 /\ offset = 0 /\ pasv
               /\ IF conn
                  THEN /\ SendNextCommand(o, lastType, sentRest, pending, skip)
                       /\ data' = IF kind = "transfer"
                                  THEN [id |-> issued + 1, reason |-> "none"] ELSE NoData
                  ELSE /\ op' = o
                       /\ UNCHANGED <<pending, skip, lastType, sentRest, toServer, data>>
    /\ UNCHANGED <<conn, idleTimer, toClient, server, keepalives, stray, confirmed, complete,
                   done>>

(* The login that precedes an operation succeeds.                          *)
LoggedIn ==
    /\ ~conn /\ op.kind # "none"
    /\ conn' = TRUE
    /\ server' = NewSession
    /\ SendNextCommand(op, Unknown, FALSE, 0, 0)
    /\ data' = IF op.kind = "transfer" THEN [id |-> op.id, reason |-> "none"] ELSE NoData
    /\ idleTimer' = TRUE
    /\ UNCHANGED <<queue, toClient, counts, confirmed, complete, done>>

(* A login that fails, a timeout, an error of the socket or the server     *)
(* closing the connection.                                                 *)
Closed ==
    /\ conn \/ op.kind # "none"
    /\ Close
    /\ UNCHANGED <<queue, server, keepalives, stray, confirmed, complete, done>>

Cancel ==
    /\ op.kind # "none" /\ conn
    /\ EndOperation(lastType, sentRest, pending)
    /\ UNCHANGED <<conn, queue, toClient, server, keepalives, stray, confirmed, complete, done>>

(* OnTimer: NOOP, PWD or the TYPE that the session should have already.    *)
OnIdleTimer ==
    /\ idleTimer
    /\ idleTimer' = FALSE
    /\ IF op.kind = "none" /\ pending = 0 /\ skip = 0
       THEN /\ keepalives < MaxKeepalives
            /\ keepalives' = keepalives + 1
            /\ pending' = pending + 1 /\ skip' = skip + 1
            /\ \E type \in BOOLEAN :
                   toServer' = Append(toServer,
                       Request(None, IF type THEN "type" ELSE "noop",
                               IF lastType # 0 THEN 1 ELSE 0, 0))
       ELSE UNCHANGED <<keepalives, pending, skip, toServer>>
    /\ UNCHANGED <<conn, op, lastType, sentRest, data, queue, toClient, server, issued, stray,
                   confirmed, complete, done>>

-----------------------------------------------------------------------------
(* The data connection.                                                    *)

(* The transfer socket waits for a connection from PORT on, also when      *)
(* passive mode is tried after it, or connects itself when the transfer    *)
(* command is sent.                                                        *)
CommandSent(o) == o.state \notin {"init", "type", "port_pasv", "rest"}
Listens(o) == (~o.pasv \/ o.second) /\ o.state \in {"port_pasv", "rest"}
Armed(o) == CommandSent(o) \/ Listens(o)

(* The network: the event by which the transfer socket will notice its end *)
DataEvent(reason) ==
    /\ data.id # None /\ data.reason = "none"
    /\ skip = 0 /\ Armed(op)
    /\ reason = "failure" \/ CommandSent(op)
    /\ \A i \in DOMAIN queue : ~(queue[i].type = "data" /\ queue[i].id = data.id)
    /\ queue' = Append(queue, [type |-> "data", id |-> data.id, reason |-> reason])
    /\ UNCHANGED <<client, toServer, toClient, server, counts, confirmed, complete, done>>

(* CTransferSocket::TransferEnd, in the handler of that event.  The events *)
(* of a transfer socket that was destroyed are not delivered.              *)
OnDataEvent ==
    /\ queue # <<>> /\ Head(queue).type = "data"
    /\ IF data.id = Head(queue).id
       THEN /\ data' = [data EXCEPT !.reason = Head(queue).reason]
            /\ queue' = Append(Tail(queue),
                               [type |-> "end", id |-> data.id, reason |-> "none"])
            /\ complete' = IF Head(queue).reason = "successful"
                           THEN complete \cup {data.id} ELSE complete
       ELSE /\ queue' = Tail(queue)
            /\ UNCHANGED <<data, complete>>
    /\ UNCHANGED <<conn, op, pending, skip, lastType, sentRest, idleTimer, toServer, toClient,
                   server, counts, confirmed, done>>

(* mutant: the reason of the transfer socket is not looked at *)
EndExpectedOfAny == op.kind = "transfer" /\ data.id # None

(* TransferEnd ignores events of earlier transfers.                        *)
EndExpected == op.kind = "transfer" /\ data.id # None /\ data.reason # "none"

(* mutant: the end of the data connection before the preliminary reply is *)
(* not remembered *)
EndedOpEarly ==
    [op EXCEPT !.reason = IF @ = "successful" THEN data.reason ELSE @,
               !.state = IF @ = "waitfinish" THEN "waittransfer" ELSE @]

EndedOp ==
    [op EXCEPT !.reason = IF @ = "successful" THEN data.reason ELSE @,
               !.state = CASE @ = "transfer" -> "waittransferpre"
                           [] @ = "waitfinish" -> "waittransfer"
                           [] OTHER -> @]

(* CFtpControlSocket::TransferEnd                                          *)
TransferEnd ==
    /\ queue # <<>> /\ Head(queue).type = "end"
    /\ queue' = Tail(queue)
    /\ \/ /\ ~EndExpected
          /\ UNCHANGED <<client, toServer, toClient, issued, done>>
       \/ /\ EndExpected /\ data.reason = "failed_tls_resumption"
          /\ Close
          /\ UNCHANGED done
       \/ /\ EndExpected /\ data.reason # "failed_tls_resumption" /\ op.state # "waitsocket"
          /\ op' = EndedOp
          /\ UNCHANGED <<conn, pending, skip, lastType, sentRest, idleTimer, data, toServer,
                         toClient, issued, done>>
       \/ /\ EndExpected /\ data.reason # "failed_tls_resumption" /\ op.state = "waitsocket"
          /\ done' = IF data.reason = "successful" THEN done \cup {op.id} ELSE done
          /\ \/ EndOperation(lastType, sentRest, pending)
             \/ NextRawTransfer(lastType, sentRest, pending)
          /\ UNCHANGED <<conn, toClient>>
    /\ UNCHANGED <<server, keepalives, stray, confirmed, complete>>

-----------------------------------------------------------------------------
(* The server.                                                             *)

Reply(id, verb, code) == [id |-> id, verb |-> verb, code |-> code]

(* The session after command c; a raw command may be TYPE or REST.         *)
SessionAfter(c, code, type, rest) ==
    CASE c.verb = "type" /\ code = 2 -> [server EXCEPT !.type = c.binary]
      [] c.verb = "rest" /\ code = 2 -> [server EXCEPT !.rest = c.offset, !.manual = FALSE]
      [] c.verb = "raw" ->
             [server EXCEPT !.type = type, !.rest = rest,
                            !.manual = rest # 0 /\ (@ \/ rest # server.rest)]
      [] OTHER -> server

(* A command other than a transfer; a raw command may be announced by a    *)
(* preliminary reply.  REST is accepted whenever it was accepted before.   *)
ServerHandles ==
    /\ toServer # <<>> /\ server.busy = None
    /\ toServer' = Tail(toServer)
    /\ LET c == Head(toServer)
       IN  /\ c.verb # "transfer"
           /\ \E code \in {2, 5}, early \in BOOLEAN, type \in 0 .. 1, rest \in 0 .. 1 :
                /\ early => c.verb = "raw"
                /\ c.verb = "raw" \/ (type = 0 /\ rest = 0)
                /\ (c.verb = "rest" /\ code = 5) => server.rest = 0
                /\ toClient' = toClient \o (IF early THEN <<Reply(c.id, c.verb, 1)>> ELSE <<>>)
                                 \o <<Reply(c.id, c.verb, code)>>
                /\ server' = SessionAfter(c, code, type, rest)
    /\ UNCHANGED <<client, queue, counts, confirmed, complete, done>>

(* The transfer command: it is announced, refused or, by a few servers,    *)
(* confirmed at once.  The restart offset is forgotten or not.             *)
ServerStarts ==
    /\ toServer # <<>> /\ server.busy = None
    /\ Head(toServer).verb = "transfer"
    /\ toServer' = Tail(toServer)
    /\ \E code \in {1, 2, 5}, rest \in {0, server.rest} :
         /\ toClient' = Append(toClient, Reply(Head(toServer).id, "transfer", code))
         /\ server' = [server EXCEPT !.rest = rest, !.manual = @ /\ rest # 0,
                                     !.busy = IF code = 1 THEN Head(toServer).id ELSE None]
         /\ confirmed' = IF code = 2 THEN confirmed \cup {Head(toServer).id} ELSE confirmed
    /\ UNCHANGED <<client, queue, counts, complete, done>>

ServerFinishes ==
    /\ server.busy # None /\ conn
    /\ \E code \in {2, 5} :
         /\ toClient' = Append(toClient, Reply(server.busy, "transfer", code))
         /\ confirmed' = IF code = 2 THEN confirmed \cup {server.busy} ELSE confirmed
    /\ server' = [server EXCEPT !.busy = None]
    /\ UNCHANGED <<client, queue, toServer, counts, complete, done>>

ServerSpeaksUnasked ==
    /\ conn /\ stray < MaxStray
    /\ stray' = stray + 1
    /\ toClient' = Append(toClient, Reply(None, "stray", 5))
    /\ UNCHANGED <<client, queue, toServer, server, issued, keepalives, confirmed, complete,
                   done>>

-----------------------------------------------------------------------------
Init ==
    /\ conn = FALSE /\ op = NoOp /\ pending = 0 /\ skip = 0
    /\ lastType = Unknown /\ sentRest = FALSE /\ idleTimer = FALSE /\ data = NoData
    /\ queue = <<>> /\ toServer = <<>> /\ toClient = <<>> /\ server = NewSession
    /\ issued = 0 /\ keepalives = 0 /\ stray = 0
    /\ confirmed = {} /\ complete = {} /\ done = {}

EventLoop == OnCommandEvent \/ OnDataEvent \/ TransferEnd

Server == ServerHandles \/ ServerStarts \/ ServerFinishes

Next ==
    \/ Execute \/ Cancel \/ EventLoop \/ ParseResponse \/ LoggedIn \/ Closed \/ OnIdleTimer
    \/ \E reason \in Reasons : DataEvent(reason)
    \/ Server \/ ServerSpeaksUnasked

Spec == Init /\ [][Next]_vars

(* Events are delivered, the server replies, data connections end and      *)
(* logins succeed.  No timeout is needed.                                  *)
FairSpec ==
    /\ Spec
    /\ WF_vars(EventLoop) /\ WF_vars(ParseResponse) /\ WF_vars(LoggedIn) /\ WF_vars(Server)
    /\ WF_vars(\E reason \in Reasons : DataEvent(reason))

-----------------------------------------------------------------------------
Ids == 0 .. MaxOps

Op == [kind : {"none", "raw", "transfer"}, id : Ids, state : RawStates, binary : 0 .. 1,
       offset : 0 .. 1, pasv : BOOLEAN, second : BOOLEAN, reason : Reasons, more : BOOLEAN]

Verbs == {"raw", "type", "port_pasv", "rest", "transfer", "noop"}

(* Types: in particular the reason of an operation is that of a data       *)
(* connection that has ended.                                              *)
TypeOK ==
    /\ conn \in BOOLEAN /\ op \in Op
    /\ pending \in Nat /\ skip \in Nat
    /\ lastType \in {Unknown, 0, 1} /\ sentRest \in BOOLEAN /\ idleTimer \in BOOLEAN
    /\ data \in [id : Ids, reason : Reasons \cup {"none"}]
    /\ queue \in Seq([type : {"command", "data", "end"}, id : Ids, reason : Reasons \cup {"none"}])
    /\ toServer \in Seq([id : Ids, verb : Verbs, binary : 0 .. 1, offset : 0 .. 1])
    /\ toClient \in Seq([id : Ids, verb : Verbs \cup {"stray"}, code : {1, 2, 5}])
    /\ server \in [type : 0 .. 1, rest : 0 .. 1, manual : BOOLEAN, busy : Ids]
    /\ issued \in Ids /\ keepalives \in 0 .. MaxKeepalives /\ stray \in 0 .. MaxStray
    /\ confirmed \subseteq Ids /\ complete \subseteq Ids /\ done \subseteq Ids

(* A reply is never taken for the reply to another command: after cancels, *)
(* repeats, failures and keep-alives, what ParseResponse hands to the      *)
(* operation answers the command that the operation waits for.             *)
RepliesMatch ==
    toClient # <<>> /\ skip = 0 /\ op.kind # "none" =>
        /\ pending > 0
        /\ Head(toClient).id = op.id /\ Head(toClient).verb = Verb(op)

AtOffset(n) == server.manual \/ server.rest = n

(* A transfer command finds the session in the type and at the restart     *)
(* offset that the operation asked for, although TYPE and REST are left    *)
(* out whenever they seem unnecessary and survive cancelled operations.    *)
(* The exception is an offset that the user set by a raw REST: raw         *)
(* commands make the client forget the type only, so that it stays in      *)
(* force until a transfer sends REST again.                                *)
RightTypeAndOffset ==
    toServer # <<>> /\ Head(toServer).verb = "transfer" =>
        /\ server.type = Head(toServer).binary
        /\ AtOffset(Head(toServer).offset)

(* A transfer that the client takes for successful was confirmed by the    *)
(* server, and its own data connection ended well, whichever came first.   *)
SuccessIsReal == done \subseteq confirmed \cap complete

(* The comment in TransferEnd: a late TransferEndEvent of an earlier       *)
(* transfer does "not cause problems".                                     *)
EndIsOfThisTransfer ==
    [][TransferEnd /\ (op' # op \/ done' # done) => Head(queue).id = data.id]_vars

(* However operations are cancelled and whatever the server sends unasked, *)
(* the client skips only replies that are due, and an idle connection is   *)
(* kept alive: the timer runs or a reply is due that starts it again.      *)
RepliesAreCounted ==
    /\ skip <= pending
    /\ conn /\ op.kind = "none" => idleTimer \/ pending > 0

(* In passive mode every operation ends without the help of the timeout,   *)
(* unless the server has sent a reply that nobody asked for.               *)
OperationsEnd == op.kind # "none" ~> (op.kind = "none" \/ stray > 0)
=============================================================================
