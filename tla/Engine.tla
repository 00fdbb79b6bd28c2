------------------------------- MODULE Engine -------------------------------
(***************************************************************************)
(* Command execution in one engine (engine/engineprivate.cpp, with the     *)
(* parts of engine/controlsocket.cpp that it drives).                      *)
(*                                                                         *)
(* The thread that owns the engine calls Execute, Cancel and               *)
(* SetAsyncRequestReply; each only checks the state under mutex_ and posts *)
(* an event.  The event loop thread handles those events in order, between *)
(* the events of the control socket (replies, errors, timeouts), which     *)
(* this module leaves open: an operation may end, ask the user or lose its *)
(* connection at any time.                                                 *)
(*                                                                         *)
(* A handler of an engine event holds mutex_ from start to end, and the    *)
(* owner cannot see a control socket between two of its steps, so every    *)
(* handler is one action.                                                  *)
(***************************************************************************)
EXTENDS Integers, Sequences

CONSTANTS
    ReconnectCount,  \* OPTION_RECONNECTCOUNT
    Environments,    \* what may happen: "cancel", "idleClose", "otherEngines"
    MaxCommands,     \* bound: calls of Execute
    MaxCancels,      \* bound: calls of Cancel
    MaxRequests      \* bound: asynchronous requests

ASSUME ReconnectAssumption == ReconnectCount \in Nat
ASSUME BoundsAssumption ==
    MaxCommands \in Nat /\ MaxCancels \in Nat /\ MaxRequests \in Nat

VARIABLES
    cmd,        \* currentCommand_
    sock,       \* controlSocket_: whether it exists, is connected, operations_
    queue,      \* events of the engine in the event loop
    retryTimer, \* m_retryTimer # 0
    retryCount, \* m_retryCount
    delayed,    \* GetRemainingReconnectDelay # 0 for the server
    requests,   \* asyncRequestCounter_
    answered,   \* requests the owner has replied to
    issued,     \* number of commands executed so far
    reply,      \* replyCode_ of the COperationNotification of each command
    cancelled,  \* commands that the owner cancelled, or refused a request of
    cancels,    \* number of calls of Cancel
    starts,     \* how often each command was started
    attempts,   \* connection attempts of the current connect command
    env         \* which of the disturbances happen in this behaviour

vars == <<cmd, sock, queue, retryTimer, retryCount, delayed, requests, answered,
          issued, reply, cancelled, cancels, starts, attempts,
          env>>

Ids == 1 .. MaxCommands

Kinds == {"connect", "disconnect", "work"}

NoCommand == [id |-> 0, kind |-> "none", retry |-> FALSE]

Op == [kind : {"connect", "work"}, request : 0 .. MaxRequests]

NoSocket == [exists |-> FALSE, up |-> FALSE, ops |-> <<>>]

Events == [type : {"command", "cancel"}]
    \cup [type : {"reply"}, request : 1 .. MaxRequests, allow : BOOLEAN]

(* Reply codes, by the flags that ResetOperation and its callers look at.  *)
Codes == {"ok", "error", "critical", "disconnected", "canceled",
          "notconnected", "alreadyconnected", "syntaxerror"}

Busy == cmd.kind # "none"

-----------------------------------------------------------------------------
(* CFileZillaEnginePrivate::ResetOperation.  It returns without effect     *)
(* while a retry is scheduled, schedules one, or ends the command.         *)
FailedLogin(code) == code \in {"error", "critical", "disconnected"}

(* mutant: one attempt too many *)
WillRetryOnceMore(code) ==
    /\ cmd.kind = "connect"
    /\ FailedLogin(code) /\ code # "critical"
    /\ retryCount + 1 <= ReconnectCount
    /\ cmd.retry

WillRetry(code) ==
    /\ cmd.kind = "connect"
    /\ FailedLogin(code) /\ code # "critical"
    /\ retryCount + 1 < ReconnectCount
    /\ cmd.retry

(* mutant: the retry is counted but its timer is not started *)
ScheduleRetryWithoutTimer ==
    /\ retryCount' = retryCount + 1
    /\ delayed' = TRUE
    /\ UNCHANGED <<cmd, reply, retryTimer>>

ScheduleRetry ==
    /\ retryTimer' = TRUE
    /\ retryCount' = retryCount + 1
    /\ delayed' = TRUE
    /\ UNCHANGED <<cmd, reply>>

EndCommand(code) ==
    /\ reply' = [reply EXCEPT ![cmd.id] = code]
    /\ cmd' = NoCommand
    /\ UNCHANGED retryTimer
    /\ IF cmd.kind = "connect" /\ FailedLogin(code)
       THEN /\ delayed' = TRUE
            /\ retryCount' = IF code = "critical" THEN retryCount ELSE retryCount + 1
       ELSE UNCHANGED <<delayed, retryCount>>

ResetOperation(code) ==
    \/ /\ ~Busy \/ (cmd.kind = "connect" /\ retryTimer)
       /\ UNCHANGED <<cmd, reply, retryTimer, retryCount, delayed>>
    \/ /\ Busy /\ ~(cmd.kind = "connect" /\ retryTimer)
       /\ IF WillRetry(code) THEN ScheduleRetry ELSE EndCommand(code)

-----------------------------------------------------------------------------
(* The thread that owns the engine.                                        *)

(* Execute, when CheckCommandPreconditions lets the command through.       *)
Execute(kind, retry) ==
    /\ ~Busy
    /\ kind = "work" => sock.exists
    /\ kind = "connect" => ~sock.exists
    /\ retry => kind = "connect"
    /\ issued < MaxCommands
    /\ issued' = issued + 1
    /\ cmd' = [id |-> issued + 1, kind |-> kind, retry |-> retry]
    /\ queue' = Append(queue, [type |-> "command"])
    /\ attempts' = 0
    /\ UNCHANGED <<sock, retryTimer, retryCount, delayed, requests, answered,
                   reply, cancelled, cancels, env, starts>>

Cancel ==
    /\ "cancel" \in env
    /\ Busy
    /\ cancels < MaxCancels
    /\ cancels' = cancels + 1
    /\ cancelled' = cancelled \cup {cmd.id}
    /\ queue' = Append(queue, [type |-> "cancel"])
    /\ UNCHANGED <<cmd, sock, retryTimer, retryCount, delayed, requests, answered,
                   issued, reply, starts, attempts, env>>

(* mutant: the number of the request is not compared *)
IsPendingAnyRequest(n) == Busy /\ n \in Nat

IsPendingAsyncRequestReply(n) == Busy /\ n = requests

(* The owner replies once to each request, as late as it likes, and lets   *)
(* the operation continue or not.                                          *)
SetAsyncRequestReply(n, allow) ==
    /\ n \in 1 .. requests /\ n \notin answered
    /\ answered' = answered \cup {n}
    /\ \/ /\ IsPendingAsyncRequestReply(n)
          /\ queue' = Append(queue, [type |-> "reply", request |-> n, allow |-> allow])
          /\ cancelled' = IF allow THEN cancelled ELSE cancelled \cup {cmd.id}
       \/ /\ ~IsPendingAsyncRequestReply(n)
          /\ UNCHANGED <<queue, cancelled>>
    /\ UNCHANGED <<cmd, sock, retryTimer, retryCount, delayed, requests, issued,
                   reply, cancels, env, starts, attempts>>

-----------------------------------------------------------------------------
(* The control socket as the engine sees it.                               *)
NewOp(kind) == [kind |-> kind, request |-> 0]

Top == sock.ops[Len(sock.ops)]

(* Push of the protocols: the first operation on a lost connection gets a  *)
(* connect operation on top of it.                                         *)
Push ==
    sock' = [sock EXCEPT
        !.up = TRUE,
        !.ops = IF @ = <<>> /\ ~sock.up
                THEN <<NewOp("work"), NewOp("connect")>>
                ELSE Append(@, NewOp("work"))]

(* The control socket exists afterwards, with a connect operation.         *)
StartConnecting ==
    /\ sock' = [exists |-> TRUE, up |-> TRUE, ops |-> <<NewOp("connect")>>]
    /\ attempts' = attempts + 1

(* ContinueConnect, called with a connect command and no control socket,   *)
(* and what its callers do with the result: a delay arms the retry timer,  *)
(* a protocol that is not supported ends the command, unless the timer is  *)
(* still set.                                                              *)
ContinueConnect(timer, count) ==
    /\ retryCount' = count
    /\ \/ /\ delayed
          /\ retryTimer' = TRUE
          /\ sock' = NoSocket
          /\ UNCHANGED <<cmd, reply, attempts>>
       \/ /\ ~delayed
          /\ retryTimer' = timer
          /\ StartConnecting
          /\ UNCHANGED <<cmd, reply>>
       \/ /\ ~delayed
          /\ retryTimer' = timer
          /\ sock' = NoSocket
          /\ IF timer THEN UNCHANGED <<cmd, reply>>
             ELSE /\ reply' = [reply EXCEPT ![cmd.id] = "syntaxerror"]
                  /\ cmd' = NoCommand
          /\ UNCHANGED attempts
    /\ UNCHANGED delayed

-----------------------------------------------------------------------------
(* The handlers of the event loop thread.                                  *)
Handles(type) ==
    /\ queue # <<>>
    /\ Head(queue).type = type
    /\ queue' = Tail(queue)

Started == starts' = [starts EXCEPT ![cmd.id] = @ + 1]

(* OnCommandEvent executes whatever is the current command.                *)
OnCommandEvent ==
    /\ Handles("command")
    /\ \/ /\ ~Busy
          /\ UNCHANGED <<cmd, reply, retryTimer, retryCount, delayed, sock,
                         starts, attempts>>
       \/ /\ cmd.kind = "work" /\ ~sock.exists
          /\ ResetOperation("notconnected")
          /\ UNCHANGED <<sock, starts, attempts>>
       \/ /\ cmd.kind = "connect" /\ sock.exists
          /\ ResetOperation("alreadyconnected")
          /\ UNCHANGED <<sock, starts, attempts>>
       \/ /\ cmd.kind = "connect" /\ ~sock.exists
          /\ ContinueConnect(retryTimer, 0)
          /\ Started
       \/ /\ cmd.kind = "disconnect"
          /\ ResetOperation(IF sock.exists THEN "disconnected" ELSE "ok")
          /\ sock' = NoSocket
          /\ Started
          /\ UNCHANGED attempts
       \/ \* List, answered from the directory cache
          /\ cmd.kind = "work" /\ sock.exists
          /\ ResetOperation("ok")
          /\ Started
          /\ UNCHANGED <<sock, attempts>>
       \/ /\ cmd.kind = "work" /\ sock.exists
          /\ Push
          /\ Started
          /\ UNCHANGED <<cmd, reply, retryTimer, retryCount, delayed, attempts>>
    /\ UNCHANGED <<requests, answered, issued, cancelled, cancels, env>>

(* mutant: the cancelled command is not reported *)
CancelRetrySilently ==
    /\ cmd' = NoCommand
    /\ retryTimer' = FALSE
    /\ sock' = NoSocket
    /\ UNCHANGED <<retryCount, delayed, reply>>

(* DoCancel                                                                *)
CancelRetry ==
    /\ reply' = [reply EXCEPT ![cmd.id] = "canceled"]
    /\ cmd' = NoCommand
    /\ retryTimer' = FALSE
    /\ sock' = NoSocket
    /\ UNCHANGED <<retryCount, delayed>>

(* CControlSocket::Cancel: a connection attempt is closed, any other       *)
(* operation is ended together with the ones below it.                     *)
CancelOperation ==
    /\ sock' = [sock EXCEPT !.ops = <<>>, !.up = @ /\ Top.kind # "connect"]
    /\ ResetOperation("canceled")

DoCancel ==
    /\ Handles("cancel")
    /\ \/ /\ ~Busy \/ (~retryTimer /\ sock.exists /\ sock.ops = <<>>)
          /\ UNCHANGED <<cmd, reply, retryTimer, retryCount, delayed, sock>>
       \/ /\ Busy /\ retryTimer
          /\ CancelRetry
       \/ /\ Busy /\ ~retryTimer /\ sock.exists /\ sock.ops # <<>>
          /\ CancelOperation
       \/ /\ Busy /\ ~retryTimer /\ ~sock.exists
          /\ ResetOperation("canceled")
          /\ UNCHANGED sock
    /\ UNCHANGED <<requests, answered, issued, cancelled, cancels, env, starts,
                   attempts>>

(* OnSetAsyncRequestReplyEvent and CallSetAsyncRequestReply: a reply that  *)
(* is still wanted lets the operation continue, cancels it with or without *)
(* closing the connection, or closes the connection over a certificate.    *)
Expects(n) ==
    /\ sock.exists
    /\ IsPendingAsyncRequestReply(n)
    /\ sock.ops # <<>> /\ Top.request # 0

(* mutant: async_request_state_ is not reset *)
RequestAllowedStillWaiting ==
    UNCHANGED <<sock, cmd, reply, retryTimer, retryCount, delayed>>

RequestAllowed ==
    /\ sock' = [sock EXCEPT !.ops[Len(sock.ops)].request = 0]
    /\ UNCHANGED <<cmd, reply, retryTimer, retryCount, delayed>>

RequestRefused ==
    \/ /\ \E up \in {sock.up, FALSE} : sock' = [sock EXCEPT !.ops = <<>>, !.up = up]
       /\ ResetOperation("canceled")
    \/ /\ sock' = [sock EXCEPT !.ops = <<>>, !.up = FALSE]
       /\ ResetOperation("critical")

OnSetAsyncRequestReplyEvent ==
    /\ Handles("reply")
    /\ \/ /\ ~Expects(Head(queue).request)
          /\ UNCHANGED <<sock, cmd, reply, retryTimer, retryCount, delayed>>
       \/ /\ Expects(Head(queue).request) /\ Head(queue).allow
          /\ RequestAllowed
       \/ /\ Expects(Head(queue).request) /\ ~Head(queue).allow
          /\ RequestRefused
    /\ UNCHANGED <<requests, answered, issued, cancelled, cancels, env, starts,
                   attempts>>

(* OnTimer: the old control socket is destroyed while m_retryTimer is      *)
(* still set, so that its destructor does not end the command.             *)
OnTimer ==
    /\ retryTimer
    /\ ContinueConnect(FALSE, retryCount)
    /\ UNCHANGED <<queue, requests, answered, issued, cancelled, cancels, env,
                   starts>>

-----------------------------------------------------------------------------
(* Events of the control socket.                                           *)

(* SendAsyncRequest with wait                                              *)
SendAsyncRequest ==
    /\ sock.ops # <<>>
    /\ requests < MaxRequests
    /\ requests' = requests + 1
    /\ sock' = [sock EXCEPT !.ops[Len(sock.ops)].request = requests + 1]
    /\ UNCHANGED <<cmd, queue, retryTimer, retryCount, delayed, answered, issued,
                   reply, cancelled, cancels, env, starts, attempts>>

(* mutant: the engine is told of the end of every operation *)
OperationEndsEarly(code) ==
    /\ sock.ops # <<>>
    /\ sock' = [sock EXCEPT !.ops = SubSeq(@, 1, Len(@) - 1)]
    /\ ResetOperation(code)
    /\ UNCHANGED <<queue, requests, answered, issued, cancelled, cancels, env,
                   starts, attempts>>

(* CControlSocket::ResetOperation with a code that ends one operation.     *)
OperationEnds(code) ==
    /\ sock.ops # <<>>
    /\ sock' = [sock EXCEPT !.ops = SubSeq(@, 1, Len(@) - 1)]
    /\ IF Len(sock.ops) = 1
       THEN ResetOperation(code)
       ELSE UNCHANGED <<cmd, reply, retryTimer, retryCount, delayed>>
    /\ UNCHANGED <<queue, requests, answered, issued, cancelled, cancels, env,
                   starts, attempts>>

(* DoClose, on an error of the socket, a timeout or a refused login: the   *)
(* codes with FZ_REPLY_DISCONNECTED end all operations.                    *)
Closed(code) ==
    /\ sock.up
    /\ sock.ops = <<>> => "idleClose" \in env /\ code = "disconnected"
    /\ sock' = [sock EXCEPT !.up = FALSE, !.ops = <<>>]
    /\ ResetOperation(code)
    /\ UNCHANGED <<queue, requests, answered, issued, cancelled, cancels, env,
                   starts, attempts>>

(* The reconnect delay for the server runs out, or another engine fails to *)
(* log in on the same server (m_failedLogins is shared).                   *)
DelayPasses ==
    /\ delayed
    /\ delayed' = FALSE
    /\ UNCHANGED <<cmd, sock, queue, retryTimer, retryCount, requests, answered,
                   issued, reply, cancelled, cancels, env, starts, attempts>>

OtherEngineFails ==
    /\ "otherEngines" \in env
    /\ ~delayed
    /\ delayed' = TRUE
    /\ UNCHANGED <<cmd, sock, queue, retryTimer, retryCount, requests, answered,
                   issued, reply, cancelled, cancels, env, starts, attempts>>

-----------------------------------------------------------------------------
Init ==
    /\ cmd = NoCommand /\ sock = NoSocket /\ queue = <<>>
    /\ retryTimer = FALSE /\ retryCount = 0 /\ delayed = FALSE
    /\ requests = 0 /\ answered = {} /\ issued = 0
    /\ reply = [c \in Ids |-> "none"]
    /\ cancelled = {} /\ cancels = 0
    /\ starts = [c \in Ids |-> 0]
    /\ attempts = 0
    /\ env \in Environments

Owner ==
    \/ \E kind \in Kinds, retry \in BOOLEAN : Execute(kind, retry)
    \/ Cancel
    \/ \E n \in 1 .. MaxRequests, allow \in BOOLEAN : SetAsyncRequestReply(n, allow)

EngineEvent ==
    OnCommandEvent \/ DoCancel \/ OnSetAsyncRequestReplyEvent

SocketEvent ==
    \/ SendAsyncRequest
    \/ \E code \in {"ok", "error", "critical"} : OperationEnds(code)
    \/ \E code \in {"disconnected", "critical"} : Closed(code)

Next ==
    Owner \/ EngineEvent \/ OnTimer \/ SocketEvent \/ DelayPasses \/ OtherEngineFails

Spec == Init /\ [][Next]_vars

(* What the program gets for granted: the event loop delivers every event, *)
(* timers fire, the owner answers requests ("These requests have to be     *)
(* answered", notification.h), and an operation that does not wait for the *)
(* owner ends, by a reply or by the timeout.                               *)
OperationProgress ==
    /\ sock.ops # <<>> => Top.request = 0
    /\ \/ \E code \in {"ok", "error", "critical"} : OperationEnds(code)
       \/ \E code \in {"disconnected", "critical"} : Closed(code)

FairSpec ==
    /\ Spec
    /\ WF_vars(EngineEvent) /\ WF_vars(OnTimer) /\ WF_vars(DelayPasses)
    /\ WF_vars(OperationProgress)
    /\ \A n \in 1 .. MaxRequests :
           WF_vars(\E allow \in BOOLEAN : SetAsyncRequestReply(n, allow))

-----------------------------------------------------------------------------
(* Types: only commands that exist are cancelled, replied to or started.   *)
TypeOK ==
    /\ cmd \in [id : 0 .. MaxCommands, kind : Kinds \cup {"none"}, retry : BOOLEAN]
    /\ sock \in [exists : BOOLEAN, up : BOOLEAN, ops : Seq(Op)]
    /\ queue \in Seq(Events)
    /\ retryTimer \in BOOLEAN /\ delayed \in BOOLEAN /\ retryCount \in Nat
    /\ requests \in 0 .. MaxRequests /\ answered \subseteq 1 .. MaxRequests
    /\ issued \in 0 .. MaxCommands
    /\ reply \in [Ids -> Codes \cup {"none"}]
    /\ cancelled \subseteq Ids /\ cancels \in 0 .. MaxCancels
    /\ starts \in [Ids -> Nat] /\ attempts \in Nat
    /\ env \in Environments

(* Exactly the commands that have ended have a COperationNotification: no  *)
(* way to end a command (ResetOperation, DoCancel, a failed connect)       *)
(* forgets it, and a command without one is still the current one.         *)
OneReplyEach ==
    \A c \in Ids : (c <= issued /\ reply[c] = "none") <=> (Busy /\ cmd.id = c)

(* A busy engine is never stuck: the current command has an event that     *)
(* will start it, a retry timer, or an operation of the control socket     *)
(* that will end it.                                                       *)
NeverStuck ==
    Busy => \/ retryTimer
            \/ \E i \in DOMAIN queue : queue[i].type = "command"
            \/ sock.ops # <<>>

(* The warning of OnTimer, "called without pending Command::connect", is   *)
(* unreachable: the retry timer runs only for a connect command.           *)
RetryOnlyForConnect == retryTimer => cmd.kind = "connect"

(* Nothing is cancelled, and no connection is lost while it is idle; other *)
(* engines may disturb.                                                    *)
Undisturbed == env \cap {"cancel", "idleClose"} = {}

(* Retries are orderly: while an engine waits to retry, nothing runs on    *)
(* the old control socket, so that OnTimer destroys no operation in        *)
(* progress, and a connect command makes at most OPTION_RECONNECTCOUNT     *)
(* attempts, whatever other engines and lost connections do.  A cancel     *)
(* that outlives its command can break both, and so can a command event    *)
(* that does and starts a connect command twice.                           *)
RetriesAreOrderly ==
    Undisturbed =>
        /\ retryTimer => sock.ops = <<>>
        /\ attempts <= 1 \/ attempts <= ReconnectCount

(* notification.h: "you will receive a nId_operation notification once the *)
(* operation ends": an idle engine has no operation running.               *)
IdleEngineRunsNothing == ~Busy => sock.ops = <<>>

(* A command is canceled only if the owner cancelled it or refused it a    *)
(* request.                                                                *)
CancelHitsItsCommand == \A c \in Ids : reply[c] = "canceled" => c \in cancelled

(* Without cancels and connections lost while idle, a command is started   *)
(* once, however its event is delayed and whatever other engines do to the *)
(* reconnect delay, is canceled only where the owner refused it something, *)
(* and leaves no operation behind.                                         *)
RunsOnceAndEnds ==
    Undisturbed =>
        /\ \A c \in Ids : starts[c] <= 1
        /\ CancelHitsItsCommand
        /\ IdleEngineRunsNothing

(* A reply reaches only the operation that asked for it, although the      *)
(* number is compared with the last request of the engine and not with the *)
(* operation's own, as long as commands are not started twice.             *)
ReplyReachesAsker ==
    [][Undisturbed
         /\ OnSetAsyncRequestReplyEvent /\ sock' # sock
         => Top.request = Head(queue).request]_vars

(* "If CFileZillaEngine does return with FZ_REPLY_WOULDBLOCK, you will     *)
(* receive a nId_operation notification": in an undisturbed engine every   *)
(* executed command ends, through retries, late answers and lost           *)
(* connections.                                                            *)
EveryCommandEnds ==
    \A c \in Ids : (env = {} /\ Busy /\ cmd.id = c) ~> reply[c] # "none"
=============================================================================
