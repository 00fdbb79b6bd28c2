---------------------------- MODULE EngineProofs ----------------------------
(***************************************************************************)
(* Proofs about Engine, for every environment, every reconnect count and   *)
(* every number of commands, cancellations and requests.                   *)
(*                                                                         *)
(* The inductive invariant has two halves.  Bookkeeping is about what      *)
(* ResetOperation and the retry timer maintain: the current command, its   *)
(* notification and the timer.  Surroundings is about the control socket   *)
(* and the event queue.  NeverStuck ties the halves together.              *)
(*                                                                         *)
(* What holds only of an undisturbed engine has an invariant of its own,   *)
(* Quiet, in the second part of the module.                                *)
(***************************************************************************)
EXTENDS Engine, TLAPS

Commands == [id : 0 .. MaxCommands, kind : Kinds \cup {"none"}, retry : BOOLEAN]

Sockets == [exists : BOOLEAN, up : BOOLEAN, ops : Seq(Op)]

(* The current command is the last one that was issued, and the commands   *)
(* to come have no notification yet.                                       *)
CurrentIsLast ==
    /\ Busy => cmd.id = issued /\ issued > 0
    /\ \A c \in Ids : c > issued => reply[c] = "none"

CoreTypes ==
    /\ cmd \in Commands
    /\ retryTimer \in BOOLEAN /\ delayed \in BOOLEAN /\ retryCount \in Nat
    /\ issued \in 0 .. MaxCommands
    /\ reply \in [Ids -> Codes \cup {"none"}]

Bookkeeping == CoreTypes /\ CurrentIsLast /\ OneReplyEach /\ RetryOnlyForConnect

Surroundings ==
    /\ sock \in Sockets
    /\ queue \in Seq(Events)
    /\ requests \in 0 .. MaxRequests /\ answered \subseteq 1 .. MaxRequests
    /\ cancelled \subseteq Ids /\ cancels \in 0 .. MaxCancels
    /\ starts \in [Ids -> Nat] /\ attempts \in Nat
    /\ env \in Environments

Inv == Bookkeeping /\ Surroundings /\ NeverStuck

-----------------------------------------------------------------------------
(* Ending the current command with a notification keeps the books.         *)
LEMMA EndingKeepsBooks ==
    ASSUME Bookkeeping, Busy, NEW code \in Codes,
           reply' = [reply EXCEPT ![cmd.id] = code], cmd' = NoCommand,
           ~retryTimer', retryTimer' \in BOOLEAN, delayed' \in BOOLEAN,
           retryCount' \in Nat, UNCHANGED issued
    PROVE  Bookkeeping' /\ ~Busy'
<1>1. cmd.id \in Ids /\ cmd.id = issued
  BY BoundsAssumption DEF Bookkeeping, CoreTypes, CurrentIsLast, Commands, Ids
<1>2. code # "none"
  BY DEF Codes
<1>3. ~Busy'
  BY DEF Busy, NoCommand
<1>4. CoreTypes'
  BY <1>1, BoundsAssumption DEF Bookkeeping, CoreTypes, Commands, NoCommand
<1>5. CurrentIsLast'
  BY <1>1, <1>3 DEF Bookkeeping, CoreTypes, CurrentIsLast
<1>6. OneReplyEach'
  BY <1>1, <1>2, <1>3 DEF Bookkeeping, CoreTypes, OneReplyEach
<1> QED
  BY <1>3, <1>4, <1>5, <1>6 DEF Bookkeeping, RetryOnlyForConnect

(* ResetOperation keeps the books and leaves a command only to a retry.    *)
LEMMA ResetOperationKeepsBooks ==
    ASSUME Bookkeeping, NEW code \in Codes, ResetOperation(code), UNCHANGED issued
    PROVE  Bookkeeping' /\ (Busy' => retryTimer')
<1>1. CASE ~Busy \/ (cmd.kind = "connect" /\ retryTimer)
  <2>1. UNCHANGED <<cmd, reply, retryTimer, retryCount, delayed>>
    BY <1>1 DEF ResetOperation
  <2> QED
    BY <1>1, <2>1 DEF Bookkeeping, CoreTypes, CurrentIsLast, OneReplyEach,
                      RetryOnlyForConnect, Busy
<1>2. CASE Busy /\ ~(cmd.kind = "connect" /\ retryTimer)
  <2>1. CASE WillRetry(code)
    <3>1. ScheduleRetry
      BY <1>2, <2>1 DEF ResetOperation
    <3>2. CoreTypes'
      BY <3>1 DEF ScheduleRetry, Bookkeeping, CoreTypes
    <3> QED
      BY <2>1, <3>1, <3>2 DEF ScheduleRetry, WillRetry, Bookkeeping, CurrentIsLast,
                              OneReplyEach, RetryOnlyForConnect, Busy
  <2>2. CASE ~WillRetry(code)
    <3>1. EndCommand(code)
      BY <1>2, <2>2 DEF ResetOperation
    <3>2. ~retryTimer
      BY <1>2 DEF Bookkeeping, RetryOnlyForConnect
    <3>3. retryCount' \in Nat
      BY <3>1 DEF EndCommand, Bookkeeping, CoreTypes, FailedLogin
    <3>4. delayed' \in BOOLEAN
      BY <3>1 DEF EndCommand, Bookkeeping, CoreTypes, FailedLogin
    <3>5. retryTimer' \in BOOLEAN /\ ~retryTimer'
      BY <3>1, <3>2 DEF EndCommand, Bookkeeping, CoreTypes
    <3>6. reply' = [reply EXCEPT ![cmd.id] = code] /\ cmd' = NoCommand
      BY <3>1 DEF EndCommand
    <3> QED
      BY <1>2, <3>3, <3>4, <3>5, <3>6, EndingKeepsBooks
  <2> QED
    BY <2>1, <2>2
<1> QED
  BY <1>1, <1>2 DEF ResetOperation

LEMMA OpsAreTyped ==
    /\ NewOp("connect") \in Op /\ NewOp("work") \in Op
    /\ NoSocket \in Sockets
    /\ NoSocket.ops = <<>>
  BY BoundsAssumption DEF NewOp, Op, NoSocket, Sockets

(* A connect command that continues has a timer or an operation, or ends.  *)
LEMMA ContinueConnectKeepsBooks ==
    ASSUME Bookkeeping, attempts \in Nat, cmd.kind = "connect",
           NEW timer \in BOOLEAN, NEW count \in Nat,
           ContinueConnect(timer, count), UNCHANGED issued
    PROVE  /\ Bookkeeping'
           /\ sock' \in Sockets /\ attempts' \in Nat
           /\ Busy' => retryTimer' \/ sock'.ops # <<>>
<1>1. Busy
  BY DEF Busy
<1>2. CASE delayed
  <2>1. retryTimer' /\ retryTimer' = TRUE /\ UNCHANGED <<cmd, reply, attempts, delayed>>
        /\ retryCount' = count /\ sock' = NoSocket
    BY <1>2 DEF ContinueConnect
  <2>2. CoreTypes'
    BY <2>1 DEF Bookkeeping, CoreTypes
  <2> QED
    BY <2>1, <2>2, OpsAreTyped DEF Bookkeeping, CurrentIsLast, OneReplyEach,
                                   RetryOnlyForConnect, Busy
<1>3. CASE ~delayed
  <2>1. retryTimer' = timer /\ retryCount' = count /\ delayed' = delayed
    BY <1>3 DEF ContinueConnect
  <2>2. CASE StartConnecting /\ UNCHANGED <<cmd, reply>>
    <3>1. CoreTypes'
      BY <2>1, <2>2 DEF Bookkeeping, CoreTypes
    <3>2. attempts' \in Nat /\ sock' \in Sockets /\ sock'.ops # <<>>
      BY <2>2, OpsAreTyped DEF StartConnecting, Sockets
    <3> QED
      BY <2>1, <2>2, <3>1, <3>2 DEF Bookkeeping, CurrentIsLast, OneReplyEach,
                                    RetryOnlyForConnect, Busy
  <2>3. CASE ~StartConnecting \/ ~UNCHANGED <<cmd, reply>>
    <3>1. /\ sock' = NoSocket /\ UNCHANGED attempts
          /\ IF timer THEN UNCHANGED <<cmd, reply>>
             ELSE /\ reply' = [reply EXCEPT ![cmd.id] = "syntaxerror"]
                  /\ cmd' = NoCommand
      BY <1>3, <2>3 DEF ContinueConnect
    <3>2. CASE timer
      <4>1. CoreTypes'
        BY <2>1, <3>1, <3>2 DEF Bookkeeping, CoreTypes
      <4> QED
        BY <2>1, <3>1, <3>2, <4>1, OpsAreTyped DEF Bookkeeping, CurrentIsLast,
               OneReplyEach, RetryOnlyForConnect, Busy
    <3>3. CASE ~timer
      <4>1. "syntaxerror" \in Codes /\ delayed' \in BOOLEAN /\ retryTimer' \in BOOLEAN
        BY <2>1 DEF Codes, Bookkeeping, CoreTypes
      <4>2. Bookkeeping' /\ ~Busy'
        BY <1>1, <2>1, <3>1, <3>3, <4>1, EndingKeepsBooks
      <4> QED
        BY <3>1, <4>2, OpsAreTyped
    <3> QED
      BY <3>2, <3>3
  <2> QED
    BY <2>2, <2>3
<1> QED
  BY <1>2, <1>3

-----------------------------------------------------------------------------
(* The event queue: posting keeps a command event, handling another event  *)
(* does too.                                                               *)
CommandQueued == \E i \in DOMAIN queue : queue[i].type = "command"

LEMMA PostingKeepsEvents ==
    ASSUME queue \in Seq(Events), NEW e \in Events, queue' = Append(queue, e)
    PROVE  /\ queue' \in Seq(Events)
           /\ CommandQueued => CommandQueued'
           /\ e.type = "command" => CommandQueued'
<1>1. queue' \in Seq(Events) /\ DOMAIN queue' = 1 .. (Len(queue) + 1)
  OBVIOUS
<1>2. \A i \in DOMAIN queue : i \in DOMAIN queue' /\ queue'[i] = queue[i]
  OBVIOUS
<1>3. Len(queue) + 1 \in DOMAIN queue' /\ queue'[Len(queue) + 1] = e
  OBVIOUS
<1> QED
  BY <1>1, <1>2, <1>3 DEF CommandQueued

LEMMA HandlingKeepsEvents ==
    ASSUME queue \in Seq(Events), NEW type, Handles(type)
    PROVE  /\ queue' \in Seq(Events)
           /\ Head(queue) \in Events /\ Head(queue).type = type
           /\ type # "command" => (CommandQueued => CommandQueued')
<1>1. queue # <<>> /\ queue' = Tail(queue) /\ Head(queue).type = type
  BY DEF Handles
<1>2. queue' \in Seq(Events) /\ Head(queue) \in Events /\ Head(queue) = queue[1]
  BY <1>1
<1>3. ASSUME type # "command", NEW i \in DOMAIN queue, queue[i].type = "command"
      PROVE  i - 1 \in DOMAIN queue' /\ queue'[i - 1] = queue[i]
  <2>1. i \in 1 .. Len(queue) /\ i # 1
    BY <1>1, <1>2, <1>3
  <2> QED
    BY <1>1, <2>1
<1>4. type # "command" => (CommandQueued => CommandQueued')
  BY <1>3 DEF CommandQueued
<1> QED
  BY <1>1, <1>2, <1>4

(* NeverStuck in terms of CommandQueued.                                   *)
LEMMA NeverStuckMeans ==
    NeverStuck <=> (Busy => retryTimer \/ CommandQueued \/ sock.ops # <<>>)
  BY DEF NeverStuck, CommandQueued

LEMMA NeverStuckMeansNext ==
    NeverStuck' <=> (Busy' => retryTimer' \/ CommandQueued' \/ sock'.ops # <<>>)
  BY DEF NeverStuck, CommandQueued

(* The control socket keeps its type when its operations end or one of     *)
(* them waits for a reply or stops waiting.                                *)
LEMMA SocketSteps ==
    ASSUME sock \in Sockets
    PROVE  /\ \A up \in BOOLEAN : [sock EXCEPT !.ops = <<>>, !.up = up] \in Sockets
           /\ [sock EXCEPT !.up = FALSE, !.ops = <<>>] \in Sockets
<1>1. <<>> \in Seq(Op)
  OBVIOUS
<1>2. ASSUME NEW up \in BOOLEAN
      PROVE  [sock EXCEPT !.ops = <<>>, !.up = up] \in Sockets
  BY <1>1 DEF Sockets
<1>3. [sock EXCEPT !.up = FALSE, !.ops = <<>>] \in Sockets
  BY <1>1 DEF Sockets
<1> QED
  BY <1>2, <1>3

LEMMA WaitingKeepsSocket ==
    ASSUME sock \in Sockets, sock.ops # <<>>, NEW n \in 0 .. MaxRequests,
           sock' = [sock EXCEPT !.ops[Len(sock.ops)].request = n]
    PROVE  sock' \in Sockets /\ sock'.ops # <<>>
<1>1. sock.ops \in Seq(Op) /\ Len(sock.ops) \in DOMAIN sock.ops
  BY DEF Sockets
<1>2. [sock.ops[Len(sock.ops)] EXCEPT !.request = n] \in Op
  <2>1. ASSUME NEW o \in Op
        PROVE  [o EXCEPT !.request = n] \in Op
    BY DEF Op
  <2>2. sock.ops[Len(sock.ops)] \in Op
    BY <1>1
  <2> QED
    BY <2>1, <2>2
<1>3. [sock.ops EXCEPT ![Len(sock.ops)] = [sock.ops[Len(sock.ops)] EXCEPT !.request = n]]
        \in Seq(Op)
  BY <1>1, <1>2
<1>4. sock'.ops = [sock.ops EXCEPT ![Len(sock.ops)]
                     = [sock.ops[Len(sock.ops)] EXCEPT !.request = n]]
  BY DEF Sockets
<1>5. Len(sock'.ops) = Len(sock.ops)
  BY <1>1, <1>3, <1>4
<1>6. sock' \in Sockets
  BY <1>3 DEF Sockets
<1> QED
  BY <1>1, <1>3, <1>4, <1>5, <1>6

LEMMA PoppingKeepsSocket ==
    ASSUME sock \in Sockets, sock.ops # <<>>,
           sock' = [sock EXCEPT !.ops = SubSeq(@, 1, Len(@) - 1)]
    PROVE  sock' \in Sockets /\ (Len(sock.ops) # 1 => sock'.ops # <<>>)
<1>1. sock.ops \in Seq(Op) /\ Len(sock.ops) \in Nat \ {0}
  BY DEF Sockets
<1>2. SubSeq(sock.ops, 1, Len(sock.ops) - 1) \in Seq(Op)
      /\ Len(SubSeq(sock.ops, 1, Len(sock.ops) - 1)) = Len(sock.ops) - 1
  BY <1>1
<1>3. sock'.ops = SubSeq(sock.ops, 1, Len(sock.ops) - 1)
  BY DEF Sockets
<1>4. sock' \in Sockets
  BY <1>2 DEF Sockets
<1>5. ASSUME Len(sock.ops) # 1
      PROVE  SubSeq(sock.ops, 1, Len(sock.ops) - 1) # <<>>
  <2>1. Len(sock.ops) - 1 # 0
    BY <1>1, <1>5
  <2>2. SUFFICES ASSUME SubSeq(sock.ops, 1, Len(sock.ops) - 1) = <<>>
                 PROVE  Len(sock.ops) - 1 = 0
    BY <2>1
  <2>3. Len(<<>>) = 0
    OBVIOUS
  <2> QED
    BY <1>2, <2>2, <2>3, Zenon
<1> QED
  BY <1>3, <1>4, <1>5

LEMMA PushKeepsSocket ==
    ASSUME sock \in Sockets, Push
    PROVE  sock' \in Sockets /\ sock'.ops # <<>>
<1>1. sock.ops \in Seq(Op)
  BY DEF Sockets
<1>2. <<NewOp("work"), NewOp("connect")>> \in Seq(Op)
      /\ <<NewOp("work"), NewOp("connect")>> # <<>>
  BY OpsAreTyped
<1>3. Append(sock.ops, NewOp("work")) \in Seq(Op) /\ Append(sock.ops, NewOp("work")) # <<>>
  BY <1>1, OpsAreTyped
<1> QED
  BY <1>2, <1>3 DEF Push, Sockets

-----------------------------------------------------------------------------
(* Every action preserves the invariant.                                   *)
LEMMA ExecuteStep ==
    ASSUME Inv, NEW kind \in Kinds, NEW retry \in BOOLEAN, Execute(kind, retry)
    PROVE  Inv'
<1>1. [type |-> "command"] \in Events
  BY DEF Events
<1>2. issued' \in 1 .. MaxCommands /\ issued' = issued + 1 /\ ~Busy
  BY BoundsAssumption DEF Execute, Inv, Bookkeeping, CoreTypes
<1>3. cmd' = [id |-> issued + 1, kind |-> kind, retry |-> retry] /\ reply' = reply
      /\ retryTimer' = retryTimer /\ delayed' = delayed /\ retryCount' = retryCount
  BY DEF Execute
<1>4. queue' \in Seq(Events) /\ CommandQueued'
  <2>1. queue' = Append(queue, [type |-> "command"]) /\ queue \in Seq(Events)
    BY DEF Execute, Inv, Surroundings
  <2> QED
    BY <1>1, <2>1, PostingKeepsEvents
<1>5. Busy' /\ cmd'.id = issued' /\ ~retryTimer
  BY <1>2, <1>3 DEF Busy, Kinds, Inv, Bookkeeping, RetryOnlyForConnect
<1>6. CoreTypes'
  BY <1>2, <1>3 DEF Inv, Bookkeeping, CoreTypes, Commands
<1>7. CurrentIsLast'
  BY <1>2, <1>3, <1>5 DEF Inv, Bookkeeping, CoreTypes, CurrentIsLast, Ids
<1>8. OneReplyEach'
  BY <1>2, <1>3, <1>5 DEF Inv, Bookkeeping, CoreTypes, CurrentIsLast, OneReplyEach, Ids
<1>9. Surroundings'
  BY <1>4 DEF Execute, Inv, Surroundings
<1> QED
  BY <1>3, <1>4, <1>5, <1>6, <1>7, <1>8, <1>9, NeverStuckMeansNext
     DEF Inv, Bookkeeping, RetryOnlyForConnect

(* The books stay as they are when none of their variables changes.        *)
LEMMA BooksUnchanged ==
    ASSUME Bookkeeping, UNCHANGED <<cmd, reply, retryTimer, retryCount, delayed, issued>>
    PROVE  Bookkeeping' /\ (Busy' <=> Busy) /\ retryTimer' = retryTimer
  BY DEF Bookkeeping, CoreTypes, CurrentIsLast, OneReplyEach, RetryOnlyForConnect, Busy

LEMMA CurrentIsId ==
    ASSUME Bookkeeping, Busy
    PROVE  cmd.id \in Ids
  BY DEF Bookkeeping, CoreTypes, CurrentIsLast, Commands, Ids

LEMMA CancelStep ==
    ASSUME Inv, Cancel
    PROVE  Inv'
<1>1. [type |-> "cancel"] \in Events
  BY DEF Events
<1>2. Bookkeeping' /\ (Busy' <=> Busy) /\ retryTimer' = retryTimer
  BY BooksUnchanged DEF Inv, Cancel
<1>3. queue' \in Seq(Events) /\ (CommandQueued => CommandQueued')
  BY <1>1, PostingKeepsEvents DEF Inv, Surroundings, Cancel
<1>4. cmd.id \in Ids
  BY CurrentIsId DEF Inv, Cancel
<1>5. Surroundings'
  BY <1>3, <1>4, BoundsAssumption DEF Inv, Surroundings, Cancel
<1>6. sock' = sock
  BY DEF Cancel
<1> QED
  BY <1>2, <1>3, <1>5, <1>6, NeverStuckMeans, NeverStuckMeansNext DEF Inv

LEMMA SetAsyncRequestReplyStep ==
    ASSUME Inv, NEW n \in 1 .. MaxRequests, NEW allow \in BOOLEAN,
           SetAsyncRequestReply(n, allow)
    PROVE  Inv'
<1>1. Bookkeeping' /\ (Busy' <=> Busy) /\ retryTimer' = retryTimer
  BY BooksUnchanged DEF Inv, SetAsyncRequestReply
<1>2. queue' \in Seq(Events) /\ (CommandQueued => CommandQueued') /\ cancelled' \subseteq Ids
  <2>1. CASE IsPendingAsyncRequestReply(n)
    <3>1. [type |-> "reply", request |-> n, allow |-> allow] \in Events
      BY DEF Events
    <3>2. queue' \in Seq(Events) /\ (CommandQueued => CommandQueued')
      BY <2>1, <3>1, PostingKeepsEvents DEF Inv, Surroundings, SetAsyncRequestReply
    <3>3. cmd.id \in Ids
      BY <2>1, CurrentIsId DEF Inv, IsPendingAsyncRequestReply
    <3> QED
      BY <2>1, <3>2, <3>3 DEF Inv, Surroundings, SetAsyncRequestReply
  <2>2. CASE ~IsPendingAsyncRequestReply(n)
    BY <2>2 DEF Inv, Surroundings, SetAsyncRequestReply, CommandQueued
  <2> QED
    BY <2>1, <2>2
<1>3. Surroundings' /\ sock' = sock
  BY <1>2 DEF Inv, Surroundings, SetAsyncRequestReply
<1> QED
  BY <1>1, <1>2, <1>3, NeverStuckMeans, NeverStuckMeansNext DEF Inv

LEMMA OnCommandEventStep ==
    ASSUME Inv, OnCommandEvent
    PROVE  Inv'
<1>1. queue' \in Seq(Events)
  BY HandlingKeepsEvents DEF Inv, Surroundings, OnCommandEvent
<1>2. issued' = issued /\ requests' = requests /\ answered' = answered
      /\ cancelled' = cancelled /\ cancels' = cancels /\ env' = env
  BY DEF OnCommandEvent
<1>3. SUFFICES /\ Bookkeeping' /\ sock' \in Sockets
               /\ starts' \in [Ids -> Nat] /\ attempts' \in Nat
               /\ Busy' => retryTimer' \/ sock'.ops # <<>>
  BY <1>1, <1>2, NeverStuckMeansNext DEF Inv, Surroundings
<1>4. Bookkeeping /\ sock \in Sockets /\ starts \in [Ids -> Nat] /\ attempts \in Nat
  BY DEF Inv, Surroundings
<1>5. Started => starts' \in [Ids -> Nat]
  <2>1. SUFFICES ASSUME Started
                 PROVE  starts' \in [Ids -> Nat]
    OBVIOUS
  <2>2. starts' = [i \in Ids |-> IF i = cmd.id THEN starts[i] + 1 ELSE starts[i]]
    BY <1>4, <2>1 DEF Started
  <2> QED
    BY <1>4, <2>2
<1>6. CASE ~Busy /\ UNCHANGED <<cmd, reply, retryTimer, retryCount, delayed, sock,
                               starts, attempts>>
  BY <1>2, <1>4, <1>6, BooksUnchanged
<1>7. CASE \E code \in Codes :
             ResetOperation(code) /\ UNCHANGED <<sock, starts, attempts>>
  BY <1>2, <1>4, <1>7, ResetOperationKeepsBooks
<1>8. CASE cmd.kind = "connect" /\ ContinueConnect(retryTimer, 0) /\ Started
  <2>1. retryTimer \in BOOLEAN
    BY <1>4 DEF Bookkeeping, CoreTypes
  <2> QED
    BY <1>2, <1>4, <1>5, <1>8, <2>1, ContinueConnectKeepsBooks
<1>9. CASE \E code \in Codes :
             ResetOperation(code) /\ sock' = NoSocket /\ Started /\ UNCHANGED attempts
  BY <1>2, <1>4, <1>5, <1>9, ResetOperationKeepsBooks, OpsAreTyped
<1>10. CASE \E code \in Codes :
              ResetOperation(code) /\ Started /\ UNCHANGED <<sock, attempts>>
  BY <1>2, <1>4, <1>5, <1>10, ResetOperationKeepsBooks
<1>11. CASE Push /\ Started
            /\ UNCHANGED <<cmd, reply, retryTimer, retryCount, delayed, attempts>>
  BY <1>2, <1>4, <1>5, <1>11, BooksUnchanged, PushKeepsSocket
<1>12. {"notconnected", "alreadyconnected", "disconnected", "ok"} \subseteq Codes
  BY DEF Codes
<1> QED
  BY <1>6, <1>7, <1>8, <1>9, <1>10, <1>11, <1>12 DEF OnCommandEvent

LEMMA DoCancelStep ==
    ASSUME Inv, DoCancel
    PROVE  Inv'
<1>1. queue' \in Seq(Events) /\ (CommandQueued => CommandQueued')
  BY HandlingKeepsEvents DEF Inv, Surroundings, DoCancel
<1>2. UNCHANGED <<requests, answered, issued, cancelled, cancels, env, starts,
                  attempts>>
  BY DEF DoCancel
<1>3. Bookkeeping /\ sock \in Sockets
  BY DEF Inv, Surroundings
<1>4. SUFFICES Bookkeeping' /\ sock' \in Sockets /\ NeverStuck'
  BY <1>1, <1>2 DEF Inv, Surroundings
<1>5. CASE UNCHANGED <<cmd, reply, retryTimer, retryCount, delayed, sock>>
  BY <1>1, <1>2, <1>3, <1>5, BooksUnchanged, NeverStuckMeans, NeverStuckMeansNext DEF Inv
<1>6. CASE Busy /\ CancelRetry
  <2>1. retryTimer' = FALSE /\ cmd' = NoCommand /\ sock' = NoSocket
        /\ reply' = [reply EXCEPT ![cmd.id] = "canceled"]
        /\ retryCount' = retryCount /\ delayed' = delayed
    BY <1>6 DEF CancelRetry
  <2>2. "canceled" \in Codes /\ retryCount \in Nat /\ delayed \in BOOLEAN
    BY <1>3 DEF Codes, Bookkeeping, CoreTypes
  <2>3. Bookkeeping' /\ ~Busy'
    BY <1>2, <1>3, <1>6, <2>1, <2>2, EndingKeepsBooks
  <2> QED
    BY <2>1, <2>3, OpsAreTyped, NeverStuckMeansNext
<1>7. CASE ResetOperation("canceled") /\ sock' \in Sockets
  <2>1. "canceled" \in Codes
    BY DEF Codes
  <2> QED
    BY <1>2, <1>3, <1>7, <2>1, ResetOperationKeepsBooks, NeverStuckMeansNext
<1>8. CancelOperation => ResetOperation("canceled") /\ sock' \in Sockets
  <2>1. (sock.up /\ Top.kind # "connect") \in BOOLEAN
    BY <1>3 DEF Sockets
  <2>2. CancelOperation =>
          sock' = [sock EXCEPT !.ops = <<>>, !.up = sock.up /\ Top.kind # "connect"]
    BY <1>3 DEF CancelOperation, Sockets
  <2> QED
    BY <1>3, <2>1, <2>2, SocketSteps DEF CancelOperation
<1> QED
  BY <1>3, <1>5, <1>6, <1>7, <1>8 DEF DoCancel

LEMMA OnSetAsyncRequestReplyEventStep ==
    ASSUME Inv, OnSetAsyncRequestReplyEvent
    PROVE  Inv'
<1>1. queue' \in Seq(Events) /\ (CommandQueued => CommandQueued')
  BY HandlingKeepsEvents DEF Inv, Surroundings, OnSetAsyncRequestReplyEvent
<1>2. UNCHANGED <<requests, answered, issued, cancelled, cancels, env, starts,
                  attempts>>
  BY DEF OnSetAsyncRequestReplyEvent
<1>3. Bookkeeping /\ sock \in Sockets
  BY DEF Inv, Surroundings
<1>4. SUFFICES Bookkeeping' /\ sock' \in Sockets /\ NeverStuck'
  BY <1>1, <1>2 DEF Inv, Surroundings
<1>5. CASE UNCHANGED <<sock, cmd, reply, retryTimer, retryCount, delayed>>
  BY <1>1, <1>2, <1>3, <1>5, BooksUnchanged, NeverStuckMeans, NeverStuckMeansNext DEF Inv
<1>6. CASE sock.ops # <<>> /\ RequestAllowed
  <2>1. 0 \in 0 .. MaxRequests
    BY BoundsAssumption
  <2>2. sock' \in Sockets /\ sock'.ops # <<>>
    BY <1>3, <1>6, <2>1, WaitingKeepsSocket DEF RequestAllowed
  <2>3. Bookkeeping'
    BY <1>2, <1>3, <1>6, BooksUnchanged DEF RequestAllowed
  <2> QED
    BY <2>2, <2>3, NeverStuckMeansNext
<1>7. CASE RequestRefused
  <2>1. sock' \in Sockets
    <3>1. sock.up \in BOOLEAN
      BY <1>3 DEF Sockets
    <3> QED
      BY <1>3, <1>7, <3>1, SocketSteps DEF RequestRefused
  <2>2. "canceled" \in Codes /\ "critical" \in Codes
    BY DEF Codes
  <2>3. ResetOperation("canceled") \/ ResetOperation("critical")
    BY <1>7 DEF RequestRefused
  <2> QED
    BY <1>2, <1>3, <2>1, <2>2, <2>3, ResetOperationKeepsBooks, NeverStuckMeansNext
<1> QED
  BY <1>5, <1>6, <1>7 DEF OnSetAsyncRequestReplyEvent, Expects

LEMMA OnTimerStep ==
    ASSUME Inv, OnTimer
    PROVE  Inv'
<1>1. cmd.kind = "connect" /\ retryCount \in Nat /\ issued' = issued
  BY DEF Inv, Bookkeeping, CoreTypes, RetryOnlyForConnect, OnTimer
<1>2. /\ Bookkeeping' /\ sock' \in Sockets /\ attempts' \in Nat
      /\ Busy' => retryTimer' \/ sock'.ops # <<>>
  BY <1>1, ContinueConnectKeepsBooks DEF Inv, Surroundings, OnTimer
<1> QED
  BY <1>2, NeverStuckMeansNext DEF Inv, Surroundings, OnTimer

LEMMA SocketEventStep ==
    ASSUME Inv, SocketEvent
    PROVE  Inv'
<1>1. Bookkeeping /\ sock \in Sockets
  BY DEF Inv, Surroundings
<1>2. {"ok", "error", "critical", "disconnected"} \subseteq Codes
  BY DEF Codes
<1>3. CASE SendAsyncRequest
  <2>1. requests' = requests + 1 /\ requests' \in 0 .. MaxRequests
    BY <1>3, BoundsAssumption DEF SendAsyncRequest, Inv, Surroundings
  <2>2. sock' \in Sockets /\ sock'.ops # <<>>
    BY <1>1, <1>3, <2>1, WaitingKeepsSocket DEF SendAsyncRequest
  <2>3. Bookkeeping'
    BY <1>1, <1>3, BooksUnchanged DEF SendAsyncRequest
  <2> QED
    BY <1>3, <2>1, <2>2, <2>3, NeverStuckMeansNext DEF SendAsyncRequest, Inv, Surroundings
<1>4. ASSUME NEW code \in Codes, OperationEnds(code)
      PROVE  Inv'
  <2>1. sock' \in Sockets /\ (Len(sock.ops) # 1 => sock'.ops # <<>>)
    BY <1>1, <1>4, PoppingKeepsSocket DEF OperationEnds
  <2>2. Bookkeeping' /\ (Busy' => retryTimer' \/ sock'.ops # <<>>)
    <3>1. CASE Len(sock.ops) = 1
      BY <1>1, <1>4, <3>1, ResetOperationKeepsBooks DEF OperationEnds
    <3>2. CASE Len(sock.ops) # 1
      BY <1>1, <1>4, <2>1, <3>2, BooksUnchanged DEF OperationEnds
    <3> QED
      BY <3>1, <3>2
  <2> QED
    BY <1>4, <2>1, <2>2, NeverStuckMeansNext DEF OperationEnds, Inv, Surroundings
<1>5. ASSUME NEW code \in Codes, Closed(code)
      PROVE  Inv'
  <2>1. sock' \in Sockets
    BY <1>1, <1>5, SocketSteps DEF Closed
  <2>2. Bookkeeping' /\ (Busy' => retryTimer')
    BY <1>1, <1>5, ResetOperationKeepsBooks DEF Closed
  <2> QED
    BY <1>5, <2>1, <2>2, NeverStuckMeansNext DEF Closed, Inv, Surroundings
<1> QED
  BY <1>2, <1>3, <1>4, <1>5 DEF SocketEvent

LEMMA DelayStep ==
    ASSUME Inv, DelayPasses \/ OtherEngineFails
    PROVE  Inv'
<1>1. UNCHANGED <<cmd, sock, queue, retryTimer, retryCount, requests, answered,
                  issued, reply, cancelled, cancels, env, starts,
                  attempts>>
  BY DEF DelayPasses, OtherEngineFails
<1>2. delayed' \in BOOLEAN
  BY DEF DelayPasses, OtherEngineFails
<1>3. CoreTypes' /\ Surroundings'
  BY <1>1, <1>2 DEF Inv, Bookkeeping, CoreTypes, Surroundings
<1>4. CurrentIsLast' /\ OneReplyEach' /\ RetryOnlyForConnect' /\ NeverStuck'
  BY <1>1 DEF Inv, Bookkeeping, CurrentIsLast, OneReplyEach, RetryOnlyForConnect,
              NeverStuck, Busy
<1> QED
  BY <1>3, <1>4 DEF Inv, Bookkeeping

LEMMA InvStutters ==
    ASSUME Inv, UNCHANGED vars
    PROVE  Inv'
  BY DEF Inv, Bookkeeping, CoreTypes, CurrentIsLast, OneReplyEach, RetryOnlyForConnect,
         Surroundings, NeverStuck, Busy, vars

LEMMA InitInv == Init => Inv
<1>1. SUFFICES ASSUME Init
               PROVE  Inv
  OBVIOUS
<1>2. ~Busy /\ cmd \in Commands
  BY <1>1, BoundsAssumption DEF Init, NoCommand, Busy, Commands
<1>3. CoreTypes
  <2>1. retryTimer \in BOOLEAN /\ delayed \in BOOLEAN
    BY <1>1 DEF Init
  <2>2. retryCount \in Nat /\ issued \in 0 .. MaxCommands
        /\ reply \in [Ids -> Codes \cup {"none"}]
    BY <1>1, BoundsAssumption DEF Init
  <2> QED
    BY <1>2, <2>1, <2>2 DEF CoreTypes
<1>4. CurrentIsLast
  BY <1>1, <1>2 DEF Init, CurrentIsLast
<1>5. OneReplyEach
  BY <1>1, <1>2, BoundsAssumption DEF Init, OneReplyEach, Ids
<1>6. Surroundings
  BY <1>1, OpsAreTyped, BoundsAssumption DEF Init, Surroundings
<1> QED
  BY <1>1, <1>2, <1>3, <1>5, <1>6, <1>4 DEF Init, Inv, Bookkeeping, RetryOnlyForConnect, NeverStuck

(* Inv is an invariant of the engine.                                      *)
LEMMA InvHolds == Spec => []Inv
<1>1. Inv /\ [Next]_vars => Inv'
  <2>1. SUFFICES ASSUME Inv, Next
                 PROVE  Inv'
    BY InvStutters
  <2>2. Owner => Inv'
    BY <2>1, ExecuteStep, CancelStep, SetAsyncRequestReplyStep DEF Owner
  <2>3. EngineEvent => Inv'
    BY <2>1, OnCommandEventStep, DoCancelStep, OnSetAsyncRequestReplyEventStep
       DEF EngineEvent
  <2> QED
    BY <2>1, <2>2, <2>3, OnTimerStep, SocketEventStep, DelayStep DEF Next
<1> QED
  BY <1>1, InitInv, PTL DEF Spec

(* Type correctness of the engine.                                         *)
THEOREM TypeCorrect == Spec => []TypeOK
<1>1. Inv => TypeOK
  BY DEF Inv, Bookkeeping, CoreTypes, Commands, Surroundings, Sockets, TypeOK
<1> QED
  BY <1>1, InvHolds, PTL

(* Every command that was executed is either still the current one or has  *)
(* got its COperationNotification, whatever was cancelled, closed, retried *)
(* or started twice.                                                       *)
THEOREM EveryEndIsReported == Spec => []OneReplyEach
<1>1. Inv => OneReplyEach
  BY DEF Inv, Bookkeeping
<1> QED
  BY <1>1, InvHolds, PTL

(* OnTimer never meets an engine without a connect command.                *)
THEOREM RetriesAreForConnect == Spec => []RetryOnlyForConnect
<1>1. Inv => RetryOnlyForConnect
  BY DEF Inv, Bookkeeping
<1> QED
  BY <1>1, InvHolds, PTL

(* A busy engine always has an event, a timer or an operation to go on     *)
(* with.                                                                   *)
THEOREM EngineNeverStuck == Spec => []NeverStuck
<1>1. Inv => NeverStuck
  BY DEF Inv
<1> QED
  BY <1>1, InvHolds, PTL

-----------------------------------------------------------------------------
(* The undisturbed engine.  Its queue holds at most one command event,     *)
(* that of the current command, which has done nothing before the event is *)
(* handled.                                                                *)
QuietQueue ==
    /\ \A i \in DOMAIN queue : queue[i].type # "cancel"
    /\ \A i, j \in DOMAIN queue :
          queue[i].type = "command" /\ queue[j].type = "command" => i = j
    /\ \A i \in DOMAIN queue : queue[i].type = "reply" => queue[i].request <= requests

QuietPhase ==
    /\ CommandQueued => Busy /\ sock.ops = <<>> /\ ~retryTimer /\ starts[cmd.id] = 0
    /\ ~Busy \/ retryTimer => sock.ops = <<>>
    /\ \A c \in Ids : starts[c] <= 1 /\ (c > issued => starts[c] = 0)

(* m_retryCount counts the attempts that failed, and stays below the       *)
(* limit while the connect command is current.                             *)
QuietAttempts ==
    /\ attempts <= 1 \/ attempts <= ReconnectCount
    /\ CommandQueued => attempts = 0
    /\ cmd.kind = "connect" /\ ~CommandQueued =>
          /\ retryCount = 0 \/ retryCount < ReconnectCount
          /\ attempts <= retryCount + 1
          /\ retryTimer => attempts <= retryCount

(* Only the operation on top waits for an answer, to the last request.     *)
QuietRequests ==
    \A k \in DOMAIN sock.ops :
        sock.ops[k].request # 0 => k = Len(sock.ops) /\ sock.ops[k].request = requests

(* A refusal in the queue that could still be obeyed is one of the current *)
(* command: older ones have a command event behind them.                   *)
QuietCancels ==
    /\ CancelHitsItsCommand
    /\ \A i \in DOMAIN queue :
          (/\ queue[i].type = "reply" /\ ~queue[i].allow /\ queue[i].request = requests
           /\ Busy
           /\ \A j \in DOMAIN queue : j > i => queue[j].type # "command")
          => cmd.id \in cancelled

Quiet == QuietQueue /\ QuietPhase /\ QuietAttempts /\ QuietRequests /\ QuietCancels

-----------------------------------------------------------------------------
LEMMA AppendFacts ==
    ASSUME queue \in Seq(Events), NEW e, queue' = Append(queue, e)
    PROVE  /\ Len(queue) \in Nat /\ DOMAIN queue = 1 .. Len(queue)
           /\ DOMAIN queue' = 1 .. (Len(queue) + 1)
           /\ \A i \in DOMAIN queue : queue'[i] = queue[i]
           /\ queue'[Len(queue) + 1] = e
  OBVIOUS

LEMMA TailFacts ==
    ASSUME queue \in Seq(Events), queue # <<>>, queue' = Tail(queue)
    PROVE  /\ Len(queue) \in Nat \ {0} /\ DOMAIN queue = 1 .. Len(queue)
           /\ DOMAIN queue' = 1 .. (Len(queue) - 1)
           /\ \A i \in DOMAIN queue' : queue'[i] = queue[i + 1]
           /\ Head(queue) = queue[1]
  OBVIOUS

(* Handling an event keeps what concerns the queue alone.                  *)
LEMMA HandlingQuiet ==
    ASSUME queue \in Seq(Events), QuietQueue, NEW type, Handles(type), UNCHANGED requests
    PROVE  /\ QuietQueue'
           /\ type = "command" => CommandQueued /\ ~CommandQueued'
           /\ type # "command" => (CommandQueued' <=> CommandQueued)
<1>1. queue # <<>> /\ queue' = Tail(queue) /\ Head(queue).type = type
  BY DEF Handles
<1>2. /\ Len(queue) \in Nat \ {0} /\ DOMAIN queue = 1 .. Len(queue)
      /\ DOMAIN queue' = 1 .. (Len(queue) - 1)
      /\ \A i \in DOMAIN queue' : queue'[i] = queue[i + 1]
      /\ Head(queue) = queue[1]
  BY <1>1, TailFacts
<1>3. \A i \in DOMAIN queue' : i + 1 \in DOMAIN queue /\ i + 1 # 1
  BY <1>2
<1>4. \A i \in DOMAIN queue : i # 1 => i - 1 \in DOMAIN queue' /\ queue'[i - 1] = queue[i]
  BY <1>2
<1>5. 1 \in DOMAIN queue /\ queue[1].type = type
  BY <1>1, <1>2
<1>6. QuietQueue'
  <2>1. \A i \in DOMAIN queue' : queue'[i].type # "cancel"
    BY <1>2, <1>3 DEF QuietQueue
  <2>2. \A i \in DOMAIN queue' : queue'[i].type = "reply" => queue'[i].request <= requests'
    BY <1>2, <1>3 DEF QuietQueue
  <2>3. ASSUME NEW i \in DOMAIN queue', NEW j \in DOMAIN queue',
               queue'[i].type = "command", queue'[j].type = "command"
        PROVE  i = j
    <3>1. i + 1 = j + 1
      BY <1>2, <1>3, <2>3 DEF QuietQueue
    <3>2. i \in Int /\ j \in Int
      BY <1>2
    <3> QED
      BY <3>1, <3>2
  <2> QED
    BY <2>1, <2>2, <2>3 DEF QuietQueue
<1>7. ASSUME type = "command"
      PROVE  CommandQueued /\ ~CommandQueued'
  <2>1. \A i \in DOMAIN queue' : queue[i + 1].type # "command"
    BY <1>3, <1>5, <1>7 DEF QuietQueue
  <2> QED
    BY <1>2, <1>5, <1>7, <2>1 DEF CommandQueued
<1>8. ASSUME type # "command"
      PROVE  CommandQueued' <=> CommandQueued
  BY <1>2, <1>3, <1>4, <1>5, <1>8 DEF CommandQueued
<1> QED
  BY <1>6, <1>7, <1>8

(* Refusals stay tied to the current command while an event is handled.    *)
LEMMA HandlingKeepsRefusals ==
    ASSUME queue \in Seq(Events), QuietQueue, QuietCancels, NEW type, Handles(type),
           UNCHANGED <<requests, cancelled>>, cmd' = cmd \/ ~Busy'
    PROVE  \A i \in DOMAIN queue' :
             (/\ queue'[i].type = "reply" /\ ~queue'[i].allow /\ queue'[i].request = requests'
              /\ Busy'
              /\ \A j \in DOMAIN queue' : j > i => queue'[j].type # "command")
             => cmd'.id \in cancelled'
<1>1. queue # <<>> /\ queue' = Tail(queue)
  BY DEF Handles
<1>2. /\ Len(queue) \in Nat \ {0} /\ DOMAIN queue = 1 .. Len(queue)
      /\ DOMAIN queue' = 1 .. (Len(queue) - 1)
      /\ \A i \in DOMAIN queue' : queue'[i] = queue[i + 1]
  BY <1>1, TailFacts
<1>3. SUFFICES ASSUME NEW i \in DOMAIN queue',
                      queue'[i].type = "reply", ~queue'[i].allow,
                      queue'[i].request = requests', Busy',
                      \A j \in DOMAIN queue' : j > i => queue'[j].type # "command"
               PROVE  cmd'.id \in cancelled'
  OBVIOUS
<1>4. i + 1 \in DOMAIN queue /\ queue[i + 1] = queue'[i]
  BY <1>2
<1>5. ASSUME NEW j \in DOMAIN queue, j > i + 1
      PROVE  queue[j].type # "command"
  <2>1. j - 1 \in DOMAIN queue' /\ j - 1 > i /\ queue'[j - 1] = queue[j]
    BY <1>2, <1>5
  <2> QED
    BY <1>3, <2>1
<1>6. cmd' = cmd /\ Busy
  BY <1>3 DEF Busy
<1> QED
  BY <1>3, <1>4, <1>5, <1>6 DEF QuietCancels

(* The end of the last operation: the command is retried or ends.          *)
LEMMA ResetOperationMeans ==
    ASSUME Bookkeeping, Busy, ~retryTimer, NEW code \in Codes, ResetOperation(code)
    PROVE  \/ /\ WillRetry(code) /\ cmd.kind = "connect"
              /\ cmd' = cmd /\ reply' = reply /\ retryTimer' = TRUE
              /\ retryCount' = retryCount + 1 /\ retryCount + 1 < ReconnectCount
           \/ /\ cmd' = NoCommand /\ ~Busy' /\ retryTimer' = retryTimer
              /\ reply' = [reply EXCEPT ![cmd.id] = code]
  BY DEF ResetOperation, WillRetry, ScheduleRetry, EndCommand, Busy, NoCommand

(* A command that ends without being canceled, or after a refusal, keeps   *)
(* canceled commands among the ones that the owner cancelled.              *)
LEMMA EndingKeepsCancels ==
    ASSUME Bookkeeping, Busy, CancelHitsItsCommand, NEW code,
           code = "canceled" => cmd.id \in cancelled,
           reply' = [reply EXCEPT ![cmd.id] = code], cancelled' = cancelled
    PROVE  CancelHitsItsCommand'
<1>1. cmd.id \in Ids /\ reply \in [Ids -> Codes \cup {"none"}]
  BY CurrentIsId DEF Bookkeeping, CoreTypes
<1> QED
  BY <1>1 DEF CancelHitsItsCommand

(* The last operation ends: OperationEnds, Closed, a refused request.      *)
LEMMA LastOperationEnds ==
    ASSUME Inv, QuietPhase, QuietAttempts, CancelHitsItsCommand,
           sock.ops # <<>>, sock'.ops = <<>>, NEW code \in Codes, ResetOperation(code),
           code = "canceled" => cmd.id \in cancelled,
           CommandQueued' <=> CommandQueued,
           UNCHANGED <<issued, cancelled, starts, attempts>>
    PROVE  /\ QuietPhase' /\ QuietAttempts' /\ QuietRequests' /\ CancelHitsItsCommand'
           /\ cmd' = cmd \/ ~Busy'
<1>1. Busy /\ ~retryTimer /\ ~CommandQueued /\ Bookkeeping
  BY DEF QuietPhase, Inv
<1>2. QuietRequests'
  <2>1. DOMAIN <<>> = {}
    OBVIOUS
  <2> QED
    BY <2>1 DEF QuietRequests
<1>3. retryCount \in Nat /\ attempts \in Nat
  BY DEF Inv, Bookkeeping, CoreTypes, Surroundings
<1>4. CASE /\ cmd.kind = "connect" /\ cmd' = cmd /\ reply' = reply /\ retryTimer' = TRUE
           /\ retryCount' = retryCount + 1 /\ retryCount + 1 < ReconnectCount
  <2>1. QuietPhase'
    BY <1>1, <1>4 DEF QuietPhase, Busy
  <2>2. QuietAttempts'
    BY <1>1, <1>3, <1>4 DEF QuietAttempts
  <2>3. CancelHitsItsCommand'
    BY <1>4 DEF CancelHitsItsCommand
  <2> QED
    BY <1>2, <1>4, <2>1, <2>2, <2>3
<1>5. CASE /\ cmd' = NoCommand /\ ~Busy' /\ retryTimer' = retryTimer
           /\ reply' = [reply EXCEPT ![cmd.id] = code]
  <2>1. QuietPhase'
    BY <1>1, <1>5 DEF QuietPhase
  <2>2. QuietAttempts'
    BY <1>1, <1>5 DEF QuietAttempts, NoCommand
  <2>3. CancelHitsItsCommand'
    BY <1>1, <1>5, EndingKeepsCancels
  <2> QED
    BY <1>2, <1>5, <2>1, <2>2, <2>3
<1> QED
  BY <1>1, <1>4, <1>5, ResetOperationMeans

LEMMA ExecuteQuiet ==
    ASSUME Inv, Quiet, NEW kind \in Kinds, NEW retry \in BOOLEAN, Execute(kind, retry)
    PROVE  Quiet'
<1>1. queue \in Seq(Events) /\ issued \in Nat /\ requests \in Nat
  BY BoundsAssumption DEF Inv, Surroundings, Bookkeeping, CoreTypes
<1>2. /\ Len(queue) \in Nat /\ DOMAIN queue = 1 .. Len(queue)
      /\ DOMAIN queue' = 1 .. (Len(queue) + 1)
      /\ \A i \in DOMAIN queue : queue'[i] = queue[i]
      /\ queue'[Len(queue) + 1] = [type |-> "command"]
  BY <1>1, AppendFacts DEF Execute
<1>3. ~Busy /\ ~CommandQueued /\ sock.ops = <<>> /\ ~retryTimer
  BY DEF Execute, Quiet, QuietPhase, Inv, Bookkeeping, RetryOnlyForConnect, Busy
<1>4. /\ cmd'.id = issued + 1 /\ issued' = issued + 1 /\ issued + 1 \in Ids /\ Busy'
      /\ attempts' = 0
      /\ UNCHANGED <<sock, retryTimer, requests, reply, cancelled, starts>>
  BY <1>1, BoundsAssumption DEF Execute, Busy, Kinds, Ids
<1>5. QuietQueue'
  BY <1>1, <1>2, <1>3, <1>4 DEF Quiet, QuietQueue, CommandQueued
<1>6. QuietPhase'
  BY <1>1, <1>3, <1>4 DEF Quiet, QuietPhase, Ids
<1>7. CommandQueued'
  BY <1>2 DEF CommandQueued
<1>8. QuietAttempts'
  BY <1>4, <1>7 DEF Quiet, QuietAttempts
<1>9. QuietRequests'
  BY <1>4 DEF Quiet, QuietRequests
<1>10. QuietCancels'
  <2>1. CancelHitsItsCommand'
    BY <1>4 DEF Quiet, QuietCancels, CancelHitsItsCommand
  <2>2. ASSUME NEW i \in DOMAIN queue', queue'[i].type = "reply"
        PROVE  \E j \in DOMAIN queue' : j > i /\ queue'[j].type = "command"
    BY <1>2, <2>2
  <2> QED
    BY <2>1, <2>2 DEF QuietCancels
<1> QED
  BY <1>5, <1>6, <1>8, <1>9, <1>10 DEF Quiet

LEMMA SetAsyncRequestReplyQuiet ==
    ASSUME Inv, Quiet, NEW n \in 1 .. MaxRequests, NEW allow \in BOOLEAN,
           SetAsyncRequestReply(n, allow)
    PROVE  Quiet'
<1>1. queue \in Seq(Events) /\ requests \in Nat
  BY BoundsAssumption DEF Inv, Surroundings
<1>2. UNCHANGED <<cmd, sock, retryTimer, retryCount, requests, issued, reply, starts,
                  attempts>>
      /\ cancelled \subseteq cancelled' /\ (Busy' <=> Busy)
  BY DEF SetAsyncRequestReply, Busy
<1>3. CancelHitsItsCommand'
  BY <1>2 DEF Quiet, QuietCancels, CancelHitsItsCommand
<1>4. CASE ~IsPendingAsyncRequestReply(n)
  <2>1. UNCHANGED <<queue, cancelled>>
    BY <1>4 DEF SetAsyncRequestReply
  <2> QED
    BY <1>2, <1>3, <2>1 DEF Quiet, QuietQueue, QuietPhase, QuietAttempts, QuietRequests,
                            QuietCancels, CommandQueued
<1>5. CASE IsPendingAsyncRequestReply(n)
  <2>1. /\ queue' = Append(queue, [type |-> "reply", request |-> n, allow |-> allow])
        /\ n = requests /\ (~allow => cmd.id \in cancelled')
    BY <1>5 DEF SetAsyncRequestReply, IsPendingAsyncRequestReply
  <2>2. /\ Len(queue) \in Nat /\ DOMAIN queue = 1 .. Len(queue)
        /\ DOMAIN queue' = 1 .. (Len(queue) + 1)
        /\ \A i \in DOMAIN queue : queue'[i] = queue[i]
        /\ queue'[Len(queue) + 1] = [type |-> "reply", request |-> n, allow |-> allow]
    BY <1>1, <2>1, AppendFacts
  <2>3. QuietQueue' /\ (CommandQueued' <=> CommandQueued)
    BY <1>1, <1>2, <2>1, <2>2 DEF Quiet, QuietQueue, CommandQueued
  <2>4. QuietPhase' /\ QuietAttempts' /\ QuietRequests'
    BY <1>2, <2>3 DEF Quiet, QuietPhase, QuietAttempts, QuietRequests
  <2>5. ASSUME NEW i \in DOMAIN queue', queue'[i].type = "reply", ~queue'[i].allow,
               queue'[i].request = requests', Busy',
               \A j \in DOMAIN queue' : j > i => queue'[j].type # "command"
        PROVE  cmd'.id \in cancelled'
    <3>1. CASE i = Len(queue) + 1
      BY <1>2, <2>1, <2>2, <2>5, <3>1
    <3>2. CASE i \in DOMAIN queue
      BY <1>2, <2>2, <2>5, <3>2 DEF Quiet, QuietCancels
    <3> QED
      BY <2>2, <3>1, <3>2
  <2> QED
    BY <1>3, <2>3, <2>4, <2>5 DEF Quiet, QuietCancels
<1> QED
  BY <1>4, <1>5

(* The command event of the current command.                               *)
LEMMA OnCommandEventQuiet ==
    ASSUME Inv, Quiet, OnCommandEvent
    PROVE  Quiet'
<1>1. /\ QuietQueue' /\ CommandQueued /\ ~CommandQueued'
      /\ UNCHANGED <<requests, cancelled, issued>>
  BY HandlingQuiet DEF Inv, Surroundings, Quiet, OnCommandEvent
<1>2. /\ Busy /\ sock.ops = <<>> /\ ~retryTimer /\ starts[cmd.id] = 0 /\ attempts = 0
      /\ cmd.id \in Ids /\ cmd.id = issued
  BY <1>1, CurrentIsId DEF Quiet, QuietPhase, QuietAttempts, Inv, Bookkeeping, CurrentIsLast
<1>3. Bookkeeping /\ sock \in Sockets /\ starts \in [Ids -> Nat] /\ CancelHitsItsCommand
  BY DEF Inv, Surroundings, Quiet, QuietCancels
<1>4. SUFFICES /\ QuietPhase' /\ QuietAttempts' /\ QuietRequests' /\ CancelHitsItsCommand'
               /\ cmd' = cmd \/ ~Busy'
  BY <1>1, HandlingKeepsRefusals DEF Inv, Surroundings, Quiet, QuietCancels, OnCommandEvent
<1>5. ASSUME Started \/ UNCHANGED starts
      PROVE  \A c \in Ids : starts'[c] <= 1 /\ (c > issued' => starts'[c] = 0)
  <2>1. \A c \in Ids : starts'[c] = starts[c] \/ (c = cmd.id /\ starts'[c] = 1)
    BY <1>2, <1>3, <1>5 DEF Started
  <2>2. issued \in Nat
    BY <1>3 DEF Bookkeeping, CoreTypes
  <2> QED
    BY <1>1, <1>2, <1>3, <2>1, <2>2 DEF Quiet, QuietPhase, Ids
<1>6. <<>> = NoSocket.ops /\ DOMAIN <<>> = {}
  BY DEF NoSocket
<1>7. CASE /\ \E code \in Codes \ {"canceled"} : ResetOperation(code) /\ ~WillRetry(code)
           /\ Started \/ UNCHANGED starts
           /\ sock' = sock \/ sock' = NoSocket
           /\ UNCHANGED attempts
  <2>1. PICK code \in Codes \ {"canceled"} : ResetOperation(code) /\ ~WillRetry(code)
    BY <1>7
  <2>2. /\ cmd' = NoCommand /\ ~Busy' /\ retryTimer' = retryTimer
        /\ reply' = [reply EXCEPT ![cmd.id] = code]
    BY <1>2, <1>3, <2>1, ResetOperationMeans
  <2>3. sock'.ops = <<>>
    BY <1>2, <1>6, <1>7
  <2>4. QuietPhase'
    BY <1>1, <1>5, <1>7, <2>2, <2>3 DEF QuietPhase
  <2>5. QuietAttempts'
    BY <1>1, <1>2, <1>7, <2>2 DEF QuietAttempts, NoCommand
  <2>6. QuietRequests'
    BY <1>6, <2>3 DEF QuietRequests
  <2>7. CancelHitsItsCommand'
    BY <1>1, <1>2, <1>3, <2>1, <2>2, EndingKeepsCancels
  <2> QED
    BY <2>2, <2>4, <2>5, <2>6, <2>7
<1>8. CASE cmd.kind = "connect" /\ ContinueConnect(retryTimer, 0) /\ Started
  <2>1. CASE delayed
    <3>1. retryTimer' = TRUE /\ retryCount' = 0 /\ sock' = NoSocket
          /\ UNCHANGED <<cmd, reply, attempts>>
      BY <1>8, <2>1 DEF ContinueConnect
    <3>2. Busy'
      BY <1>2, <3>1 DEF Busy
    <3> QED
      BY <1>1, <1>2, <1>3, <1>5, <1>6, <1>8, <3>1, <3>2
         DEF QuietPhase, QuietAttempts, QuietRequests, CancelHitsItsCommand
  <2>2. CASE ~delayed /\ StartConnecting /\ UNCHANGED <<cmd, reply>>
    <3>1. retryTimer' = retryTimer /\ retryCount' = 0 /\ attempts' = 1
          /\ sock'.ops = <<NewOp("connect")>>
      BY <1>2, <1>8, <2>2 DEF ContinueConnect, StartConnecting
    <3>2. Busy' /\ ~retryTimer'
      BY <1>2, <2>2, <3>1 DEF Busy
    <3>3. QuietRequests'
      BY <3>1 DEF QuietRequests, NewOp
    <3>4. QuietPhase' /\ QuietAttempts'
      BY <1>1, <1>5, <1>8, <3>1, <3>2 DEF QuietPhase, QuietAttempts
    <3> QED
      BY <1>1, <1>3, <2>2, <3>3, <3>4 DEF CancelHitsItsCommand
  <2>3. CASE ~delayed /\ ~(StartConnecting /\ UNCHANGED <<cmd, reply>>)
    <3>1. /\ retryTimer' = retryTimer /\ sock' = NoSocket /\ cmd' = NoCommand
          /\ reply' = [reply EXCEPT ![cmd.id] = "syntaxerror"] /\ UNCHANGED attempts
      BY <1>2, <1>8, <2>3 DEF ContinueConnect
    <3>2. ~Busy'
      BY <3>1 DEF Busy, NoCommand
    <3>3. CancelHitsItsCommand'
      BY <1>1, <1>2, <1>3, <3>1, EndingKeepsCancels
    <3>4. QuietRequests'
      BY <1>6, <3>1 DEF QuietRequests
    <3>5. QuietPhase' /\ QuietAttempts'
      BY <1>1, <1>2, <1>5, <1>6, <1>8, <3>1, <3>2 DEF QuietPhase, QuietAttempts, NoCommand
    <3> QED
      BY <3>2, <3>3, <3>4, <3>5
  <2> QED
    BY <2>1, <2>2, <2>3
<1>9. CASE /\ cmd.kind = "work" /\ Push /\ Started
           /\ UNCHANGED <<cmd, reply, retryTimer, retryCount, delayed, attempts>>
  <2>1. sock'.ops = <<NewOp("work"), NewOp("connect")>> \/ sock'.ops = <<NewOp("work")>>
    <3>1. Append(<<>>, NewOp("work")) = <<NewOp("work")>>
      OBVIOUS
    <3> QED
      BY <1>2, <1>3, <1>9, <3>1 DEF Push, Sockets
  <2>2. QuietRequests'
    BY <2>1 DEF QuietRequests, NewOp
  <2>3. Busy' /\ ~retryTimer'
    BY <1>2, <1>9 DEF Busy
  <2>4. QuietPhase' /\ QuietAttempts'
    BY <1>1, <1>2, <1>5, <1>9, <2>3 DEF QuietPhase, QuietAttempts
  <2> QED
    BY <1>1, <1>3, <1>9, <2>2, <2>4 DEF CancelHitsItsCommand
<1>10. /\ {"notconnected", "alreadyconnected", "disconnected", "ok"} \subseteq Codes \ {"canceled"}
       /\ \A code \in {"notconnected", "alreadyconnected", "ok"} : ~WillRetry(code)
       /\ cmd.kind # "connect" => ~WillRetry("disconnected")
  BY DEF Codes, WillRetry, FailedLogin
<1> QED
  BY <1>2, <1>7, <1>8, <1>9, <1>10 DEF OnCommandEvent

(* The answer that an operation waits for is an answer to its own request, *)
(* and a refusal that is obeyed is one of the current command.             *)
LEMMA ExpectedReplies ==
    ASSUME Inv, Quiet, Handles("reply"), Expects(Head(queue).request)
    PROVE  /\ Top.request = Head(queue).request
           /\ ~Head(queue).allow => cmd.id \in cancelled
<1>1. queue \in Seq(Events) /\ queue # <<>> /\ Head(queue).type = "reply"
      /\ Head(queue) = queue[1] /\ 1 \in DOMAIN queue
  <2>1. queue \in Seq(Events) /\ queue # <<>> /\ Head(queue).type = "reply"
    BY DEF Handles, Inv, Surroundings
  <2> QED
    BY <2>1
<1>2. /\ Head(queue).request = requests /\ Busy /\ sock.ops # <<>> /\ Top.request # 0
  BY DEF Expects, IsPendingAsyncRequestReply
<1>3. ~CommandQueued
  BY <1>2 DEF Quiet, QuietPhase
<1>4. Len(sock.ops) \in DOMAIN sock.ops
  <2>1. sock.ops \in Seq(Op)
    BY DEF Inv, Surroundings, Sockets
  <2> QED
    BY <1>2, <2>1
<1>5. Top.request = requests
  BY <1>2, <1>4 DEF Top, Quiet, QuietRequests
<1>6. ~Head(queue).allow => cmd.id \in cancelled
  BY <1>1, <1>2, <1>3 DEF Quiet, QuietCancels, CommandQueued
<1> QED
  BY <1>2, <1>5, <1>6

LEMMA OnSetAsyncRequestReplyEventQuiet ==
    ASSUME Inv, Quiet, OnSetAsyncRequestReplyEvent
    PROVE  Quiet'
<1>1. /\ QuietQueue' /\ (CommandQueued' <=> CommandQueued)
      /\ UNCHANGED <<requests, cancelled, issued, starts, attempts>>
  BY HandlingQuiet DEF Inv, Surroundings, Quiet, OnSetAsyncRequestReplyEvent
<1>2. SUFFICES /\ QuietPhase' /\ QuietAttempts' /\ QuietRequests' /\ CancelHitsItsCommand'
               /\ cmd' = cmd \/ ~Busy'
  BY <1>1, HandlingKeepsRefusals
     DEF Inv, Surroundings, Quiet, QuietCancels, OnSetAsyncRequestReplyEvent
<1>3. CASE UNCHANGED <<sock, cmd, reply, retryTimer, retryCount, delayed>>
  BY <1>1, <1>3 DEF Quiet, QuietPhase, QuietAttempts, QuietRequests, QuietCancels,
                    CancelHitsItsCommand, Busy
<1>4. CASE Expects(Head(queue).request) /\ RequestAllowed
  <2>1. /\ sock.ops # <<>> /\ sock.ops \in Seq(Op) /\ sock \in Sockets
        /\ sock' = [sock EXCEPT !.ops[Len(sock.ops)].request = 0]
        /\ UNCHANGED <<cmd, reply, retryTimer, retryCount>>
    BY <1>4 DEF Expects, RequestAllowed, Inv, Surroundings, Sockets
  <2>2. sock'.ops = [sock.ops EXCEPT ![Len(sock.ops)].request = 0]
    BY <2>1 DEF Sockets
  <2>3. /\ DOMAIN sock'.ops = DOMAIN sock.ops /\ Len(sock.ops) \in DOMAIN sock.ops
        /\ \A k \in DOMAIN sock.ops : k # Len(sock.ops) => sock'.ops[k] = sock.ops[k]
        /\ sock'.ops[Len(sock.ops)].request = 0
    <3>1. Len(sock.ops) \in DOMAIN sock.ops /\ sock.ops[Len(sock.ops)] \in Op
      BY <2>1
    <3> QED
      BY <2>2, <3>1 DEF Op
  <2>4. QuietRequests'
    BY <2>3 DEF Quiet, QuietRequests
  <2>5. Busy /\ ~retryTimer /\ ~CommandQueued
    BY <2>1 DEF Quiet, QuietPhase
  <2> QED
    BY <1>1, <2>1, <2>4, <2>5 DEF Quiet, QuietPhase, QuietAttempts, QuietCancels,
                                  CancelHitsItsCommand, Busy
<1>5. CASE Expects(Head(queue).request) /\ ~Head(queue).allow /\ RequestRefused
  <2>1. Handles("reply") /\ sock.ops # <<>> /\ cmd.id \in cancelled
    BY <1>5, ExpectedReplies DEF OnSetAsyncRequestReplyEvent, Expects
  <2>2. sock'.ops = <<>>
    BY <1>5 DEF RequestRefused, Inv, Surroundings, Sockets
  <2>3. \E code \in {"canceled", "critical"} : ResetOperation(code)
    BY <1>5 DEF RequestRefused
  <2>4. {"canceled", "critical"} \subseteq Codes
    BY DEF Codes
  <2>5. QuietPhase /\ QuietAttempts /\ CancelHitsItsCommand
    BY DEF Quiet, QuietCancels
  <2> QED
    BY <1>1, <2>1, <2>2, <2>3, <2>4, <2>5, LastOperationEnds
<1> QED
  BY <1>3, <1>4, <1>5 DEF OnSetAsyncRequestReplyEvent

LEMMA OnTimerQuiet ==
    ASSUME Inv, Quiet, OnTimer
    PROVE  Quiet'
<1>1. /\ retryTimer /\ sock.ops = <<>> /\ ~CommandQueued /\ cmd.kind = "connect" /\ Busy
      /\ attempts <= retryCount
      /\ UNCHANGED <<queue, requests, issued, cancelled, starts>>
  BY DEF OnTimer, Quiet, QuietPhase, QuietAttempts, Inv, Bookkeeping, RetryOnlyForConnect, Busy
<1>2. /\ retryCount \in Nat /\ attempts \in Nat /\ Bookkeeping
      /\ retryCount' = retryCount
  BY DEF OnTimer, ContinueConnect, Inv, Bookkeeping, CoreTypes, Surroundings
<1>3. QuietQueue' /\ ~CommandQueued'
  BY <1>1 DEF Quiet, QuietQueue, CommandQueued
<1>4. NoSocket.ops = <<>> /\ DOMAIN <<>> = {}
  BY DEF NoSocket
<1>5. SUFFICES /\ QuietPhase' /\ QuietAttempts' /\ QuietRequests' /\ CancelHitsItsCommand'
               /\ cmd' = cmd \/ ~Busy'
  <2>1. cmd' = cmd \/ ~Busy' =>
          \A i \in DOMAIN queue' :
             (/\ queue'[i].type = "reply" /\ ~queue'[i].allow /\ queue'[i].request = requests'
              /\ Busy'
              /\ \A j \in DOMAIN queue' : j > i => queue'[j].type # "command")
             => cmd'.id \in cancelled'
    BY <1>1 DEF Quiet, QuietCancels
  <2> QED
    BY <1>3, <2>1 DEF Quiet, QuietCancels
<1>6. CASE retryTimer' = TRUE /\ sock' = NoSocket /\ UNCHANGED <<cmd, reply, attempts>>
  <2>1. QuietPhase'
    BY <1>1, <1>3, <1>4, <1>6 DEF Quiet, QuietPhase, Busy
  <2>2. QuietAttempts'
    BY <1>1, <1>2, <1>3, <1>6 DEF Quiet, QuietAttempts
  <2>3. QuietRequests' /\ CancelHitsItsCommand'
    BY <1>1, <1>4, <1>6 DEF QuietRequests, Quiet, QuietCancels, CancelHitsItsCommand
  <2> QED
    BY <1>6, <2>1, <2>2, <2>3
<1>7. CASE retryTimer' = FALSE /\ StartConnecting /\ UNCHANGED <<cmd, reply>>
  <2>1. attempts' = attempts + 1 /\ sock'.ops = <<NewOp("connect")>>
    BY <1>7 DEF StartConnecting
  <2>2. QuietPhase'
    BY <1>1, <1>3, <1>7 DEF Quiet, QuietPhase, Busy
  <2>3. QuietAttempts'
    BY <1>1, <1>2, <1>3, <1>7, <2>1, ReconnectAssumption DEF Quiet, QuietAttempts
  <2>4. QuietRequests' /\ CancelHitsItsCommand'
    BY <1>1, <1>7, <2>1 DEF QuietRequests, NewOp, Quiet, QuietCancels, CancelHitsItsCommand
  <2> QED
    BY <1>7, <2>2, <2>3, <2>4
<1>8. CASE /\ retryTimer' = FALSE /\ sock' = NoSocket /\ UNCHANGED attempts
           /\ reply' = [reply EXCEPT ![cmd.id] = "syntaxerror"] /\ cmd' = NoCommand
  <2>1. ~Busy'
    BY <1>8 DEF Busy, NoCommand
  <2>2. QuietPhase' /\ QuietAttempts'
    BY <1>1, <1>3, <1>4, <1>8, <2>1 DEF Quiet, QuietPhase, QuietAttempts, NoCommand
  <2>3. QuietRequests' /\ CancelHitsItsCommand'
    BY <1>1, <1>2, <1>4, <1>8, EndingKeepsCancels DEF QuietRequests, Quiet, QuietCancels
  <2> QED
    BY <2>1, <2>2, <2>3
<1> QED
  BY <1>6, <1>7, <1>8 DEF OnTimer, ContinueConnect

LEMMA SocketEventQuiet ==
    ASSUME Inv, Quiet, Undisturbed, SocketEvent
    PROVE  Quiet'
<1>1. UNCHANGED <<queue, answered, issued, cancelled, env, starts, attempts>>
  BY DEF SocketEvent, SendAsyncRequest, OperationEnds, Closed
<1>2. (CommandQueued' <=> CommandQueued) /\ sock \in Sockets /\ sock.ops \in Seq(Op)
  BY <1>1 DEF CommandQueued, Inv, Surroundings, Sockets
<1>3. {"ok", "error", "critical", "disconnected"} \subseteq Codes \ {"canceled"}
  BY DEF Codes
<1>4. CASE SendAsyncRequest
  <2>1. /\ sock.ops # <<>> /\ requests' = requests + 1 /\ requests \in Nat
        /\ sock' = [sock EXCEPT !.ops[Len(sock.ops)].request = requests + 1]
        /\ UNCHANGED <<cmd, reply, retryTimer, retryCount>>
    BY <1>4, BoundsAssumption DEF SendAsyncRequest, Inv, Surroundings
  <2>2. sock'.ops = [sock.ops EXCEPT ![Len(sock.ops)].request = requests + 1]
    BY <1>2, <2>1 DEF Sockets
  <2>3. /\ DOMAIN sock'.ops = DOMAIN sock.ops /\ Len(sock.ops) \in DOMAIN sock.ops
        /\ Len(sock'.ops) = Len(sock.ops)
        /\ \A k \in DOMAIN sock.ops : k # Len(sock.ops) => sock'.ops[k] = sock.ops[k]
        /\ sock'.ops[Len(sock.ops)].request = requests + 1
    <3>1. Len(sock.ops) \in DOMAIN sock.ops /\ sock.ops[Len(sock.ops)] \in Op
      BY <1>2, <2>1
    <3>2. DOMAIN sock'.ops = DOMAIN sock.ops
      BY <2>2, <3>1
    <3>3. Len(sock'.ops) = Len(sock.ops)
      BY <1>2, <2>2, <3>2
    <3> QED
      BY <2>2, <3>1, <3>2, <3>3 DEF Op
  <2>4. QuietRequests'
    BY <2>1, <2>3 DEF Quiet, QuietRequests
  <2>5. /\ QuietQueue'
        /\ \A i \in DOMAIN queue' : queue'[i].type = "reply" => queue'[i].request # requests'
    <3>1. \A i \in DOMAIN queue : queue[i].type = "reply" =>
             queue[i].request \in Int /\ queue[i].request <= requests
      BY DEF Quiet, QuietQueue, Inv, Surroundings, Events
    <3> QED
      BY <1>1, <2>1, <3>1 DEF Quiet, QuietQueue
  <2>6. QuietCancels'
    BY <1>1, <2>1, <2>5 DEF Quiet, QuietCancels, CancelHitsItsCommand
  <2>7. Busy /\ ~retryTimer /\ ~CommandQueued
    BY <2>1 DEF Quiet, QuietPhase
  <2>8. QuietPhase' /\ QuietAttempts'
    BY <1>1, <1>2, <2>1, <2>7 DEF Quiet, QuietPhase, QuietAttempts, Busy
  <2> QED
    BY <2>4, <2>5, <2>6, <2>8 DEF Quiet
<1>5. ASSUME requests' = requests, QuietPhase', QuietAttempts', QuietRequests',
             CancelHitsItsCommand', cmd' = cmd \/ ~Busy'
      PROVE  Quiet'
  <2>1. QuietQueue'
    BY <1>1, <1>5 DEF Quiet, QuietQueue
  <2>2. QuietCancels'
    BY <1>1, <1>5 DEF Quiet, QuietCancels, Busy
  <2> QED
    BY <1>5, <2>1, <2>2 DEF Quiet
<1>6. ASSUME NEW code \in Codes \ {"canceled"}, ResetOperation(code), requests' = requests,
             sock.ops # <<>>, sock'.ops = <<>>
      PROVE  Quiet'
  BY <1>1, <1>2, <1>5, <1>6, LastOperationEnds DEF Quiet, QuietCancels
<1>7. ASSUME NEW code \in Codes \ {"canceled"}, OperationEnds(code)
      PROVE  Quiet'
  <2>1. /\ sock.ops # <<>> /\ requests' = requests
        /\ sock'.ops = SubSeq(sock.ops, 1, Len(sock.ops) - 1)
    BY <1>2, <1>7 DEF OperationEnds, Sockets
  <2>2. /\ Len(sock.ops) \in Nat \ {0} /\ DOMAIN sock.ops = 1 .. Len(sock.ops)
        /\ DOMAIN sock'.ops = 1 .. (Len(sock.ops) - 1)
        /\ Len(sock'.ops) = Len(sock.ops) - 1
        /\ \A k \in DOMAIN sock'.ops : sock'.ops[k] = sock.ops[k]
    BY <1>2, <2>1
  <2>3. CASE Len(sock.ops) = 1
    <3>1. ResetOperation(code)
      BY <1>7, <2>3 DEF OperationEnds
    <3>2. sock'.ops = <<>>
      BY <1>2, <2>1, <2>3
    <3> QED
      BY <1>6, <2>1, <3>1, <3>2
  <2>4. CASE Len(sock.ops) # 1
    <3>1. UNCHANGED <<cmd, reply, retryTimer, retryCount>>
      BY <1>7, <2>4 DEF OperationEnds
    <3>2. QuietRequests'
      BY <2>1, <2>2 DEF Quiet, QuietRequests
    <3>3. Busy /\ ~retryTimer /\ ~CommandQueued
      BY <2>1 DEF Quiet, QuietPhase
    <3>4. QuietPhase' /\ QuietAttempts'
      BY <1>1, <1>2, <3>1, <3>3 DEF Quiet, QuietPhase, QuietAttempts, Busy
    <3>5. CancelHitsItsCommand'
      BY <1>1, <3>1 DEF Quiet, QuietCancels, CancelHitsItsCommand
    <3> QED
      BY <1>5, <2>1, <3>1, <3>2, <3>4, <3>5
  <2> QED
    BY <2>3, <2>4
<1>8. ASSUME NEW code \in Codes \ {"canceled"}, Closed(code)
      PROVE  Quiet'
  <2>1. sock.ops # <<>> /\ requests' = requests /\ ResetOperation(code)
    BY <1>8 DEF Closed, Undisturbed
  <2>2. sock'.ops = <<>>
    BY <1>2, <1>8 DEF Closed, Sockets
  <2> QED
    BY <1>6, <2>1, <2>2
<1> QED
  BY <1>3, <1>4, <1>7, <1>8 DEF SocketEvent

(* An undisturbed engine stays quiet.                                      *)
LEMMA QuietStep ==
    ASSUME Inv, Undisturbed, Quiet, [Next]_vars
    PROVE  Undisturbed' /\ Quiet'
<1>1. env' = env
  BY DEF Next, vars, Owner, Execute, Cancel, SetAsyncRequestReply, EngineEvent,
         OnCommandEvent, DoCancel, OnSetAsyncRequestReplyEvent, OnTimer, SocketEvent,
         SendAsyncRequest, OperationEnds, Closed, DelayPasses, OtherEngineFails
<1>2. CASE UNCHANGED <<cmd, sock, queue, retryTimer, retryCount, requests, issued, reply,
                      cancelled, starts, attempts>>
  BY <1>1, <1>2 DEF Quiet, QuietQueue, QuietPhase, QuietAttempts, QuietRequests,
                    QuietCancels, CancelHitsItsCommand, CommandQueued, Busy, Undisturbed
<1>3. ~Cancel
  BY DEF Cancel, Undisturbed
<1>4. ~DoCancel
  <2>1. SUFFICES ASSUME Handles("cancel")
                 PROVE  FALSE
    BY DEF DoCancel
  <2>2. queue \in Seq(Events) /\ queue # <<>> /\ Head(queue).type = "cancel"
    BY <2>1 DEF Handles, Inv, Surroundings
  <2>3. 1 \in DOMAIN queue /\ queue[1].type = "cancel"
    BY <2>2
  <2> QED
    BY <2>3 DEF Quiet, QuietQueue
<1>5. Owner => Quiet'
  BY <1>3, ExecuteQuiet, SetAsyncRequestReplyQuiet DEF Owner
<1>6. EngineEvent => Quiet'
  BY <1>4, OnCommandEventQuiet, OnSetAsyncRequestReplyEventQuiet DEF EngineEvent
<1>7. DelayPasses \/ OtherEngineFails => Quiet'
  BY <1>2 DEF DelayPasses, OtherEngineFails
<1> QED
  BY <1>1, <1>2, <1>5, <1>6, <1>7, OnTimerQuiet, SocketEventQuiet DEF Next, vars, Undisturbed

LEMMA InitQuiet == Init => Quiet
<1>1. SUFFICES ASSUME Init
               PROVE  Quiet
  OBVIOUS
<1>2. queue = <<>> /\ sock.ops = <<>> /\ retryTimer = FALSE /\ attempts = 0 /\ ~Busy
  BY <1>1 DEF Init, NoSocket, NoCommand, Busy
<1>3. ~CommandQueued /\ QuietQueue
  BY <1>2 DEF CommandQueued, QuietQueue
<1>4. QuietPhase
  BY <1>1, <1>2, <1>3 DEF Init, QuietPhase
<1>5. QuietAttempts
  BY <1>2, <1>3 DEF QuietAttempts, Busy
<1>6. QuietRequests
  BY <1>2 DEF QuietRequests
<1>7. QuietCancels
  BY <1>1, <1>2 DEF Init, QuietCancels, CancelHitsItsCommand
<1> QED
  BY <1>3, <1>4, <1>5, <1>6, <1>7 DEF Quiet

LEMMA QuietHolds == Spec => [](Inv /\ (Undisturbed => Quiet))
<1>1. Inv /\ (Undisturbed => Quiet) /\ [Next]_vars => (Undisturbed' => Quiet')
  <2>1. ASSUME [Next]_vars
        PROVE  Undisturbed' => Undisturbed
    BY <2>1 DEF Next, vars, Owner, Execute, Cancel, SetAsyncRequestReply, EngineEvent,
         OnCommandEvent, DoCancel, OnSetAsyncRequestReplyEvent, OnTimer, SocketEvent,
         SendAsyncRequest, OperationEnds, Closed, DelayPasses, OtherEngineFails, Undisturbed
  <2> QED
    BY <2>1, QuietStep
<1>2. Init => (Undisturbed => Quiet)
  BY InitQuiet
<1> QED
  BY <1>1, <1>2, InvHolds, PTL DEF Spec

(* While an undisturbed engine waits to retry nothing runs on the old      *)
(* control socket, and a connect command makes at most                     *)
(* OPTION_RECONNECTCOUNT attempts.                                         *)
THEOREM RetriesStayOrderly == Spec => []RetriesAreOrderly
<1>1. (Undisturbed => Quiet) => RetriesAreOrderly
  BY DEF Quiet, QuietPhase, QuietAttempts, RetriesAreOrderly
<1> QED
  BY <1>1, QuietHolds, PTL

(* An undisturbed engine starts every command at most once, cancels none   *)
(* that the owner did not refuse, and runs nothing when it is idle.        *)
THEOREM CommandsRunOnceAndEnd == Spec => []RunsOnceAndEnds
<1>1. (Undisturbed => Quiet) => RunsOnceAndEnds
  BY DEF Quiet, QuietPhase, QuietCancels, RunsOnceAndEnds, IdleEngineRunsNothing
<1> QED
  BY <1>1, QuietHolds, PTL

(* An answer of the owner reaches only the operation that asked for it,    *)
(* although its number is compared with the last request of the engine.    *)
THEOREM AnswersReachTheirAsker == Spec => ReplyReachesAsker
<1>1. Inv /\ (Undisturbed => Quiet) /\ [Next]_vars =>
        [Undisturbed /\ OnSetAsyncRequestReplyEvent /\ sock' # sock
           => Top.request = Head(queue).request]_vars
  <2>1. SUFFICES ASSUME Inv, Quiet, OnSetAsyncRequestReplyEvent, sock' # sock
                 PROVE  Top.request = Head(queue).request
    OBVIOUS
  <2>2. Handles("reply") /\ Expects(Head(queue).request)
    BY <2>1 DEF OnSetAsyncRequestReplyEvent
  <2> QED
    BY <2>1, <2>2, ExpectedReplies
<1> QED
  BY <1>1, QuietHolds, PTL DEF Spec, ReplyReachesAsker
=============================================================================
