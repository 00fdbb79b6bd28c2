---------------------------- MODULE ThreadsProofs ----------------------------
(***************************************************************************)
(* Proofs about Notifications, ActivityLogger and TransferStatus, in which *)
(* the engines' threads leave something that the thread of the interface   *)
(* fetches, and wake it only when it does not look by itself: for any      *)
(* number of messages, of changes of the options, of threads, calls, bytes *)
(* and transfers, and for every protocol.                                  *)
(*                                                                         *)
(* NoNotificationLost and OneToken need each other: the callback may be    *)
(* called again only when the list is empty, because only an owner that    *)
(* has found it empty gives the token back.  DetailedLogsShown needs one   *)
(* more fact: if OnOptionsChanged has read options that have changed in    *)
(* the meantime, the event of that change is still to come.                *)
(*                                                                         *)
(* LogsInOrder rests on queued_logs_ being empty whenever a message may go *)
(* to the list directly, which only a raw command breaks.  The order is    *)
(* stated of the three sequences and of each pair of them, so that moving  *)
(* messages from one to the next is a matter of the lemmas on joining.     *)
(*                                                                         *)
(* ActivityIsNoticed is not inductive.  A thread that finds waiting_ false *)
(* wakes nobody, so somebody must be polling then (WatchedOrWaiting); and  *)
(* what is added behind the back of extract_amounts or set_notifier, after *)
(* the exchange or store of its direction, was added to zero, so that its  *)
(* thread is still to enter the critical section (LateIsFirst).            *)
(*                                                                         *)
(* BytesAreWatched is not inductive.  It rests on what send_state_ means:  *)
(* bytes that are not collected make it 2 unless the writer is about to    *)
(* (Collected), and unless it is 0 somebody is, or will be, polling        *)
(* (Watched).  FinishedIsCleared rests on Quiet: the last notification     *)
(* that is sent before a command starts is the empty one.                  *)
(***************************************************************************)
EXTENDS Notifications, ActivityLogger, TransferStatus, SequenceTheorems, TLAPS

-----------------------------------------------------------------------------
(* Notifications.                                                          *)
StaleReadNoticed == handler = "queue" /\ ~option => changes > 0

ListInv == ListTypeOK /\ NoNotificationLost /\ OneToken /\ DetailedLogsShown /\ StaleReadNoticed

(* The part of the state that AddNotification and SendQueuedLogs touch.    *)
Delivery == wakeups \in Nat /\ maySend \in BOOLEAN /\ draining \in BOOLEAN
            /\ NoNotificationLost /\ OneToken

LEMMA NumbersAreMessages ==
    ASSUME sent \in 0 .. MaxMessages, sent < MaxMessages
    PROVE  sent + 1 \in Messages /\ -(sent + 1) \in Messages /\ sent + 1 \in 0 .. MaxMessages
  BY NotificationBounds DEF Messages, Logs

LEMMA SequencesOfMessages ==
    ASSUME NEW s \in Seq(Messages), NEW t \in Seq(Messages), NEW m \in Messages
    PROVE  s \o t \in Seq(Messages) /\ Append(s, m) \in Seq(Messages)
           /\ <<m>> \in Seq(Messages) /\ <<>> \in Seq(Messages)
  OBVIOUS

LEMMA SequencesJoin ==
    ASSUME NEW s \in Seq(Messages), NEW t \in Seq(Messages)
    PROVE  s \o t \in Seq(Messages) /\ <<>> \in Seq(Messages)
  OBVIOUS

(* The callback is called with the token in hand.                          *)
LEMMA WakingKeepsDelivery ==
    ASSUME Delivery, maySend, Wake, UNCHANGED draining
    PROVE  Delivery'
<1>1. wakeups = 0 /\ ~draining
  BY DEF Delivery, OneToken
<1>2. wakeups' = 1
  BY <1>1 DEF Wake
<1>3. ~maySend' /\ maySend' \in BOOLEAN
  BY DEF Wake
<1>4. ~draining' /\ draining' \in BOOLEAN
  BY <1>1 DEF Delivery
<1> QED
  BY <1>2, <1>3, <1>4 DEF Delivery, NoNotificationLost, OneToken

(* Whatever is added, the owner is or will be told.                        *)
LEMMA AddingKeepsDelivery ==
    ASSUME Delivery, UNCHANGED draining,
           IF maySend THEN Wake ELSE UNCHANGED <<maySend, wakeups>>
    PROVE  Delivery'
<1>1. CASE maySend
  BY <1>1, WakingKeepsDelivery
<1>2. CASE ~maySend
  BY <1>2 DEF Delivery, NoNotificationLost, OneToken
<1> QED
  BY <1>1, <1>2

(* SendQueuedLogs tells the owner unless there is nothing to tell.         *)
LEMMA SendingKeepsDelivery ==
    ASSUME Delivery, SendQueuedLogs, UNCHANGED draining
    PROVE  Delivery'
<1>1. CASE maySend /\ list' # <<>>
  BY <1>1, WakingKeepsDelivery DEF SendQueuedLogs
<1>2. CASE ~(maySend /\ list' # <<>>)
  BY <1>2 DEF Delivery, NoNotificationLost, OneToken, SendQueuedLogs
<1> QED
  BY <1>1, <1>2

LEMMA DeliveryUnchanged ==
    ASSUME Delivery, UNCHANGED <<list, maySend, wakeups, draining>>
    PROVE  Delivery'
  BY DEF Delivery, NoNotificationLost, OneToken

LEMMA InvHasDelivery == ListInv => Delivery
  BY DEF ListInv, ListTypeOK, Delivery

-----------------------------------------------------------------------------
LEMMA MessageStep ==
    ASSUME ListInv, AddPlainNotification \/ LogError \/ LogStatus \/ LogOther
    PROVE  ListInv'
<1>1. sent + 1 \in Messages /\ -(sent + 1) \in Messages /\ sent' \in 0 .. MaxMessages
      /\ UNCHANGED <<draining, option, changes, handler, got, changed, raw>>
  BY NumbersAreMessages
     DEF ListInv, ListTypeOK, AddPlainNotification, LogError, LogStatus, LogOther, NewMessage
<1>2. Delivery'
  <2>1. CASE LogOther /\ queueLogs
    BY <2>1, InvHasDelivery, DeliveryUnchanged DEF LogOther
  <2>2. CASE ~(LogOther /\ queueLogs)
    <3>1. IF maySend THEN Wake ELSE UNCHANGED <<maySend, wakeups>>
      BY <2>2 DEF AddPlainNotification, LogError, LogStatus, LogOther, AddNotification
    <3> QED
      BY <1>1, <3>1, InvHasDelivery, AddingKeepsDelivery
  <2> QED
    BY <2>1, <2>2
<1>3. list' \in Seq(Messages) /\ queued' \in Seq(Messages) /\ queueLogs' \in BOOLEAN
  <2>1. list \in Seq(Messages) /\ queued \in Seq(Messages) /\ queueLogs \in BOOLEAN
    BY DEF ListInv, ListTypeOK
  <2>2. CASE AddPlainNotification
    BY <1>1, <2>1, <2>2 DEF AddPlainNotification, AddNotification
  <2>3. CASE LogError
    <3>1. list' = list \o Append(queued, sent + 1) /\ queued' = <<>> /\ queueLogs' = FALSE
      BY <2>3 DEF LogError, AddNotification
    <3> QED
      BY <1>1, <2>1, <3>1, SequencesOfMessages
  <2>4. CASE LogStatus
    BY <1>1, <2>1, <2>4 DEF LogStatus, AddNotification
  <2>5. CASE LogOther
    <3>1. queueLogs' = queueLogs
      BY <2>5 DEF LogOther
    <3>2. \/ list' = list /\ queued' = Append(queued, sent + 1)
          \/ list' = list \o <<sent + 1>> /\ queued' = queued
      BY <2>5 DEF LogOther, AddNotification
    <3> QED
      BY <1>1, <2>1, <3>1, <3>2, SequencesOfMessages
  <2> QED
    BY <2>2, <2>3, <2>4, <2>5
<1>4. DetailedLogsShown'
  BY <1>1 DEF ListInv, DetailedLogsShown, AddPlainNotification, LogError, LogStatus, LogOther
<1>5. ListTypeOK'
  BY <1>1, <1>2, <1>3 DEF ListInv, ListTypeOK, Delivery
<1> QED
  BY <1>1, <1>2, <1>4, <1>5 DEF ListInv, StaleReadNoticed, Delivery

LEMMA CommandStep ==
    ASSUME ListInv, CommandFails \/ CommandSucceeds \/ RawCommand
    PROVE  ListInv'
<1>1. UNCHANGED <<draining, option, changes, handler, sent, got, changed>>
  BY DEF CommandFails, CommandSucceeds, RawCommand
<1>2. Delivery'
  BY InvHasDelivery, SendingKeepsDelivery, DeliveryUnchanged
     DEF CommandFails, CommandSucceeds, RawCommand, ClearQueuedLogs
<1>3. list' \in Seq(Messages) /\ queued' \in Seq(Messages)
  <2>1. list \in Seq(Messages) /\ queued \in Seq(Messages)
    BY DEF ListInv, ListTypeOK
  <2>2. /\ list' = list \/ list' = list \o queued
        /\ queued' = queued \/ queued' = <<>>
    BY DEF CommandFails, CommandSucceeds, RawCommand, ClearQueuedLogs, SendQueuedLogs
  <2> QED
    BY <2>1, <2>2, SequencesJoin
<1>4. queueLogs' \in BOOLEAN /\ raw' \in BOOLEAN
  BY DEF ListInv, ListTypeOK, CommandFails, CommandSucceeds, RawCommand, ClearQueuedLogs,
         SendQueuedLogs
<1>5. DetailedLogsShown'
  BY <1>1 DEF ListInv, DetailedLogsShown, CommandFails, CommandSucceeds, RawCommand,
              ClearQueuedLogs, SendQueuedLogs
<1>6. ListTypeOK'
  BY <1>1, <1>2, <1>3, <1>4 DEF ListInv, ListTypeOK, Delivery
<1> QED
  BY <1>1, <1>2, <1>5, <1>6 DEF ListInv, StaleReadNoticed, Delivery

LEMMA OptionsStep ==
    ASSUME ListInv, ChangeOptions \/ OnOptionsChanged \/ ApplyOptions
    PROVE  ListInv'
<1>1. CASE ChangeOptions
  <2>1. Delivery'
    BY <1>1, InvHasDelivery, DeliveryUnchanged DEF ChangeOptions
  <2>2. changes' \in Nat /\ changes' > 0 /\ changed' \in 0 .. MaxChanges
    BY <1>1, NotificationBounds DEF ListInv, ListTypeOK, ChangeOptions
  <2>3. option' \in BOOLEAN
    BY <1>1 DEF ListInv, ListTypeOK, ChangeOptions
  <2>4. ListTypeOK'
    BY <1>1, <2>1, <2>2, <2>3 DEF ListInv, ListTypeOK, ChangeOptions
  <2> QED
    BY <2>1, <2>2, <2>4 DEF ListInv, DetailedLogsShown, StaleReadNoticed, Delivery
<1>2. CASE OnOptionsChanged
  <2>1. Delivery'
    BY <1>2, InvHasDelivery, DeliveryUnchanged DEF OnOptionsChanged
  <2>2. changes' \in Nat
    BY <1>2 DEF ListInv, ListTypeOK, OnOptionsChanged
  <2>3. handler' = (IF option THEN "queue" ELSE "send") /\ option' = option
    BY <1>2 DEF OnOptionsChanged
  <2>4. ListTypeOK'
    BY <1>2, <2>1, <2>2, <2>3 DEF ListInv, ListTypeOK, OnOptionsChanged
  <2> QED
    BY <2>1, <2>3, <2>4 DEF ListInv, DetailedLogsShown, StaleReadNoticed, Delivery
<1>3. CASE ApplyOptions
  <2>1. UNCHANGED <<draining, option, changes, sent, got, changed, raw>> /\ handler' = "none"
    BY <1>3 DEF ApplyOptions
  <2>2. Delivery'
    BY <1>3, InvHasDelivery, SendingKeepsDelivery, DeliveryUnchanged DEF ApplyOptions
  <2>3. list' \in Seq(Messages) /\ queued' \in Seq(Messages)
    <3>1. list \in Seq(Messages) /\ queued \in Seq(Messages)
      BY DEF ListInv, ListTypeOK
    <3>2. /\ list' = list \/ list' = list \o queued
          /\ queued' = queued \/ queued' = <<>>
      BY <1>3 DEF ApplyOptions, SendQueuedLogs
    <3> QED
      BY <3>1, <3>2, SequencesJoin
  <2>4. queueLogs' \in BOOLEAN
    BY <1>3 DEF ListInv, ListTypeOK, ApplyOptions, SendQueuedLogs
  <2>5. DetailedLogsShown'
    <3>1. CASE handler = "queue"
      BY <2>1, <3>1 DEF ListInv, ListTypeOK, StaleReadNoticed, DetailedLogsShown
    <3>2. CASE handler # "queue"
      BY <1>3, <2>1, <3>2 DEF ApplyOptions, SendQueuedLogs, DetailedLogsShown
    <3> QED
      BY <3>1, <3>2
  <2>6. ListTypeOK'
    BY <2>1, <2>2, <2>3, <2>4 DEF ListInv, ListTypeOK, Delivery
  <2> QED
    BY <2>1, <2>2, <2>5, <2>6 DEF ListInv, StaleReadNoticed, Delivery
<1> QED
  BY <1>1, <1>2, <1>3

LEMMA OwnerStep ==
    ASSUME ListInv, OwnerGets
    PROVE  ListInv'
<1>1. UNCHANGED <<queued, queueLogs, option, changes, handler, sent, changed, raw>>
  BY DEF OwnerGets, OnEngineEvent, GetNextNotification
<1>2. CASE OnEngineEvent
  <2>1. Delivery'
    BY <1>2, InvHasDelivery DEF Delivery, NoNotificationLost, OneToken, OnEngineEvent
  <2>2. ListTypeOK'
    BY <1>1, <1>2, <2>1 DEF ListInv, ListTypeOK, OnEngineEvent, Delivery
  <2> QED
    BY <1>1, <2>1, <2>2 DEF ListInv, DetailedLogsShown, StaleReadNoticed, Delivery
<1>3. CASE GetNextNotification
  <2>1. Delivery'
    <3>1. wakeups = 0 /\ wakeups' = 0 /\ ~maySend /\ draining
      BY <1>3, InvHasDelivery DEF GetNextNotification, Delivery, OneToken
    <3>2. CASE list = <<>>
      <4>1. maySend' = TRUE /\ draining' = FALSE /\ list' = <<>>
        BY <1>3, <3>2 DEF GetNextNotification
      <4>2. maySend' /\ ~draining' /\ maySend' \in BOOLEAN /\ draining' \in BOOLEAN
        BY <4>1
      <4> QED
        BY <3>1, <4>1, <4>2 DEF Delivery, NoNotificationLost, OneToken
    <3>3. CASE list # <<>>
      <4>1. maySend' = maySend /\ draining' = draining
        BY <1>3, <3>3 DEF GetNextNotification
      <4>2. ~maySend' /\ draining' /\ maySend' \in BOOLEAN /\ draining' \in BOOLEAN
        BY <3>1, <4>1, InvHasDelivery DEF Delivery
      <4> QED
        BY <3>1, <4>2 DEF Delivery, NoNotificationLost, OneToken
    <3> QED
      BY <3>2, <3>3
  <2>2. list' \in Seq(Messages) /\ got' \in Seq(Messages)
    <3>1. list \in Seq(Messages) /\ got \in Seq(Messages)
      BY DEF ListInv, ListTypeOK
    <3>2. CASE list = <<>>
      BY <1>3, <3>1, <3>2 DEF GetNextNotification
    <3>3. CASE list # <<>>
      <4>1. Head(list) \in Messages /\ Tail(list) \in Seq(Messages)
        BY <3>1, <3>3
      <4>2. got' = Append(got, Head(list)) /\ list' = Tail(list)
        BY <1>3, <3>3 DEF GetNextNotification
      <4> QED
        BY <3>1, <4>1, <4>2, SequencesOfMessages
    <3> QED
      BY <3>2, <3>3
  <2>3. ListTypeOK'
    BY <1>1, <1>3, <2>1, <2>2 DEF ListInv, ListTypeOK, GetNextNotification, Delivery
  <2> QED
    BY <1>1, <2>1, <2>3 DEF ListInv, DetailedLogsShown, StaleReadNoticed, Delivery
<1> QED
  BY <1>2, <1>3 DEF OwnerGets

LEMMA ListInvHolds == ListSpec => []ListInv
<1>1. ASSUME ListInit
      PROVE  ListInv
  <2>1. ListTypeOK
    <3>1. maySend \in BOOLEAN /\ draining \in BOOLEAN /\ queueLogs \in BOOLEAN
          /\ option \in BOOLEAN /\ raw \in BOOLEAN
      BY <1>1 DEF ListInit
    <3> QED
      BY <1>1, <3>1, NotificationBounds DEF ListInit, ListTypeOK
  <2>2. NoNotificationLost /\ OneToken
    BY <1>1 DEF ListInit, NoNotificationLost, OneToken
  <2>3. DetailedLogsShown /\ StaleReadNoticed
    BY <1>1 DEF ListInit, DetailedLogsShown, StaleReadNoticed
  <2> QED
    BY <2>1, <2>2, <2>3 DEF ListInv
<1>2. ListInv /\ [ListNext]_listVars => ListInv'
  <2>1. SUFFICES ASSUME ListInv, [ListNext]_listVars
                 PROVE  ListInv'
    OBVIOUS
  <2>2. CASE UNCHANGED listVars
    BY <2>1, <2>2 DEF listVars, ListInv, ListTypeOK, NoNotificationLost, OneToken,
                      DetailedLogsShown, StaleReadNoticed
  <2> QED
    BY <2>1, <2>2, MessageStep, CommandStep, OptionsStep, OwnerStep DEF ListNext, Engine
<1> QED
  BY <1>1, <1>2, PTL DEF ListSpec

(* No notification is left in the list unless the owner is on its way to   *)
(* fetch it.                                                               *)
THEOREM NothingIsLost == ListSpec => []NoNotificationLost
<1>1. ListInv => NoNotificationLost
  BY DEF ListInv
<1> QED
  BY <1>1, ListInvHolds, PTL

(* The callback, its call and the owner's loop exclude each other.         *)
THEOREM CallbackTokenIsUnique == ListSpec => []OneToken
<1>1. ListInv => OneToken
  BY DEF ListInv
<1> QED
  BY <1>1, ListInvHolds, PTL

(* Handled changes of the logging options are effective.                   *)
THEOREM DetailedLogsAreShown == ListSpec => []DetailedLogsShown
<1>1. ListInv => DetailedLogsShown
  BY DEF ListInv
<1> QED
  BY <1>1, ListInvHolds, PTL

-----------------------------------------------------------------------------
(* The order of the log messages.                                          *)

(* The log messages in s are in order.                                     *)
Rising(s) ==
    \A i, j \in 1 .. Len(s) : i < j /\ s[i] \in Logs /\ s[j] \in Logs => s[i] < s[j]

(* Those in s arose before those in t.                                     *)
Before(s, t) ==
    \A i \in 1 .. Len(s), j \in 1 .. Len(t) :
        s[i] \in Logs /\ t[j] \in Logs => s[i] < t[j]

(* They are among the first n messages.                                    *)
UpTo(s, n) == \A i \in 1 .. Len(s) : s[i] <= n

NothingInvented == UpTo(got, sent) /\ UpTo(list, sent) /\ UpTo(queued, sent)

NothingOvertakes ==
    ~raw => /\ ~queueLogs => queued = <<>>
            /\ Rising(got) /\ Rising(list) /\ Rising(queued)
            /\ Before(got, list) /\ Before(got, queued) /\ Before(list, queued)

OrderInv == ListInv /\ NothingInvented /\ NothingOvertakes

(* Where the elements of a joined sequence come from.                      *)
LEMMA JoinElements ==
    ASSUME NEW s \in Seq(Messages), NEW t \in Seq(Messages), NEW i \in 1 .. Len(s \o t)
    PROVE  \/ i \in 1 .. Len(s) /\ (s \o t)[i] = s[i]
           \/ i > Len(s) /\ i - Len(s) \in 1 .. Len(t) /\ (s \o t)[i] = t[i - Len(s)]
  OBVIOUS

LEMMA MessagesAreIntegers ==
    ASSUME NEW s \in Seq(Messages), NEW i \in 1 .. Len(s)
    PROVE  s[i] \in Int
<1>1. s[i] \in Messages
  OBVIOUS
<1> QED
  BY <1>1, NotificationBounds DEF Messages, Logs

LEMMA RisingJoin ==
    ASSUME NEW s \in Seq(Messages), NEW t \in Seq(Messages),
           Rising(s), Rising(t), Before(s, t)
    PROVE  Rising(s \o t)
<1> SUFFICES ASSUME NEW i \in 1 .. Len(s \o t), NEW j \in 1 .. Len(s \o t), i < j,
                    (s \o t)[i] \in Logs, (s \o t)[j] \in Logs
             PROVE  (s \o t)[i] < (s \o t)[j]
  BY DEF Rising
<1>1. Len(s) \in Nat /\ Len(t) \in Nat /\ i \in Int /\ j \in Int
  OBVIOUS
<1>2. CASE i \in 1 .. Len(s) /\ j \in 1 .. Len(s)
  BY <1>1, <1>2, JoinElements DEF Rising
<1>3. CASE i \in 1 .. Len(s) /\ j > Len(s)
  BY <1>1, <1>3, JoinElements DEF Before
<1>4. CASE i > Len(s) /\ j > Len(s)
  <2>1. i - Len(s) < j - Len(s)
    BY <1>1
  <2>2. i - Len(s) \in 1 .. Len(t) /\ (s \o t)[i] = t[i - Len(s)]
    BY <1>1, <1>4, JoinElements
  <2>3. j - Len(s) \in 1 .. Len(t) /\ (s \o t)[j] = t[j - Len(s)]
    BY <1>1, <1>4, JoinElements
  <2> QED
    BY <2>1, <2>2, <2>3 DEF Rising
<1> QED
  BY <1>1, <1>2, <1>3, <1>4, JoinElements

LEMMA BeforeJoin ==
    ASSUME NEW s \in Seq(Messages), NEW t \in Seq(Messages), NEW u \in Seq(Messages)
    PROVE  /\ Before(s, t) /\ Before(s, u) => Before(s, t \o u)
           /\ Before(s, u) /\ Before(t, u) => Before(s \o t, u)
<1>1. ASSUME Before(s, t), Before(s, u)
      PROVE  Before(s, t \o u)
  BY <1>1, JoinElements DEF Before
<1>2. ASSUME Before(s, u), Before(t, u)
      PROVE  Before(s \o t, u)
  <2> SUFFICES ASSUME NEW i \in 1 .. Len(s \o t), NEW j \in 1 .. Len(u),
                      (s \o t)[i] \in Logs, u[j] \in Logs
               PROVE  (s \o t)[i] < u[j]
    BY DEF Before
  <2>1. CASE i \in 1 .. Len(s) /\ (s \o t)[i] = s[i]
    BY <1>2, <2>1 DEF Before
  <2>2. CASE i - Len(s) \in 1 .. Len(t) /\ (s \o t)[i] = t[i - Len(s)]
    BY <1>2, <2>2 DEF Before
  <2> QED
    BY <2>1, <2>2, JoinElements
<1> QED
  BY <1>1, <1>2

LEMMA UpToJoin ==
    ASSUME NEW s \in Seq(Messages), NEW t \in Seq(Messages), NEW n \in Nat,
           UpTo(s, n), UpTo(t, n)
    PROVE  UpTo(s \o t, n)
  BY JoinElements DEF UpTo

LEMMA UpToLater ==
    ASSUME NEW s \in Seq(Messages), NEW n \in Nat, UpTo(s, n)
    PROVE  UpTo(s, n + 1)
  BY MessagesAreIntegers DEF UpTo

(* A new log message comes after all there are.                            *)
LEMMA NewestIsLast ==
    ASSUME NEW s \in Seq(Messages), NEW n \in Nat, n < MaxMessages, UpTo(s, n)
    PROVE  Before(s, <<n + 1>>) /\ Rising(<<n + 1>>) /\ UpTo(<<n + 1>>, n + 1)
  BY MessagesAreIntegers DEF UpTo, Before, Rising

(* Notifications that are not log messages may be anywhere.                *)
LEMMA OthersAnywhere ==
    ASSUME NEW s \in Seq(Messages), NEW n \in Nat
    PROVE  /\ Before(s, <<-(n + 1)>>) /\ Before(<<-(n + 1)>>, s) /\ Rising(<<-(n + 1)>>)
           /\ UpTo(<<-(n + 1)>>, n + 1)
<1>1. -(n + 1) \notin Logs
  BY NotificationBounds DEF Logs
<1>2. Len(<<-(n + 1)>>) = 1 /\ <<-(n + 1)>>[1] = -(n + 1) /\ -(n + 1) <= n + 1
  OBVIOUS
<1> QED
  BY <1>1, <1>2 DEF UpTo, Before, Rising

LEMMA NothingIsOrdered ==
    ASSUME NEW s, NEW n
    PROVE  Before(s, <<>>) /\ Before(<<>>, s) /\ Rising(<<>>) /\ UpTo(<<>>, n)
  BY DEF UpTo, Before, Rising

(* Taking the front of the list.                                           *)
LEMMA FrontAndRest ==
    ASSUME NEW s \in Seq(Messages), NEW t \in Seq(Messages), NEW n \in Nat, s # <<>>
    PROVE  /\ Rising(s) => Rising(<<Head(s)>>) /\ Rising(Tail(s)) /\ Before(<<Head(s)>>, Tail(s))
           /\ Before(t, s) => Before(t, <<Head(s)>>) /\ Before(t, Tail(s))
           /\ Before(s, t) => Before(<<Head(s)>>, t) /\ Before(Tail(s), t)
           /\ UpTo(s, n) => UpTo(<<Head(s)>>, n) /\ UpTo(Tail(s), n)
<1> DEFINE h == <<Head(s)>>
           r == Tail(s)
<1>1. Len(s) \in Nat /\ Len(s) > 0 /\ Len(r) = Len(s) - 1 /\ Len(h) = 1 /\ h[1] = s[1]
  OBVIOUS
<1>2. ASSUME NEW i \in 1 .. Len(r)
      PROVE  i + 1 \in 1 .. Len(s) /\ r[i] = s[i + 1]
  OBVIOUS
<1>3. 1 \in 1 .. Len(s) /\ \A i \in 1 .. Len(h) : i = 1 /\ h[i] = s[1]
  BY <1>1
<1> HIDE DEF h, r
<1>4. Rising(s) => Rising(h) /\ Rising(r) /\ Before(h, r)
  <2>1. Rising(h)
    BY <1>1 DEF Rising
  <2>2. Rising(s) => Rising(r)
    <3> SUFFICES ASSUME Rising(s), NEW i \in 1 .. Len(r), NEW j \in 1 .. Len(r), i < j,
                        r[i] \in Logs, r[j] \in Logs
                 PROVE  r[i] < r[j]
      BY DEF Rising
    <3>1. i + 1 < j + 1
      BY <1>1
    <3> QED
      BY <1>2, <3>1 DEF Rising
  <2>3. Rising(s) => Before(h, r)
    BY <1>1, <1>2, <1>3 DEF Rising, Before
  <2> QED
    BY <2>1, <2>2, <2>3
<1>5. Before(t, s) => Before(t, h) /\ Before(t, r)
  BY <1>2, <1>3 DEF Before
<1>6. Before(s, t) => Before(h, t) /\ Before(r, t)
  BY <1>2, <1>3 DEF Before
<1>7. UpTo(s, n) => UpTo(h, n) /\ UpTo(r, n)
  BY <1>2, <1>3 DEF UpTo
<1> QED
  BY <1>4, <1>5, <1>6, <1>7 DEF h, r

(* LogError moves the queued messages to the list, in front of the error.  *)
LEMMA JoinThree ==
    ASSUME NEW s \in Seq(Messages), NEW t \in Seq(Messages), NEW m \in Messages
    PROVE  s \o Append(t, m) = (s \o t) \o <<m>> /\ Append(t, m) = t \o <<m>>
  OBVIOUS

(* What a new message does to the three sequences.                         *)
LEMMA OrderOfMessages ==
    ASSUME OrderInv, AddPlainNotification \/ LogError \/ LogStatus \/ LogOther
    PROVE  (NothingInvented /\ NothingOvertakes)'
<1> DEFINE new == <<sent + 1>>
           plain == <<-(sent + 1)>>
<1>1. /\ list \in Seq(Messages) /\ queued \in Seq(Messages) /\ got \in Seq(Messages)
      /\ sent \in Nat /\ sent < MaxMessages
      /\ sent + 1 \in Messages /\ -(sent + 1) \in Messages
      /\ new \in Seq(Messages) /\ plain \in Seq(Messages)
  BY NumbersAreMessages, NotificationBounds
     DEF OrderInv, ListInv, ListTypeOK, AddPlainNotification, LogError, LogStatus, LogOther, NewMessage
<1>2. /\ sent' = sent + 1 /\ got' = got /\ raw' = raw
      /\ UpTo(got, sent) /\ UpTo(list, sent) /\ UpTo(queued, sent)
  BY DEF AddPlainNotification, LogError, LogStatus, LogOther, NewMessage, OrderInv,
         NothingInvented
<1>3. /\ UpTo(got, sent + 1) /\ UpTo(list, sent + 1) /\ UpTo(queued, sent + 1)
      /\ UpTo(new, sent + 1) /\ UpTo(plain, sent + 1)
      /\ Rising(new) /\ Before(got, new) /\ Before(list, new) /\ Before(queued, new)
      /\ Rising(plain) /\ Before(got, plain) /\ Before(list, plain)
      /\ Before(plain, queued)
  BY <1>1, <1>2, UpToLater, NewestIsLast, OthersAnywhere
<1>4. UpTo(list \o queued, sent + 1)
  BY <1>1, <1>3, UpToJoin
<1> HIDE DEF new, plain
<1>5. \/ list' = list \o plain /\ queued' = queued /\ queueLogs' = queueLogs
      \/ list' = (list \o queued) \o new /\ queued' = <<>>
      \/ list' = list \o new /\ queued' = <<>>
      \/ list' = list \o new /\ queued' = queued /\ ~queueLogs /\ queueLogs' = queueLogs
      \/ list' = list /\ queued' = queued \o new /\ queueLogs /\ queueLogs' = queueLogs
  BY <1>1, JoinThree
     DEF AddPlainNotification, LogError, LogStatus, LogOther, AddNotification, new, plain
<1>6. NothingInvented'
  <2>1. list \o queued \in Seq(Messages) /\ sent + 1 \in Nat
    BY <1>1
  <2>2. /\ UpTo(list \o plain, sent + 1) /\ UpTo(list \o new, sent + 1)
        /\ UpTo((list \o queued) \o new, sent + 1) /\ UpTo(queued \o new, sent + 1)
        /\ UpTo(<<>>, sent + 1)
    BY <1>1, <1>3, <1>4, <2>1, UpToJoin, NothingIsOrdered
  <2> QED
    BY <1>2, <1>3, <1>5, <2>2 DEF NothingInvented
<1>7. ASSUME ~raw
      PROVE  NothingOvertakes'
  <2>1. /\ ~queueLogs => queued = <<>>
        /\ Rising(got) /\ Rising(list) /\ Rising(queued)
        /\ Before(got, list) /\ Before(got, queued) /\ Before(list, queued)
    BY <1>7 DEF OrderInv, NothingOvertakes
  <2>2. CASE list' = list \o plain /\ queued' = queued /\ queueLogs' = queueLogs
    BY <1>1, <1>2, <1>3, <2>1, <2>2, RisingJoin, BeforeJoin DEF NothingOvertakes
  <2>3. CASE list' = (list \o queued) \o new /\ queued' = <<>>
    <3>1. list \o queued \in Seq(Messages) /\ Rising(list \o queued)
          /\ Before(got, list \o queued) /\ Before(list \o queued, new)
      BY <1>1, <1>3, <2>1, RisingJoin, BeforeJoin
    <3> QED
      BY <1>1, <1>2, <1>3, <2>1, <2>3, <3>1, RisingJoin, BeforeJoin, NothingIsOrdered
         DEF NothingOvertakes
  <2>4. CASE list' = list \o new /\ queued' = <<>>
    BY <1>1, <1>2, <1>3, <2>1, <2>4, RisingJoin, BeforeJoin, NothingIsOrdered
       DEF NothingOvertakes
  <2>5. CASE list' = list /\ queued' = queued \o new /\ queueLogs /\ queueLogs' = queueLogs
    BY <1>1, <1>2, <1>3, <2>1, <2>5, RisingJoin, BeforeJoin DEF NothingOvertakes
  <2> QED
    BY <1>5, <2>1, <2>2, <2>3, <2>4, <2>5
<1>8. raw => NothingOvertakes'
  BY <1>2 DEF NothingOvertakes
<1> QED
  BY <1>6, <1>7, <1>8

(* Moving or dropping the queued messages.                                 *)
LEMMA OrderOfQueued ==
    ASSUME OrderInv, UNCHANGED <<sent, got>>, raw' \/ raw' = raw,
           \/ list' = list \o queued /\ queued' = <<>>
           \/ list' = list /\ queued' = <<>>
           \/ list' = list /\ queued' = queued /\ (queueLogs' \/ queueLogs' = queueLogs \/ raw')
    PROVE  (NothingInvented /\ NothingOvertakes)'
<1>1. /\ list \in Seq(Messages) /\ queued \in Seq(Messages) /\ got \in Seq(Messages)
      /\ sent \in Nat
  BY NotificationBounds DEF OrderInv, ListInv, ListTypeOK
<1>2. NothingInvented'
  <2>1. UpTo(got, sent) /\ UpTo(list, sent) /\ UpTo(queued, sent)
    BY DEF OrderInv, NothingInvented
  <2>2. UpTo(list \o queued, sent) /\ UpTo(<<>>, sent)
    BY <1>1, <2>1, UpToJoin, NothingIsOrdered
  <2> QED
    BY <2>1, <2>2 DEF NothingInvented
<1>3. ASSUME ~raw, ~raw'
      PROVE  NothingOvertakes'
  <2>1. /\ ~queueLogs => queued = <<>>
        /\ Rising(got) /\ Rising(list) /\ Rising(queued)
        /\ Before(got, list) /\ Before(got, queued) /\ Before(list, queued)
    BY <1>3 DEF OrderInv, NothingOvertakes
  <2>2. Rising(list \o queued) /\ Before(got, list \o queued)
    BY <1>1, <2>1, RisingJoin, BeforeJoin
  <2>3. Rising(<<>>) /\ Before(got, <<>>) /\ Before(list, <<>>) /\ Before(list \o queued, <<>>)
    BY NothingIsOrdered
  <2> QED
    BY <1>3, <2>1, <2>2, <2>3 DEF NothingOvertakes
<1>4. raw' => NothingOvertakes'
  BY DEF NothingOvertakes
<1>5. raw => raw'
  OBVIOUS
<1> QED
  BY <1>2, <1>3, <1>4, <1>5

(* The owner takes the front of the list.                                  *)
LEMMA OrderOfShown ==
    ASSUME OrderInv, UNCHANGED <<sent, queued, queueLogs, raw>>, list # <<>>,
           got' = Append(got, Head(list)), list' = Tail(list)
    PROVE  (NothingInvented /\ NothingOvertakes)'
<1> DEFINE h == <<Head(list)>>
<1>1. /\ list \in Seq(Messages) /\ queued \in Seq(Messages) /\ got \in Seq(Messages)
      /\ sent \in Nat /\ h \in Seq(Messages) /\ list' \in Seq(Messages)
      /\ got' = got \o h
  BY NotificationBounds DEF OrderInv, ListInv, ListTypeOK
<1> HIDE DEF h
<1>2. UpTo(h, sent) /\ UpTo(list', sent)
  BY <1>1, FrontAndRest DEF OrderInv, NothingInvented, h
<1>3. NothingInvented'
  BY <1>1, <1>2, UpToJoin DEF OrderInv, NothingInvented
<1>4. ASSUME ~raw
      PROVE  NothingOvertakes'
  <2>1. /\ ~queueLogs => queued = <<>>
        /\ Rising(got) /\ Rising(list) /\ Rising(queued)
        /\ Before(got, list) /\ Before(got, queued) /\ Before(list, queued)
    BY <1>4 DEF OrderInv, NothingOvertakes
  <2>2. /\ Rising(h) /\ Rising(list') /\ Before(h, list') /\ Before(got, h)
        /\ Before(got, list') /\ Before(h, queued) /\ Before(list', queued)
    BY <1>1, <2>1, FrontAndRest DEF h
  <2>3. Rising(got \o h) /\ Before(got \o h, list') /\ Before(got \o h, queued)
    BY <1>1, <2>1, <2>2, RisingJoin, BeforeJoin
  <2> QED
    BY <1>1, <2>1, <2>2, <2>3 DEF NothingOvertakes
<1>5. raw => NothingOvertakes'
  BY DEF NothingOvertakes
<1> QED
  BY <1>3, <1>4, <1>5

LEMMA OrderInvHolds == ListSpec => []OrderInv
<1>1. ASSUME ListInit
      PROVE  NothingInvented /\ NothingOvertakes
  BY <1>1, NothingIsOrdered DEF ListInit, NothingInvented, NothingOvertakes
<1>2. OrderInv /\ [ListNext]_listVars => (NothingInvented /\ NothingOvertakes)'
  <2>1. SUFFICES ASSUME OrderInv, [ListNext]_listVars
                 PROVE  (NothingInvented /\ NothingOvertakes)'
    OBVIOUS
  <2>2. CASE UNCHANGED listVars
    BY <2>1, <2>2 DEF listVars, OrderInv, NothingInvented, NothingOvertakes
  <2>3. CASE AddPlainNotification \/ LogError \/ LogStatus \/ LogOther
    BY <2>1, <2>3, OrderOfMessages
  <2>4. CASE CommandFails \/ CommandSucceeds \/ RawCommand
    <3>1. UNCHANGED <<sent, got>> /\ (raw' \/ raw' = raw)
      BY <2>4 DEF CommandFails, CommandSucceeds, RawCommand
    <3>2. \/ list' = list \o queued /\ queued' = <<>>
          \/ list' = list /\ queued' = <<>>
          \/ list' = list /\ queued' = queued /\ raw'
      BY <2>4 DEF CommandFails, CommandSucceeds, RawCommand, SendQueuedLogs, ClearQueuedLogs
    <3> QED
      BY <2>1, <3>1, <3>2, OrderOfQueued
  <2>5. CASE ChangeOptions \/ OnOptionsChanged
    BY <2>1, <2>5, OrderOfQueued DEF ChangeOptions, OnOptionsChanged
  <2>6. CASE ApplyOptions
    <3>1. UNCHANGED <<sent, got, raw>>
      BY <2>6 DEF ApplyOptions
    <3>2. \/ list' = list \o queued /\ queued' = <<>>
          \/ list' = list /\ queued' = queued /\ queueLogs'
      BY <2>6 DEF ApplyOptions, SendQueuedLogs
    <3> QED
      BY <2>1, <3>1, <3>2, OrderOfQueued
  <2>7. CASE OnEngineEvent
    BY <2>1, <2>7, OrderOfQueued DEF OnEngineEvent
  <2>8. CASE GetNextNotification
    <3>1. CASE list = <<>>
      <4>1. UNCHANGED <<sent, got, raw, list, queued, queueLogs>>
        BY <2>8, <3>1 DEF GetNextNotification
      <4> QED
        BY <2>1, <4>1, OrderOfQueued
    <3>2. CASE list # <<>>
      BY <2>1, <2>8, <3>2, OrderOfShown DEF GetNextNotification
    <3> QED
      BY <3>1, <3>2
  <2> QED
    BY <2>1, <2>2, <2>3, <2>4, <2>5, <2>6, <2>7, <2>8 DEF ListNext, Engine, OwnerGets
<1> QED
  BY <1>1, <1>2, ListInvHolds, PTL DEF ListSpec, OrderInv

(* No log message overtakes another on the detour over queued_logs_, as    *)
(* long as no raw command has been executed.                               *)
THEOREM LogsStayInOrder == ListSpec => []LogsInOrder
<1>1. OrderInv => LogsInOrder
  <2> SUFFICES ASSUME OrderInv, ~raw
               PROVE  Rising(got \o list \o queued)
    BY DEF LogsInOrder, Rising
  <2>1. list \in Seq(Messages) /\ queued \in Seq(Messages) /\ got \in Seq(Messages)
        /\ got \o list \in Seq(Messages)
    BY DEF OrderInv, ListInv, ListTypeOK
  <2>2. Rising(got \o list) /\ Before(got \o list, queued)
    BY <2>1, RisingJoin, BeforeJoin DEF OrderInv, NothingOvertakes
  <2> QED
    BY <2>1, <2>2, RisingJoin DEF OrderInv, NothingOvertakes
<1> QED
  BY <1>1, OrderInvHolds, PTL

(* Types are respected.                                                    *)
THEOREM ListTypeCorrect == ListSpec => []ListTypeOK
<1>1. ListInv => ListTypeOK
  BY DEF ListInv
<1> QED
  BY <1>1, ListInvHolds, PTL

-----------------------------------------------------------------------------
(* ActivityLogger.                                                         *)
SomeFirst == \E r \in Recorders : recorder[r] = "first"

(* Outside of the mutex, waiting_ is false only while somebody polls.      *)
WatchedOrWaiting == notifier /\ bar = "idle" => waiting \/ activityTimer \/ calls > 0

(* An amount that was cleared and is positive again has a thread that has  *)
(* not notified yet.                                                       *)
LateIsFirst == \A d \in Directions \ left : bar # "idle" /\ amounts[d] > 0 => SomeFirst

ActivityInv == LoggerTypeOK /\ WatchedOrWaiting /\ LateIsFirst /\ ActivityIsNoticed

-----------------------------------------------------------------------------
LEMMA InitActivity == LoggerInit => ActivityInv
<1>1. SUFFICES ASSUME LoggerInit
               PROVE  ActivityInv
  OBVIOUS
<1>2. waiting \in BOOLEAN /\ notifier \in BOOLEAN /\ activityTimer \in BOOLEAN
  BY <1>1 DEF LoggerInit
<1>3. LoggerTypeOK
  BY <1>1, <1>2, RecordBound DEF LoggerInit, LoggerTypeOK
<1>4. ~notifier /\ bar = "idle"
  BY <1>1 DEF LoggerInit
<1> QED
  BY <1>3, <1>4 DEF ActivityInv, WatchedOrWaiting, LateIsFirst, ActivityIsNoticed

LEMMA RecordStep ==
    ASSUME ActivityInv, NEW r \in Recorders, NEW d \in Directions, Record(r, d)
    PROVE  ActivityInv'
<1>1. LoggerTypeOK'
  BY RecordBound DEF ActivityInv, LoggerTypeOK, Record
<1>2. WatchedOrWaiting'
  BY DEF ActivityInv, WatchedOrWaiting, Record
<1>3. \/ amounts[d] = 0 /\ SomeFirst'
      \/ amounts[d] > 0 /\ (SomeFirst => SomeFirst')
  <2>1. CASE amounts[d] = 0
    BY <2>1 DEF ActivityInv, LoggerTypeOK, Record, SomeFirst
  <2>2. CASE amounts[d] # 0
    <3>1. recorder' = recorder
      BY <2>2 DEF ActivityInv, LoggerTypeOK, Record
    <3> QED
      BY <2>2, <3>1 DEF ActivityInv, LoggerTypeOK, SomeFirst
  <2> QED
    BY <2>1, <2>2
<1>4. \A e \in Directions \ {d} : amounts'[e] = amounts[e]
  BY DEF ActivityInv, LoggerTypeOK, Record
<1>5. LateIsFirst'
  BY <1>3, <1>4 DEF ActivityInv, LateIsFirst, Record
<1>6. ActivityIsNoticed'
  BY <1>3, <1>4 DEF ActivityInv, ActivityIsNoticed, Record, SomeFirst
<1> QED
  BY <1>1, <1>2, <1>5, <1>6 DEF ActivityInv

LEMMA NotifyStep ==
    ASSUME ActivityInv, NEW r \in Recorders, Notify(r)
    PROVE  ActivityInv'
<1>1. LoggerTypeOK'
  <2>1. calls' \in Nat
    <3>1. calls' = calls + 1 \/ calls' = calls
      BY Zenon DEF Notify
    <3> QED
      BY <3>1 DEF ActivityInv, LoggerTypeOK
  <2>2. waiting' \in BOOLEAN
    BY DEF Notify
  <2> QED
    BY <2>1, <2>2 DEF ActivityInv, LoggerTypeOK, Notify
<1>2. bar = "idle" /\ bar' = "idle" /\ activityTimer' = activityTimer /\ notifier' = notifier
      /\ amounts' = amounts
  BY DEF Notify
<1>3. notifier => activityTimer' \/ calls' > 0
  <2>1. CASE waiting /\ notifier
    BY <2>1 DEF ActivityInv, LoggerTypeOK, Notify
  <2>2. CASE ~(waiting /\ notifier)
    <3>1. calls' = calls
      BY <2>2 DEF Notify
    <3> QED
      BY <1>2, <2>2, <3>1 DEF ActivityInv, WatchedOrWaiting
  <2> QED
    BY <2>1, <2>2
<1> QED
  BY <1>1, <1>2, <1>3 DEF ActivityInv, WatchedOrWaiting, LateIsFirst, ActivityIsNoticed

LEMMA EnterStep ==
    ASSUME ActivityInv, SetNotifier \/ OnActivity
    PROVE  ActivityInv'
<1>1. LoggerTypeOK'
  <2>1. CASE SetNotifier
    <3>1. notifier' \in BOOLEAN
      BY <2>1 DEF SetNotifier
    <3> QED
      BY <2>1, <3>1 DEF ActivityInv, LoggerTypeOK, SetNotifier
  <2>2. CASE OnActivity
    BY <2>2 DEF ActivityInv, LoggerTypeOK, OnActivity
  <2> QED
    BY <2>1, <2>2
<1>2. bar' # "idle" /\ left' = Directions
  BY DEF SetNotifier, OnActivity
<1> QED
  BY <1>1, <1>2 DEF ActivityInv, WatchedOrWaiting, LateIsFirst, ActivityIsNoticed

LEMMA ClearStep ==
    ASSUME ActivityInv, NEW d \in Directions, Clear(d)
    PROVE  ActivityInv'
<1>1. LoggerTypeOK'
  BY DEF ActivityInv, LoggerTypeOK, Clear
<1>2. /\ \A e \in Directions \ {d} : amounts'[e] = amounts[e]
      /\ amounts'[d] = 0 /\ left' = left \ {d}
      /\ recorder' = recorder /\ bar' = bar
  BY DEF ActivityInv, LoggerTypeOK, Clear
<1>3. LateIsFirst'
  BY <1>2 DEF ActivityInv, LateIsFirst, SomeFirst
<1>4. WatchedOrWaiting'
  BY DEF ActivityInv, WatchedOrWaiting, Clear
<1>5. ActivityIsNoticed'
  BY <1>2 DEF ActivityInv, ActivityIsNoticed, Clear
<1> QED
  BY <1>1, <1>3, <1>4, <1>5 DEF ActivityInv

LEMMA LeaveStep ==
    ASSUME ActivityInv, NotifierSet \/ ShowActivity
    PROVE  ActivityInv'
<1>1. LoggerTypeOK'
  BY DEF ActivityInv, LoggerTypeOK, NotifierSet, ShowActivity
<1>2. bar # "idle" /\ left = {} /\ bar' = "idle" /\ recorder' = recorder
      /\ amounts' = amounts
  BY DEF NotifierSet, ShowActivity
<1>3. waiting' \/ activityTimer'
  BY DEF NotifierSet, ShowActivity
<1>4. (\E d \in Directions : amounts'[d] > 0) => SomeFirst'
  BY <1>2 DEF ActivityInv, LateIsFirst, SomeFirst
<1> QED
  BY <1>1, <1>2, <1>3, <1>4
     DEF ActivityInv, WatchedOrWaiting, LateIsFirst, ActivityIsNoticed, SomeFirst

LEMMA ActivityInvHolds == LoggerSpec => []ActivityInv
<1>1. ActivityInv /\ [LoggerNext]_loggerVars => ActivityInv'
  <2>1. ASSUME ActivityInv, UNCHANGED loggerVars
        PROVE  ActivityInv'
    BY <2>1 DEF ActivityInv, LoggerTypeOK, WatchedOrWaiting, LateIsFirst, ActivityIsNoticed,
                SomeFirst, loggerVars
  <2> QED
    BY <2>1, RecordStep, NotifyStep, EnterStep, ClearStep, LeaveStep DEF LoggerNext, Bar
<1> QED
  BY <1>1, InitActivity, PTL DEF LoggerSpec

(* Type correctness: amounts and calls stay natural numbers.               *)
THEOREM LoggerTypeCorrect == LoggerSpec => []LoggerTypeOK
<1>1. ActivityInv => LoggerTypeOK
  BY DEF ActivityInv
<1> QED
  BY <1>1, ActivityInvHolds, PTL

(* Activity that the status bar has not seen will be seen, however many    *)
(* threads record and wherever their additions fall between the exchanges  *)
(* of extract_amounts and the stores of set_notifier.                      *)
THEOREM ActivityNeverMissed == LoggerSpec => []ActivityIsNoticed
<1>1. ActivityInv => ActivityIsNoticed
  BY DEF ActivityInv
<1> QED
  BY <1>1, ActivityInvHolds, PTL

-----------------------------------------------------------------------------
(* TransferStatus.                                                         *)
OffsetIsSet ==
    /\ active => offset \in Nat
    /\ writer = "notify" => note \in Nat

Collected == active /\ counter > 0 => writer = "first" \/ sendState = 2

(* The owner polls, or will once it has handled what is on its way.        *)
Upcoming == IF notes = <<>> THEN timer ELSE notes[Len(notes)] # None

Watched == sendState # 0 => active /\ (writer = "notify" \/ Upcoming)

Quiet ==
    command \in {"none", "login"} =>
        /\ ~active /\ writer # "notify"
        /\ IF notes = <<>> THEN shown = None /\ ~timer ELSE notes[Len(notes)] = None

Inv == TypeOK /\ OffsetIsSet /\ NoByteLost /\ Collected /\ Watched /\ Quiet

-----------------------------------------------------------------------------
LEMMA AppendedIsLast ==
    ASSUME NEW s \in Seq(Offsets), NEW x \in Offsets
    PROVE  /\ Append(s, x) \in Seq(Offsets)
           /\ Append(s, x) # <<>>
           /\ Append(s, x)[Len(Append(s, x))] = x
  OBVIOUS

LEMMA TailKeepsLast ==
    ASSUME NEW s \in Seq(Offsets), s # <<>>
    PROVE  /\ Tail(s) \in Seq(Offsets)
           /\ Head(s) \in Offsets
           /\ Tail(s) = <<>> => s[Len(s)] = Head(s)
           /\ Tail(s) # <<>> => Tail(s)[Len(Tail(s))] = s[Len(s)]
<1>1. /\ Head(s) \in Offsets /\ Tail(s) \in Seq(Offsets) /\ Len(Tail(s)) = Len(s) - 1
      /\ \A i \in 1 .. Len(Tail(s)) : Tail(s)[i] = s[i + 1]
  BY HeadTailProperties
<1>2. Len(s) \in Nat /\ Len(Tail(s)) \in Nat
  BY <1>1, LenProperties
<1>3. ASSUME Tail(s) = <<>> PROVE s[Len(s)] = Head(s)
  <2>1. Len(Tail(s)) = 0
    BY <1>3, EmptySeq
  <2>2. Len(Tail(s)) = Len(s) - 1
    BY <1>1
  <2>3. Len(s) = 1
    BY <1>2, <2>1, <2>2
  <2> QED
    BY <2>3
<1>4. ASSUME Tail(s) # <<>> PROVE Tail(s)[Len(Tail(s))] = s[Len(s)]
  <2>1. Len(Tail(s)) \in 1 .. Len(Tail(s))
    BY <1>1, <1>2, <1>4, EmptySeq
  <2> QED
    BY <1>1, <1>2, <2>1
<1> QED
  BY <1>1, <1>3, <1>4

(* What Get does to the status, in one place for its three callers.        *)
LEMMA GetCollects ==
    ASSUME Inv, Get, UNCHANGED <<active, writer, note, total>>
    PROVE  /\ offset' \in Offsets /\ counter' \in Nat /\ sendState' \in 0 .. 2
           /\ OffsetIsSet' /\ NoByteLost' /\ Collected'
           /\ sendState' # 0 => sendState = 2 /\ active
<1> USE DEF Inv, TypeOK, Offsets, None
<1>1. CASE active
  BY <1>1 DEF Get, OffsetIsSet, NoByteLost, Collected
<1>2. CASE ~active
  BY <1>2 DEF Get, OffsetIsSet, NoByteLost, Collected
<1> QED
  BY <1>1, <1>2

LEMMA InitIsInv == Init => Inv
<1> SUFFICES ASSUME Init PROVE Inv
  OBVIOUS
<1>1. TypeOK
  <2>1. None \in Offsets /\ <<>> \in Seq(Offsets)
    BY EmptySeq DEF Offsets
  <2>2. helper \in BOOLEAN /\ active \in BOOLEAN /\ timer \in BOOLEAN
    BY DEF Init
  <2>3. bytes \in 0 .. MaxBytes /\ transfers \in 0 .. MaxTransfers
    BY TransferBounds DEF Init
  <2> QED
    BY <2>1, <2>2, <2>3 DEF Init, TypeOK
<1>2. OffsetIsSet /\ NoByteLost /\ Collected /\ Watched
  BY DEF Init, OffsetIsSet, NoByteLost, Collected, Watched
<1>3. Quiet
  BY DEF Init, Quiet
<1> QED
  BY <1>1, <1>2, <1>3 DEF Inv

LEMMA ResetKeepsInv ==
    ASSUME Inv, command' \in {"none", "running"}, writer = "idle",
           active' = FALSE, sendState' = 0, notes' = Append(notes, None),
           UNCHANGED <<helper, offset, counter, writer, note, owner, history>>
    PROVE  Inv'
<1>1. None \in Offsets
  BY DEF Offsets
<1>2. notes' \in Seq(Offsets) /\ notes' # <<>> /\ notes'[Len(notes')] = None
  BY <1>1, AppendedIsLast DEF Inv, TypeOK
<1>3. TypeOK'
  <2>1. helper' \in BOOLEAN /\ active' \in BOOLEAN /\ timer' \in BOOLEAN
    BY DEF Inv, TypeOK, owner
  <2> QED
    BY <1>2, <2>1 DEF Inv, TypeOK, owner, history
<1>4. OffsetIsSet' /\ NoByteLost' /\ Collected' /\ Watched'
  BY DEF OffsetIsSet, NoByteLost, Collected, Watched
<1>5. Quiet'
  BY <1>2 DEF Quiet
<1> QED
  BY <1>3, <1>4, <1>5 DEF Inv

LEMMA EventLoopKeepsInv == Inv /\ EventLoop => Inv'
<1> SUFFICES ASSUME Inv, EventLoop PROVE Inv'
  OBVIOUS
<1>1. CASE Execute
  <2>1. TypeOK'
    BY <1>1 DEF Inv, TypeOK, Execute, status, owner, history
  <2>2. OffsetIsSet' /\ NoByteLost' /\ Collected'
    BY <1>1 DEF Inv, OffsetIsSet, NoByteLost, Collected, Execute, status, owner, history
  <2>3. Watched' /\ Quiet'
    BY <1>1 DEF Inv, Watched, Upcoming, Quiet, Execute, status, owner, history
  <2> QED
    BY <2>1, <2>2, <2>3 DEF Inv
<1>2. CASE LoginEnds
  BY <1>2, ResetKeepsInv DEF LoginEnds
<1>3. CASE InitTransfer
  <2>1. TypeOK'
    BY <1>3, TransferBounds DEF Inv, TypeOK, InitTransfer, Offsets, None
  <2>2. OffsetIsSet' /\ NoByteLost' /\ Collected'
    BY <1>3 DEF OffsetIsSet, NoByteLost, Collected, InitTransfer
  <2>3. Watched' /\ Quiet'
    BY <1>3 DEF Inv, Watched, Upcoming, Quiet, InitTransfer
  <2> QED
    BY <2>1, <2>2, <2>3 DEF Inv
<1>4. CASE OnTransferEvent
  <2>1. Get /\ UNCHANGED <<helper, command, active, writer, note, notes, owner, history>>
    BY <1>4 DEF OnTransferEvent
  <2>2. /\ offset' \in Offsets /\ counter' \in Nat /\ sendState' \in 0 .. 2
        /\ OffsetIsSet' /\ NoByteLost' /\ Collected'
        /\ sendState' # 0 => sendState = 2 /\ active
    BY <2>1, GetCollects DEF history
  <2>3. TypeOK'
    BY <2>1, <2>2 DEF Inv, TypeOK, owner, history
  <2>4. Watched' /\ Quiet'
    BY <2>1, <2>2 DEF Inv, Watched, Upcoming, Quiet, owner
  <2> QED
    BY <2>2, <2>3, <2>4 DEF Inv
<1>5. CASE LogTransferResult
  <2>1. Get /\ command' = "ending" /\ UNCHANGED <<helper, active, writer, note, notes, owner, history>>
    BY <1>5 DEF LogTransferResult
  <2>2. /\ offset' \in Offsets /\ counter' \in Nat /\ sendState' \in 0 .. 2
        /\ OffsetIsSet' /\ NoByteLost' /\ Collected'
        /\ sendState' # 0 => sendState = 2 /\ active
    BY <2>1, GetCollects DEF history
  <2>3. TypeOK'
    BY <2>1, <2>2 DEF Inv, TypeOK, owner, history
  <2>4. Watched' /\ Quiet'
    BY <2>1, <2>2 DEF Inv, Watched, Upcoming, Quiet, owner
  <2> QED
    BY <2>2, <2>3, <2>4 DEF Inv
<1>6. CASE Reset
  BY <1>6, ResetKeepsInv DEF Reset
<1> QED
  BY <1>1, <1>2, <1>3, <1>4, <1>5, <1>6 DEF EventLoop

LEMMA WriterKeepsInv == Inv /\ Writer => Inv'
<1> SUFFICES ASSUME Inv, Writer PROVE Inv'
  OBVIOUS
<1>1. ASSUME NEW n \in 1 .. MaxBytes, Update(n) PROVE Inv'
  <2>1. TypeOK'
    BY <1>1, TransferBounds DEF Inv, TypeOK, Update, owner
  <2>2. OffsetIsSet' /\ NoByteLost' /\ Collected'
    BY <1>1 DEF Inv, TypeOK, OffsetIsSet, NoByteLost, Collected, Update
  <2>3. Watched' /\ Quiet'
    BY <1>1 DEF Inv, Watched, Upcoming, Quiet, Update, owner
  <2> QED
    BY <2>1, <2>2, <2>3 DEF Inv
<1>2. CASE UpdateLocked
  <2>1. TypeOK'
    BY <1>2 DEF Inv, TypeOK, OffsetIsSet, UpdateLocked, owner, history, Offsets
  <2>2. OffsetIsSet' /\ NoByteLost' /\ Collected'
    BY <1>2 DEF Inv, TypeOK, OffsetIsSet, NoByteLost, Collected, UpdateLocked, history
  <2>3. Watched' /\ Quiet'
    BY <1>2 DEF Inv, TypeOK, Watched, Upcoming, Quiet, UpdateLocked, owner
  <2> QED
    BY <2>1, <2>2, <2>3 DEF Inv
<1>3. CASE UpdateNotify
  <2>1. note \in Nat /\ note \in Offsets
    BY <1>3 DEF Inv, OffsetIsSet, UpdateNotify, Offsets
  <2>2. notes' \in Seq(Offsets) /\ notes' # <<>> /\ notes'[Len(notes')] = note
    BY <1>3, <2>1, AppendedIsLast DEF Inv, TypeOK, UpdateNotify
  <2>3. TypeOK'
    BY <1>3, <2>2 DEF Inv, TypeOK, UpdateNotify, status, owner, history
  <2>4. OffsetIsSet' /\ NoByteLost' /\ Collected'
    BY <1>3 DEF Inv, OffsetIsSet, NoByteLost, Collected, UpdateNotify, status, history
  <2>5. note # None
    BY <2>1 DEF None
  <2>6. Watched'
    BY <1>3, <2>2, <2>5 DEF Inv, Watched, Upcoming, UpdateNotify, status
  <2>7. Quiet'
    BY <1>3 DEF Inv, Quiet, UpdateNotify
  <2> QED
    BY <2>3, <2>4, <2>6, <2>7 DEF Inv
<1> QED
  BY <1>1, <1>2, <1>3 DEF Writer

LEMMA OwnerKeepsInv == Inv /\ Owner => Inv'
<1> SUFFICES ASSUME Inv, Owner PROVE Inv'
  OBVIOUS
<1>1. CASE SetTransferStatus
  <2>1. /\ notes' \in Seq(Offsets) /\ Head(notes) \in Offsets
        /\ notes' = <<>> => notes[Len(notes)] = Head(notes)
        /\ notes' # <<>> => notes'[Len(notes')] = notes[Len(notes)]
    BY <1>1, TailKeepsLast DEF Inv, TypeOK, SetTransferStatus
  <2>2. TypeOK'
    BY <1>1, <2>1 DEF Inv, TypeOK, SetTransferStatus, status, history
  <2>3. OffsetIsSet' /\ NoByteLost' /\ Collected'
    BY <1>1 DEF Inv, OffsetIsSet, NoByteLost, Collected, SetTransferStatus, status, history
  <2>4. Watched'
    BY <1>1, <2>1 DEF Inv, Watched, Upcoming, SetTransferStatus, status
  <2>5. Quiet'
    BY <1>1, <2>1 DEF Inv, Quiet, SetTransferStatus, status
  <2> QED
    BY <2>2, <2>3, <2>4, <2>5 DEF Inv
<1>2. CASE OnTimer
  <2>1. Get /\ UNCHANGED <<helper, command, active, writer, note, notes, history>>
    BY <1>2 DEF OnTimer
  <2>2. /\ offset' \in Offsets /\ counter' \in Nat /\ sendState' \in 0 .. 2
        /\ OffsetIsSet' /\ NoByteLost' /\ Collected'
        /\ sendState' # 0 => sendState = 2 /\ active
    BY <2>1, GetCollects DEF history
  <2>3. offset + counter \in Offsets
    BY DEF Inv, TypeOK, Offsets, None
  <2>4. TypeOK'
    BY <1>2, <2>1, <2>2, <2>3 DEF Inv, TypeOK, OnTimer, history, Offsets
  <2>5. Watched'
    BY <1>2, <2>1, <2>2 DEF Inv, Watched, Upcoming, OnTimer
  <2>6. Quiet'
    BY <1>2, <2>1 DEF Inv, Quiet, OnTimer
  <2> QED
    BY <2>2, <2>4, <2>5, <2>6 DEF Inv
<1> QED
  BY <1>1, <1>2 DEF Owner

LEMMA InvHolds == Spec => []Inv
<1>1. Inv /\ [Next]_vars => Inv'
  <2> SUFFICES ASSUME Inv, [Next]_vars PROVE Inv'
    OBVIOUS
  <2>1. CASE Next
    BY <2>1, EventLoopKeepsInv, WriterKeepsInv, OwnerKeepsInv DEF Next
  <2>2. CASE UNCHANGED vars
    BY <2>2 DEF vars, status, owner, history, Inv, TypeOK, OffsetIsSet, NoByteLost, Collected,
       Watched, Upcoming, Quiet
  <2> QED
    BY <2>1, <2>2
<1> QED
  BY InitIsInv, <1>1, PTL DEF Spec

-----------------------------------------------------------------------------
(* Types.                                                                  *)
THEOREM TypeCorrect == Spec => []TypeOK
<1>1. Inv => TypeOK
  BY DEF Inv
<1> QED
  BY <1>1, InvHolds, PTL

(* Get and Update between them count every byte exactly once, whichever    *)
(* threads call them.                                                      *)
THEOREM BytesAreCountedOnce == Spec => []NoByteLost
<1>1. Inv => NoByteLost
  BY DEF Inv
<1> QED
  BY <1>1, InvHolds, PTL

(* send_state_ never strands bytes: Update sends no notification only if   *)
(* the status line will poll once more.                                    *)
THEOREM NoBytesStranded == Spec => []BytesAreWatched
<1>1. Inv => BytesAreWatched
  BY DEF Inv, TypeOK, Collected, Watched, Upcoming, BytesAreWatched
<1> QED
  BY <1>1, InvHolds, PTL

(* After Reset the status line is cleared and stays so.                    *)
THEOREM StatusLineIsCleared == Spec => []FinishedIsCleared
<1>1. Inv => FinishedIsCleared
  BY DEF Inv, Quiet, FinishedIsCleared
<1> QED
  BY <1>1, InvHolds, PTL
=============================================================================
