--------------------------- MODULE Notifications ---------------------------
(***************************************************************************)
(* How an engine tells its owner what happens (engine/engineprivate.cpp).  *)
(*                                                                         *)
(* Threads of the engine append notifications under notification_mutex_.   *)
(* The callback is called for the first one only and re-armed when         *)
(* GetNextNotification finds the list empty, so the owner has to drain the *)
(* list after every call.  Log messages take a detour: while queue_logs_   *)
(* is set, those that are neither errors nor status messages wait in       *)
(* queued_logs_, to be shown if the command fails and dropped if not.      *)
(*                                                                         *)
(* Notifications are numbered in the order in which they arise; the        *)
(* number of a log message is positive, that of any other notification is  *)
(* negative.  Every action is one critical section.                        *)
(***************************************************************************)
EXTENDS Integers, Sequences

CONSTANTS
    MaxMessages,  \* bound: messages and notifications
    MaxChanges    \* bound: changes of the logging options

ASSUME NotificationBounds == MaxMessages \in Nat /\ MaxChanges \in Nat

VARIABLES
    list,      \* m_NotificationList
    maySend,   \* m_maySendNotificationEvent
    wakeups,   \* calls of notification_cb_ the owner has not handled yet
    draining,  \* the owner is in its loop over GetNextNotification
    queued,    \* queued_logs_
    queueLogs, \* queue_logs_
    option,    \* ShouldQueueLogsFromOptions()
    changes,   \* options_changed_events not handled yet
    handler,   \* what OnOptionsChanged has read: "none", "queue" or "send"
    sent,      \* number of messages so far
    got,       \* messages the owner has got
    changed,   \* number of changes of the options so far
    raw        \* a CRawCommand has been executed

listVars == <<list, maySend, wakeups, draining, queued, queueLogs, option, changes,
             handler, sent, got, changed, raw>>

Logs == 1 .. MaxMessages

Messages == (-MaxMessages .. -1) \cup Logs

-----------------------------------------------------------------------------
(* Call notification_cb_ unless the owner has been told already.           *)
Wake ==
    /\ maySend' = FALSE
    /\ wakeups' = wakeups + 1

(* AddNotification, with the notifications put in front of it              *)
AddNotification(more) ==
    /\ list' = list \o more
    /\ IF maySend THEN Wake ELSE UNCHANGED <<maySend, wakeups>>

NewMessage ==
    /\ sent < MaxMessages
    /\ sent' = sent + 1

AddPlainNotification ==
    /\ NewMessage
    /\ AddNotification(<<-(sent + 1)>>)
    /\ UNCHANGED <<draining, queued, queueLogs, option, changes, handler, got, changed, raw>>

(* AddLogNotification, by the type of the message                          *)

(* mutant: an error is shown without the messages that led to it *)
LogErrorAlone ==
    /\ NewMessage
    /\ queueLogs' = FALSE
    /\ AddNotification(<<sent + 1>>)
    /\ UNCHANGED <<draining, queued, option, changes, handler, got, changed, raw>>

LogError ==
    /\ NewMessage
    /\ queueLogs' = FALSE
    /\ queued' = <<>>
    /\ AddNotification(Append(queued, sent + 1))
    /\ UNCHANGED <<draining, option, changes, handler, got, changed, raw>>

LogStatus ==
    /\ NewMessage
    /\ queued' = <<>>
    /\ AddNotification(<<sent + 1>>)
    /\ UNCHANGED <<draining, queueLogs, option, changes, handler, got, changed, raw>>

LogOther ==
    /\ NewMessage
    /\ IF queueLogs
       THEN /\ queued' = Append(queued, sent + 1)
            /\ UNCHANGED <<list, maySend, wakeups>>
       ELSE /\ AddNotification(<<sent + 1>>)
            /\ UNCHANGED queued
    /\ UNCHANGED <<draining, queueLogs, option, changes, handler, got, changed, raw>>

(* mutant: the queued messages are moved without telling the owner *)
SendQueuedLogsSilently ==
    /\ list' = list \o queued
    /\ queued' = <<>>
    /\ queueLogs' = option
    /\ UNCHANGED <<maySend, wakeups>>

(* mutant: queue_logs_ is left as it was *)
SendQueuedLogsKeepsFlag ==
    /\ list' = list \o queued
    /\ queued' = <<>>
    /\ UNCHANGED queueLogs
    /\ IF maySend /\ list' # <<>> THEN Wake ELSE UNCHANGED <<maySend, wakeups>>

(* SendQueuedLogs(true)                                                    *)
SendQueuedLogs ==
    /\ list' = list \o queued
    /\ queued' = <<>>
    /\ queueLogs' = option
    /\ IF maySend /\ list' # <<>> THEN Wake ELSE UNCHANGED <<maySend, wakeups>>

(* ClearQueuedLogs(true)                                                   *)
ClearQueuedLogs ==
    /\ queued' = <<>>
    /\ queueLogs' = option
    /\ UNCHANGED <<list, maySend, wakeups>>

(* The end of a command in ResetOperation and DoCancel, after its          *)
(* COperationNotification: the queued messages are shown or dropped.  This *)
(* is the event loop thread, so OnOptionsChanged is not under way.         *)
CommandFails ==
    /\ handler = "none"
    /\ SendQueuedLogs
    /\ UNCHANGED <<draining, option, changes, handler, sent, got, changed, raw>>

CommandSucceeds ==
    /\ handler = "none"
    /\ ClearQueuedLogs
    /\ UNCHANGED <<draining, option, changes, handler, sent, got, changed, raw>>

(* RawCommand shows everything that follows.                               *)
RawCommand ==
    /\ handler = "none"
    /\ queueLogs' = FALSE
    /\ raw' = TRUE
    /\ UNCHANGED <<list, maySend, wakeups, draining, queued, option, changes, handler,
                   sent, got, changed>>

-----------------------------------------------------------------------------
(* The owner changes one of the options that the engine watches.           *)
ChangeOptions ==
    /\ changed < MaxChanges
    /\ changed' = changed + 1
    /\ option' = ~option
    /\ changes' = changes + 1
    /\ UNCHANGED <<list, maySend, wakeups, draining, queued, queueLogs, handler, sent,
                   got, raw>>

(* OnOptionsChanged reads the options before it takes the mutex.           *)
OnOptionsChanged ==
    /\ changes > 0 /\ handler = "none"
    /\ changes' = changes - 1
    /\ handler' = IF option THEN "queue" ELSE "send"
    /\ UNCHANGED <<list, maySend, wakeups, draining, queued, queueLogs, option, sent,
                   got, changed, raw>>

ApplyOptions ==
    /\ \/ /\ handler = "queue"
          /\ queueLogs' = TRUE
          /\ UNCHANGED <<list, maySend, wakeups, queued>>
       \/ /\ handler = "send"
          /\ SendQueuedLogs
    /\ handler' = "none"
    /\ UNCHANGED <<draining, option, changes, sent, got, changed, raw>>

-----------------------------------------------------------------------------
(* The owner: the loops of CMainFrame::OnEngineEvent and                   *)
(* CQueueView::OnEngineEvent.                                              *)
OnEngineEvent ==
    /\ wakeups > 0 /\ ~draining
    /\ wakeups' = wakeups - 1
    /\ draining' = TRUE
    /\ UNCHANGED <<list, maySend, queued, queueLogs, option, changes, handler, sent,
                   got, changed, raw>>

(* mutant: the list is emptied when its front is taken *)
GetNextNotificationClears ==
    /\ draining
    /\ list' = <<>>
    /\ \/ /\ list = <<>>
          /\ maySend' = TRUE
          /\ draining' = FALSE
          /\ UNCHANGED got
       \/ /\ list # <<>>
          /\ got' = Append(got, Head(list))
          /\ UNCHANGED <<maySend, draining>>
    /\ UNCHANGED <<wakeups, queued, queueLogs, option, changes, handler, sent, changed, raw>>

GetNextNotification ==
    /\ draining
    /\ \/ /\ list = <<>>
          /\ maySend' = TRUE
          /\ draining' = FALSE
          /\ UNCHANGED <<list, got>>
       \/ /\ list # <<>>
          /\ got' = Append(got, Head(list))
          /\ list' = Tail(list)
          /\ UNCHANGED <<maySend, draining>>
    /\ UNCHANGED <<wakeups, queued, queueLogs, option, changes, handler, sent, changed, raw>>

-----------------------------------------------------------------------------
ListInit ==
    /\ list = <<>> /\ maySend = TRUE /\ wakeups = 0 /\ draining = FALSE
    /\ queued = <<>> /\ option \in BOOLEAN /\ queueLogs = option
    /\ changes = 0 /\ handler = "none" /\ sent = 0 /\ got = <<>> /\ changed = 0
    /\ raw = FALSE

Engine ==
    \/ AddPlainNotification \/ LogError \/ LogStatus \/ LogOther
    \/ CommandFails \/ CommandSucceeds \/ RawCommand

OwnerGets == OnEngineEvent \/ GetNextNotification

ListNext == Engine \/ ChangeOptions \/ OnOptionsChanged \/ ApplyOptions \/ OwnerGets

ListSpec == ListInit /\ [][ListNext]_listVars

(* The owner handles its events and goes on draining; the event loop       *)
(* thread handles its events.                                              *)
ListFairSpec ==
    /\ ListSpec
    /\ WF_listVars(OwnerGets) /\ WF_listVars(OnOptionsChanged) /\ WF_listVars(ApplyOptions)

-----------------------------------------------------------------------------
(* Types: OnOptionsChanged never handles more events than there were.      *)
ListTypeOK ==
    /\ list \in Seq(Messages) /\ queued \in Seq(Messages) /\ got \in Seq(Messages)
    /\ maySend \in BOOLEAN /\ draining \in BOOLEAN /\ wakeups \in Nat
    /\ queueLogs \in BOOLEAN /\ option \in BOOLEAN
    /\ changes \in Nat /\ handler \in {"none", "queue", "send"}
    /\ sent \in 0 .. MaxMessages /\ changed \in 0 .. MaxChanges /\ raw \in BOOLEAN

(* notification.h: "GetNextNotification has to be called until it returns  *)
(* 0 to re-arm the callback, or you will lose important notifications":    *)
(* for an owner that does, no notification lies in the list without a call *)
(* of the callback on its way or the owner in its loop.                    *)
NoNotificationLost == list # <<>> => wakeups > 0 \/ draining

(* There is one token: the right to call the callback, a call under way or *)
(* the loop of the owner.  The owner is never called while it drains.      *)
OneToken ==
    /\ maySend => wakeups = 0 /\ ~draining
    /\ draining => wakeups = 0
    /\ wakeups <= 1
    /\ maySend \/ draining \/ wakeups = 1

(* Once detailed logs are asked for and the change has been handled, no    *)
(* message is kept back, although OnOptionsChanged reads the options       *)
(* before it takes the mutex.                                              *)
DetailedLogsShown ==
    ~option /\ changes = 0 /\ handler = "none" => queued = <<>> /\ ~queueLogs

(* Until a raw command is executed the owner gets the log messages in the  *)
(* order in which they arose: the detour over queued_logs_ lets none       *)
(* overtake.                                                               *)
LogsInOrder ==
    ~raw =>
    LET all == got \o list \o queued
    IN  \A i, j \in 1 .. Len(all) :
            i < j /\ all[i] \in Logs /\ all[j] \in Logs => all[i] < all[j]

(* What is in the list gets to the owner.                                  *)
EverythingArrives ==
    \A m \in Messages :
        (\E i \in 1 .. Len(list) : list[i] = m)
          ~> (\E i \in 1 .. Len(got) : got[i] = m)
=============================================================================
