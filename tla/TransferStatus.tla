--------------------------- MODULE TransferStatus ---------------------------
(***************************************************************************)
(* CTransferStatusManager (engine/engineprivate.cpp) and its user, the     *)
(* status line of a transfer (interface/statuslinectrl.cpp).               *)
(*                                                                         *)
(* Three threads meet here: the event loop thread starts and ends          *)
(* transfers, the thread of the file writer adds the bytes it has written  *)
(* and the owner polls.  Adding is one atomic fetch_add; only the addition *)
(* that finds the counter at zero takes the mutex, and only if send_state_ *)
(* says that nobody polls it sends a notification.  The owner polls with a *)
(* timer that a notification starts and that stops when Get reports no     *)
(* change.                                                                 *)
(*                                                                         *)
(* Offsets count from startOffset.  Start time, total size and             *)
(* madeProgress travel with the offset and are left out.                   *)
(***************************************************************************)
EXTENDS Integers, Sequences

CONSTANTS
    MaxBytes,     \* bound: bytes of all transfers
    MaxTransfers  \* bound: transfers

ASSUME TransferBounds ==
    MaxBytes \in Nat /\ MaxTransfers \in Nat

VARIABLES
    helper,    \* a helper process transfers (SFTP, Storj): the event loop calls
               \* Get on its progress events, late events may Update
    command,   \* the engine's command: none, before a new login, running, ending
    active,    \* status_ is not empty
    offset,    \* status_.currentOffset
    counter,   \* currentOffset_
    sendState, \* send_state_
    writer,    \* where the thread that calls Update is
    note,      \* the notification that Update is about to send
    notes,     \* CTransferStatusNotifications on their way, None if empty
    timer,     \* m_transferStatusTimer runs
    shown,     \* the offset the status line shows, None if none
    total,     \* bytes transferred since Init
    bytes,     \* bytes of all transfers
    transfers  \* number of transfers

status == <<active, offset, counter, sendState>>
owner == <<timer, shown>>
history == <<total, bytes, transfers>>
vars == <<helper, command, status, writer, note, notes, owner, history>>

None == -1

-----------------------------------------------------------------------------
(* The event loop thread.                                                  *)

(* The owner has seen the end of the last command, and with it everything  *)
(* that was sent before.  The control socket may have to log in again.     *)
Execute ==
    /\ command = "none" /\ notes = <<>>
    /\ command' \in {"login", "running"}
    /\ UNCHANGED <<helper, status, writer, note, notes, owner, history>>

(* The end of the login that precedes the operation resets the status too. *)
LoginEnds ==
    /\ command = "login" /\ writer = "idle"
    /\ command' = "running"
    /\ active' = FALSE
    /\ sendState' = 0
    /\ notes' = Append(notes, None)
    /\ UNCHANGED <<helper, offset, counter, writer, note, owner, history>>

(* Init: a transfer begins; the listing before it may still be active.     *)
InitTransfer ==
    /\ command = "running" /\ writer = "idle"
    /\ transfers < MaxTransfers
    /\ transfers' = transfers + 1
    /\ active' = TRUE
    /\ offset' = 0 /\ counter' = 0 /\ total' = 0
    /\ UNCHANGED <<helper, command, sendState, writer, note, notes, timer, shown, bytes>>

(* mutant: the bytes added since the last call are not taken over *)
GetWithoutCounter ==
    /\ counter' = 0
    /\ UNCHANGED offset
    /\ sendState' = IF active /\ sendState = 2 THEN 1 ELSE 0

(* Get, under the mutex                                                    *)
Get ==
    /\ \/ /\ active
          /\ offset' = offset + counter
          /\ counter' = 0
       \/ /\ ~active
          /\ UNCHANGED <<offset, counter>>
    /\ sendState' = IF active /\ sendState = 2 THEN 1 ELSE 0

(* The SFTP and Storj control sockets look at madeProgress on every        *)
(* progress event.                                                         *)
OnTransferEvent ==
    /\ helper /\ command = "running"
    /\ Get
    /\ UNCHANGED <<helper, command, active, writer, note, notes, owner, history>>

(* CControlSocket::ResetOperation: LogTransferResultMessage calls Get, the *)
(* operation is destroyed together with its writer, then Reset is called.  *)
LogTransferResult ==
    /\ command = "running"
    /\ command' = "ending"
    /\ Get
    /\ UNCHANGED <<helper, active, writer, note, notes, owner, history>>

Reset ==
    /\ command \in {"running", "ending"} /\ writer = "idle"
    /\ command' = "none"
    /\ active' = FALSE
    /\ sendState' = 0
    /\ notes' = Append(notes, None)
    /\ UNCHANGED <<helper, offset, counter, writer, note, owner, history>>

-----------------------------------------------------------------------------
(* Update, in three steps: the atomic addition, the critical section and   *)
(* AddNotification.                                                        *)
Update(n) ==
    /\ writer = "idle"
    /\ active \/ helper
    /\ bytes + n <= MaxBytes
    /\ bytes' = bytes + n
    /\ counter' = counter + n
    /\ total' = total + n
    /\ writer' = IF counter = 0 THEN "first" ELSE "idle"
    /\ UNCHANGED <<helper, command, active, offset, sendState, note, notes, owner, transfers>>

(* mutant: send_state_ is set only together with a notification *)
UpdateLockedForgetsState ==
    /\ writer = "first"
    /\ \/ /\ active /\ sendState = 0
          /\ offset' = offset + counter
          /\ counter' = 0
          /\ note' = offset + counter
          /\ writer' = "notify"
          /\ sendState' = 2
       \/ /\ ~active \/ sendState # 0
          /\ writer' = "idle"
          /\ UNCHANGED <<offset, counter, note, sendState>>
    /\ UNCHANGED <<helper, command, active, notes, owner, history>>

UpdateLocked ==
    /\ writer = "first"
    /\ \/ /\ ~active
          /\ writer' = "idle"
          /\ UNCHANGED <<offset, counter, note, sendState>>
       \/ /\ active /\ sendState = 0
          /\ offset' = offset + counter
          /\ counter' = 0
          /\ note' = offset + counter
          /\ writer' = "notify"
          /\ sendState' = 2
       \/ /\ active /\ sendState # 0
          /\ writer' = "idle"
          /\ sendState' = 2
          /\ UNCHANGED <<offset, counter, note>>
    /\ UNCHANGED <<helper, command, active, notes, owner, history>>

UpdateNotify ==
    /\ writer = "notify"
    /\ writer' = "idle"
    /\ notes' = Append(notes, note)
    /\ UNCHANGED <<helper, command, status, note, owner, history>>

-----------------------------------------------------------------------------
(* The owner: CStatusLineCtrl.                                             *)

SetTransferStatus ==
    /\ notes # <<>>
    /\ notes' = Tail(notes)
    /\ shown' = Head(notes)
    /\ timer' = (Head(notes) # None)
    /\ UNCHANGED <<helper, command, status, writer, note, history>>

OnTimer ==
    /\ timer
    /\ Get
    /\ \/ /\ ~active
          /\ shown' = None
          /\ timer' = FALSE
       \/ /\ active /\ sendState = 2
          /\ shown' = offset + counter
          /\ UNCHANGED timer
       \/ /\ active /\ sendState # 2
          /\ timer' = FALSE
          /\ UNCHANGED shown
    /\ UNCHANGED <<helper, command, active, writer, note, notes, history>>

-----------------------------------------------------------------------------
Init ==
    /\ helper \in BOOLEAN /\ command = "none"
    /\ active = FALSE /\ offset = None /\ counter = 0 /\ sendState = 0
    /\ writer = "idle" /\ note = None
    /\ notes = <<>> /\ timer = FALSE /\ shown = None
    /\ total = 0 /\ bytes = 0 /\ transfers = 0

EventLoop == Execute \/ LoginEnds \/ InitTransfer \/ OnTransferEvent \/ LogTransferResult \/ Reset

Writer == (\E n \in 1 .. MaxBytes : Update(n)) \/ UpdateLocked \/ UpdateNotify

Owner == SetTransferStatus \/ OnTimer

Next == EventLoop \/ Writer \/ Owner

Spec == Init /\ [][Next]_vars

(* A thread that is inside Update goes on; the owner handles notifications *)
(* and its timer.                                                          *)
FairSpec ==
    /\ Spec
    /\ WF_vars(UpdateLocked) /\ WF_vars(UpdateNotify)
    /\ WF_vars(SetTransferStatus) /\ WF_vars(OnTimer)

-----------------------------------------------------------------------------
Offsets == Nat \cup {None}

(* Types, and the bounds of the counters; send_state_ has three values.    *)
TypeOK ==
    /\ helper \in BOOLEAN /\ command \in {"none", "login", "running", "ending"}
    /\ active \in BOOLEAN /\ timer \in BOOLEAN
    /\ offset \in Offsets /\ counter \in Nat /\ sendState \in 0 .. 2
    /\ writer \in {"idle", "first", "notify"}
    /\ note \in Offsets /\ shown \in Offsets
    /\ notes \in Seq(Offsets)
    /\ total \in Nat /\ bytes \in 0 .. MaxBytes /\ transfers \in 0 .. MaxTransfers

(* Every byte is counted exactly once, although fetch_add and exchange     *)
(* bypass the mutex and three threads move bytes from the counter to the   *)
(* status.                                                                 *)
NoByteLost == active => offset + counter = total

(* Bytes that nobody has collected are never stranded: while there are     *)
(* some, the writer is still inside Update, the owner's timer polls or a   *)
(* notification that will start it is under way and no empty one follows   *)
(* it.  The timer that stops and the writer that finds it still running    *)
(* meet in send_state_.                                                    *)
BytesAreWatched ==
    active /\ counter > 0 =>
        \/ writer # "idle"
        \/ notes = <<>> /\ timer
        \/ notes # <<>> /\ notes[Len(notes)] # None

(* A command that is over leaves nothing on the status line: no late       *)
(* notification of the writer follows the empty one of Reset, and the      *)
(* timer does not go on.                                                   *)
FinishedIsCleared ==
    command = "none" /\ notes = <<>> => shown = None /\ ~timer

(* As long as an FTP transfer goes on, what the status line shows catches  *)
(* up with what was transferred: the last bytes before a pause are not     *)
(* left unshown because the timer had just stopped.                        *)
DisplayCatchesUp ==
    \A n \in 1 .. MaxBytes :
        (~helper /\ active /\ total = n) ~> (shown = total \/ command # "running")
=============================================================================
