# TabFTP: a TLA+ verification project

TabFTP is a tabbed fork of FileZilla.  The user interface (`src/src/interface`,
wxWidgets, with `src/src/commonui`) owns any number of engines
(`src/src/engine`).  An engine executes one command at a time over one control
connection (FTP, SFTP, HTTP or Storj) and reports back through a queue of
notifications.  All engines of a process share one context: one event loop
thread, one thread pool, the directory cache, the path cache, the operation
locks, the list of failed logins, the activity logger and the rate limiter.

The project models the program where its threads, events, queues and peers meet:
that is where the code is hard to test.  It covers the engine (locks, commands,
notifications, transfer status, the FTP connection, the directory operations with
their cache) and the interface's own protocols (a tab's command queue, recursive
operations, the transfer queue).

## Inventory

Threads: the owner (user interface), the event loop thread that runs the
handlers of all engines, control sockets and transfer sockets, worker threads
(file writers and readers, the input thread of the SFTP helper, socket threads).

| Component | State | Operations | Meets | What makes it correct |
|---|---|---|---|---|
| Operation locks (`oplock_manager.cpp`) | vectors of slots and locks, `OpLock` handles (indices) | Lock, Unlock, Wakeup, ObtainWaiting | control sockets of all engines; CObtainLockEvent | exclusion, valid handles, no lost wakeup, nothing left of a destroyed socket |
| Engine (`engineprivate.cpp`) | current command, retry timer and count, request counter, control socket | Execute, Cancel, SetAsyncRequestReply and the handlers of their events, OnTimer, ResetOperation | owner by calls and notifications, control socket by calls | each command starts once, is reported once and ends; retries bounded; answers reach the asker |
| Notifications and log queue (`engineprivate.cpp`) | list, re-arm flag, queued logs | AddNotification, AddLogNotification, SendQueuedLogs, ClearQueuedLogs, OnOptionsChanged, GetNextNotification | owner's draining loop, options | nothing lost, one callback per drain, order of logs |
| Transfer status (`engineprivate.cpp`, `statuslinectrl.cpp`) | status, atomic counter, send_state_ | Init, Update, Get, Reset | writer threads, SFTP and Storj events, status line's timer | bytes counted once, none stranded, display cleared |
| Activity logger (`activity_logger.cpp`, `statusbar.cpp`) | two atomic amounts, waiting_ | record, extract_amounts, set_notifier | socket layers, status bar's timer | activity noticed, one call per pause |
| FTP control connection (`ftp/ftpcontrolsocket.cpp`) | pending replies, replies to skip, idle timer | SendCommand, ParseResponse, ResetOperation, OnTimer, TransferEnd | server, operations, transfer socket | reply accounting, keep-alive |
| FTP raw transfer (`ftp/rawtransfer.cpp`, `ftp/transfersocket.cpp`) | state of the transfer, last TYPE, sent REST, end reason | Send, ParseResponse, TransferEnd | control connection, data connection | right type and offset, success is real, stale ends ignored |
| FTP operations (`ftp/*.cpp`) | an operation stack, the working directory | list, cwd, mkd, rmd, delete, rename, chmod, transfer | locks, caches, other engines on the server | fresh listings, caches told of changes, no engine in another's way |
| Directory cache (`directorycache.cpp`) | listings per server, LRU list, running count | Store, Lookup, Update, Invalidate, Remove, Rename, Prune | all engines | count matches entries, size bounded, sure listings right |
| Path cache, server paths | paths | Lookup, Store; parent, subdirectory | everything | see "Not modelled" |
| SFTP, HTTP, Storj | operation stack, helper process or request queue | as FTP | helper's input thread, buffers | every request answered, buffers returned |
| Command queue of a tab (`commandqueue.cpp`, `state.cpp`) | queued commands with their origin, exclusive lock and requests | ProcessCommand, ProcessNextCommand, ProcessReply, Cancel, Finish, RequestExclusiveEngine, ReleaseEngine | the tab's engine, recursive operation, transfer queue | replies meet their commands, everything ends |
| Recursive operations (`remote_recursive_operation.cpp`) | directories to visit, visited ones | NextOperation, ProcessDirectoryListing, ListingFailed, LinkIsNotDir | command queue, listings of the user | only what was chosen, all of it |
| Transfer queue (`QueueView.cpp`, `queue.cpp`) | files per site, engines with their state, counts | QueueFile, AdvanceQueue, SendNextCommand, ProcessReply, ResetEngine, SetActive, StopItem, OnTimer | engines, tabs whose engine it borrows | right server, once, within limits, nothing hangs |
| Request queue, tabs, edit handler (`interface`) | dialogs, tabs, edited files | | engines by notifications | see "Not modelled" |
| Listing parser, options, updater, site manager, dialogs | data and presentation | | | see "Not modelled" |

The hard behaviours, with their lines, are the `hazards` of `PROJECT.json`:
events that outlive what they were sent for, retries racing cancels, numbers
read outside a mutex, replies without numbers, a final reply racing the end of
a data connection, indices into vectors that others trim, cached listings that
others change, replies taken for the command at the head of a queue, an engine
borrowed from a tab.

## Modules

`MCX` extends `X` for TLC with the constants of its configurations; `XProofs`
extends `X` with the theorems.

### OpLockManager (`oplock_manager.cpp`)

`slots` is `socket_locks_`, `handles` the `OpLock` objects with their owner,
`events` the queued CObtainLockEvents, `life` a control socket's life.  Every
entry point holds `mtx_` and is one action: `Lock`, `Unlock` (with the trimming of
both vectors), `OnObtainLock` (ObtainWaiting).  The destructor of a control socket
is `RemoveHandler`, the `Unlock`s of its handles, `Destroyed`; others run in between.
The parent relation between paths is a constant.

`Locks` is what the manager promises to the control sockets: two sets, of locks held
and of locks waiting.  The refinement mapping (`AbstractLocks`) forgets the indices,
the released entries and the abandoned slots; `ImplementsLocks` says that every step of
the manager is a step of `Locks` or changes nothing there; it is checked and proved.
`Directories` uses `Locks` itself, so what is shown there of several engines rests on the abstract locks.

### Engine (`engineprivate.cpp`, `controlsocket.cpp`)

`cmd` is `currentCommand_`, `sock` the control socket with its operations, `queue`
the engine's events.  The owner's calls post events; the handlers hold `mutex_`
and are one action each.  What the protocols do is left open: an operation may end
(`OperationEnds`), ask (`SendAsyncRequest`) or lose its connection (`Closed`).
`env`, chosen at the start, says which disturbances happen: `cancel`, `idleClose` (a
connection lost while no operation runs), `otherEngines` (failed logins of other
engines on the same server, which delay ours).  Some promises hold only without them,
and say so.

### Notifications (`engineprivate.cpp`, the owner's loops in `Mainfrm.cpp` and `QueueView.cpp`)

Every action is one critical section of `notification_mutex_`; `OnOptionsChanged`,
which reads the options before it, is two.  Messages are numbered as they arise.

### TransferStatus (`engineprivate.cpp`, `statuslinectrl.cpp`)

`Update` is three steps (fetch_add, critical section, AddNotification), which run in
the writer's thread against `Get`, `Reset` and the status line's timer.  `helper`
selects SFTP and Storj, whose control sockets call `Get` on every progress event and
may call `Update` late.

### ActivityLogger (`activity_logger.cpp`, `statusbar.cpp`)

`Record` is the atomic addition, `Notify` the critical section after it; the two
exchanges of extract_amounts are separate steps in either order (`Clear`), inside the
mutex (`bar # "idle"`).

### FtpTransfer (`ftp/ftpcontrolsocket.cpp`, `ftp/rawtransfer.cpp`, `ftp/transfersocket.cpp`)

`pending`, `skip`, `lastType`, `sentRest`, `idleTimer` and `data` are
`m_pendingReplies`, `m_repliesToSkip`, `m_lastTypeBinary`, `m_sentRestartOffset`,
`m_idleTimer` and `m_pTransferSocket`; `op` is the operation on top, a raw command or a
raw transfer that a listing or file transfer may repeat after a failure in any state
(`more`).  `queue` holds the
events of the event loop: a command, an event of a data socket, a TransferEndEvent.
The server is external: it handles commands in order, may refuse any of them, may
omit the preliminary reply, and may or may not forget a restart offset after use.
Assumed of it: a session starts in ASCII at offset 0, and REST 0 is accepted if REST
was accepted before.  The user's raw commands may be TYPE or REST; `server.manual` says
that the restart offset in force comes from one (`SessionAfter`).  `ServerSpeaksUnasked` is switched on by `MaxStray`.

### DirectoryCache (`directorycache.cpp`) and Directories (`ftp/*.cpp`)

`DirectoryCache` has one operator per member function, from a cache to the cache it
leaves.  A listing is a set of names and whether it is sure; flags are not told apart.

`Directories` runs the operations of several engines on one server.  The event loop is
one thread: a handler keeps it (`loop`) until it has sent a command or has to wait.
The stack of operations is flattened to one record whose `st` is the state of the
operation on top.  `wire` is the command under way; `Cancel` marks its reply to be
skipped.  The server is external: a tree, which another client may change (`others`).
The environments choose the commands, refusals (`refuse`), interruptions (`cancel`) and
the other client, so that each behaviour stays short.

### RemoteRecursiveOperation and Tab (`commandqueue.cpp`, `state.cpp`)

`RemoteRecursiveOperation` is operators again.  `Tab` composes it with the command
queue, the site, the engine and the transfer queue that borrows it.  A handler of the
interface is one step, except that each round of the loop of ProcessNextCommand is a
step, since the engine goes on meanwhile.  Flags of `env`: `browse` and `browseLinks`
(the user enters directories or links during a recursive operation), `fail`, `drop`
(listings fail, connections are lost), `cancel` (OnCancel and reconnecting), `evict`
(listings gone from the cache), `borrow` and `withdraw` (the transfer queue asks for the
engine, and gives up asking).  `race` would let the user cancel while a reply is on its
way from the engine's thread; no run has it, see "What does not hold".

### TransferQueue (`QueueView.cpp`, `queue.cpp`)

`q.engines` is `m_engineData`, a vector of pointers: the names of the engines, in its
order, to the records of `q.data`.  `q.now` and `q.later` are the lists of a site,
`q.busy`, `q.count`, `q.down`, `q.up` the counts.  The handlers are operators on a world, the
record of the variables the interface changes, because they call each other in the
middle.  Each round of SendNextCommand and of AdvanceQueue's loop is a step.  The tab is
reduced to its site, its command and the lending of its engine.  Flags of `env`: `fail`,
`drop`, `stop` (SetActive(false) and removing files), `tab` (its user works), `idle`
(the one-minute timer), `withdraw` (a file that waits for a tab's engine is removed),
`race` (handlers run while an idle engine disconnects; in no run).

## Runs

| Run | Question | States | Bounds, and why they are enough |
|---|---|---|---|
| `oplocks` | Do locks exclude, wake waiters and implement the abstract ones? | 0.8 million | three sockets are the least with a holder and two waiters; two servers, nested paths, four calls |
| `engine` | Is each end reported, do retries stay in order, does every command run once, get its answers and end? | 0.56 million | three commands let an event outlive one command and hit the next but one; one cancel, two requests, two attempts; four environments |
| `engine_idle_close` | Does an idle engine run nothing? (violation) | | idle disconnects only |
| `notifications` | Is anything lost, kept back or out of order, does everything arrive? | 0.15 million | four messages, two option changes: enough for a change during a drain |
| `transfer_status` | Are bytes counted once, does the display catch up? | 0.1 million | five bytes over three transfers, with and without a helper process |
| `activity` | Is activity noticed, and do the LEDs go out? | 10 thousand | two recording threads, seven records: both directions twice around the exchanges |
| `ftp_transfer` | Do replies match, type and offset fit, success hold? | 1.6 million | three operations: one that leaves replies or REST behind, one that repeats, one that suffers |
| `ftp_stray` | Are counters and ends robust against a stray reply, do operations end without the timeout? | 0.38 million | passive mode, two operations, one stray reply |
| `directories` | Does the cache count right, is a sure listing right, a refresh recent, do engines create side by side, is nobody stuck? | 0.8 million | two engines, four nodes in two levels (a file, a nested directory, a target to rename to), two or three commands; a cache of two directories, so that Prune works |
| `tab` | Does a recursive operation delete only and all of what was chosen, do replies meet their commands, does everything end? | 0.2 million | a tree with a link into a sibling, one to a file and one chosen by the user; three actions of the user in five environments: an operation, something in between, and a second operation or a cancel |
| `transfer_queue` | Do counts, servers, limits and replies fit, does stopping reach all engines but the one it may skip, does nothing hang? | 0.37 million | three queue engines and the tab's: the least with which stopping can skip one; a site limited to one connection and one without a limit, a directory and three downloads of which two at a time may run, one retry, two events (queueing a file, which may start the queue, is not counted) |
| `queue_busy` | Is an engine never given a command while it has one? (violation) | | two queue engines, three files, three events, with `withdraw` |

Deadlock is checked in `transfer_status` only: in the other models the program may
stop, when the bounds on calls and commands are reached and nothing is left to do.
That nobody waits for ever is stated by the liveness properties and, for locks, engine
and directories, by invariants.

### What does not hold

Two runs show what the code does against its own comment or assertion; the `findings`
quote them.

- `engine_idle_close`: after a connection is lost between Execute and its event, the
  next command starts twice and one of its operations outlives it.  With four commands a
  connect can start twice so, and run while its retry timer is set.
- `queue_busy`: a file that waits for a tab's engine is removed; the engine stays in the
  list, the next file takes it without asking for it, and Execute answers that it is
  busy.  If the tab happens to be idle the command runs, but its reply goes to the tab.

Other limits of the code that modelling showed; the properties state what holds around
them:

- A queued cancel can hit the command after the one it was meant for
  (`engineprivate.cpp:843`).  `Tab` and `TransferQueue` include that; a connect that is hit
  so before it has a control socket stops the whole transfer queue, and a removed file may
  go on being transferred.
- With SFTP and Storj the control socket's own `Get` consumes the change that the owner's
  poll should report; `DisplayCatchesUp` is for FTP.
- Log messages overtake queued ones after a raw command; `LogsInOrder` ends there.
- A refresh that waited for a lock may be answered by a listing that is older than a
  change made by its own engine just before (`list.cpp:83` compares with the time of
  waiting, not of the change): `RefreshIsRecent` promises contents seen while engines were
  listing.
- The cache never hears of a directory made with its full path (mkd_tryfull), of an MKD
  whose operation was cancelled, or of a renaming whose source the cached listing does
  not show.  A listing that arrives after its directory has been removed is stored as
  sure, and a directory renamed to that path later is taken to hold what it shows.
  `SureIsRight` excepts these (`missed`).
- mkd_init trusts the working directory although another engine may have removed it; and
  who has to wait for the lock of a directory does not create it even if the holder is
  cancelled (`cwd.cpp:80`).  `CreationSucceeds` is claimed where nothing is removed,
  refused or interrupted.
- A reply that is under way when the user cancels or reconnects, or when a request for
  the engine is withdrawn, is taken for the command that is at the head of the queue by
  then (`commandqueue.cpp:155`).  The environments of `tab` exclude that moment.
- A link entered by the user during a recursive operation, and found to be no directory,
  is taken for the next directory of the operation (`commandqueue.cpp:178`);
  `NothingMissed` is not claimed there, `DeletesOnlyChosen` is.
- Stopping the queue walks the engines by index (`QueueView.cpp:1372`).  Resetting the
  tab's engine while it is waited for removes it from the list; the engine behind it moves
  to its index, is skipped and goes on with its file, against the comment one line above
  ("Send active engines the cancel command").  It takes three queue engines, and happens in
  `transfer_queue`.  `StopMissesOne` allows that engine (`BehindWaiting`) and no other.
- A raw command makes the client forget TYPE but not the restart offset
  (`rawcommand.cpp:13`).  After the user's own REST n a transfer from the start leaves REST
  out (`rawtransfer.cpp:202`) and runs from n.  `RightTypeAndOffset` and the theorem about it
  except an offset that a raw command has set and that is still in force
  (`server.manual`); they claim the type without exception.
- The connection limit does not count engines that refresh a tab's listing; `LimitKept` is
  for sites no tab shows.
- A grant of a tab's engine is identified by a number that every tab counts on its own
  (`QueueView.cpp:2635`); one tab is modelled, so a confusion of two is not covered.
- The idle timer of an engine may disconnect it just as a file is assigned to it
  (`QueueView.cpp:2526`); no handler runs in that window in the modelled environments.
- A connect that fails while another engine is connected to the site is tried again
  without being counted (`QueueView.cpp:866`): `ImmediateEnds` is for finitely many failures.
- A request that was withdrawn before its grant is delivered makes the grant take the
  front of an empty vector (`commandqueue.cpp:241`).

### Fairness

- Event loop and timers (`WF` of the handlers): libfilezilla delivers every event to a
  handler that exists.
- The owner: handles its notifications and answers requests, as `notification.h`
  requires.
- Operations that do not wait for the owner end (`OperationProgress`): by a reply or
  by the timeout of `CControlSocket::OnTimer`.
- Interface and engines of `tab` and `transfer_queue`: the interface's event loop handles
  its events, an engine ends its command, and the transfer queue returns what it was lent.
  In `TransferQueue` the first is written out as `[]<>~Ready \/ []<><<Interface>>_vars`,
  where `Ready` is when `Interface` is enabled: the same as weak fairness, but cheaper
  to check.
- `ftp_stray` assumes no timeout, only a server that replies, logins that succeed and
  data connections that end.
- Nothing is assumed of cancels, of the loss of connections or of other engines.

## Proofs

TLAPS proves the following for every value of the constants: any number of sockets,
engines, commands, bytes, messages and transfers, any tree and any size of the cache.
An invariant that a run checks is seldom inductive; what each proof adds is said here
and, in more detail, at the head of its module.

| Module | Theorems | What the inductive invariant adds, and why |
|---|---|---|
| `OpLockManagerProofs` | TypeOK, MutualExclusion, HandlesValid, NoOrphanLock, NoDanglingSocket, NoLostWakeup, ImplementsLocks | Handles are unique per entry, sockets have one slot, the last slot and the last lock of a slot are live: that makes trimming safe. For the refinement, every action is shown to be a step of `Locks` or a stutter; the keys of the abstract locks are bounded by the number of calls, so both vectors are (`Bounded`). |
| `EngineProofs` | TypeOK, OneReplyEach, NeverStuck, RetryOnlyForConnect, RetriesAreOrderly, RunsOnceAndEnds, ReplyReachesAsker | A command that is not started has its event in the queue, and operations exist only on an existing control socket. The last three are of an undisturbed engine and need `Quiet`: at most one command event, the current command's, which has done nothing before it; m_retryCount below the limit; only the operation on top waits for an answer; a refusal that may still be obeyed is one of the current command. |
| `ThreadsProofs`: Notifications | ListTypeOK, NoNotificationLost, OneToken, DetailedLogsShown, LogsInOrder | The right to call, the call and the owner's loop are one token. A change of options not yet applied is pending in `changes` or `handler`. For the order, queued_logs_ is empty whenever a message goes to the list directly; order is stated of the three sequences and of each pair of them. |
| `ThreadsProofs`: TransferStatus | TypeOK, NoByteLost, BytesAreWatched, FinishedIsCleared | `send_state_`, the writer's position, the notifications under way and the timer are related. |
| `ThreadsProofs`: ActivityLogger | LoggerTypeOK, ActivityIsNoticed | waiting_ is false only while somebody polls; an amount that is positive again after its exchange has a thread that is still to notify. |
| `FtpTransferProofs` | TypeOK, RepliesAreCounted, EndIsOfThisTransfer; while the server has sent nothing unasked: RepliesMatch, RightTypeAndOffset, SuccessIsReal | `ClientInv`: the counters agree with the state of the operation, the transfer socket is the operation's, events of earlier transfers are in front. `Turns`: one command at most is outstanding, on its way, being worked on or answered, and it suits what the client believes of the session. An unasked reply breaks `Turns`, hence `stray = 0` in the theorems; the run of these properties has no unasked replies for the same reason. |
| `DirectoriesProofs` | NobodyStuck, RefreshIsRecent, SureIsRight | `LockInv`: who waits holds nothing and owns one waiting lock, an upload keeps the lock of cwd while it creates. `WireInv`: the operation, the command under way and the working directory are in step. `SeenInv`: who lists holds the lock of the directory, so what appears in the cache while another waits for it has been seen on the server. `TreeInv`: the server has the parents of what it has. `SureInv`: a sure listing is right, or a command that is answered and not yet handled will make the cache give it up. |
| `TabProofs` | ReplyIsForHead, DeletesOnlyChosen | `Steps`: the engine runs the head of the queue, or the transfer queue's command while that has the engine, and at most one reply is under way, with the listing it belongs to in front. `Types`: what commands delete, what is still to be visited while deleting, and where the links among it lead was chosen. The second theorem rests on `Steps`: the operation does not compare the listing with the directory it visits. |
| `TransferQueueProofs` | CountsMatch | `Book`: the list of the engines, the record of each, the active files and the engines one to one, the queued files and the lists of their sites, and the counts as cardinalities.  It holds in the middle of a handler too, so there is one lemma per operator on worlds and one per action; the loops over sites and engines are recursive functions, handled by the well-founded order of the naturals. |
| `TransferQueueCalmProofs` | while undisturbed: RightServer, ReplyIsDue, NeverBusy, TransferredOnce, StopMissesOne, LimitKept | `Calm`: an engine that is active has one command or one reply, the one of its state for its file; one that is connected is connected to the site of its record, or is being disconnected; one that has left the list is clean; the engine of the tab answers the queue only while it is lent, and otherwise does what the tab's command says.  While an engine is sent commands it is held and has nothing, and outside AdvanceQueue the tab's engine is in the list only while it is used (`Peace`). `Once`, on top of it: what has been sent of a file agrees with its record and with the reply of its engine, so that a file is given to an engine again only if the one that had it has not sent it. `Halt`: the walk of Deactivate over the list, which loses an entry on the way, tells all engines but the one behind the tab's (`OneSkipped`, `Skipped`); an engine that is told has a command, since one without has answered (`Calm`); no engine becomes active afterwards but to refresh a listing. `Room`, while the tab stays at its site: an engine claims a site if it has a connection to it that is not being closed or a file for which it may connect, and the claims of a site are within its limit. The code counts files only; that suffices because a connected engine without a file is idle and is taken first, and one that lists is at the tab's site. |

The assumptions are the named ASSUMEs of the modules.  Most are the types of constants.
Two of `Directories` say a little more: paths are sequences of names, and what is on the
way to a node is a directory (`NodesAssumption`); the trees a server may start with
contain the parents of what they contain (`TreesAssumption`).  `Tab` assumes that no name
is both a directory and a link, that the tree is finite and that its links lead to paths
(`TabAssumption`).  The theorems of `TabProofs`, like the run, are about behaviours in
which the queue is not cleared, nor a request withdrawn, while a reply is on its way
(`InStep`); see "What does not hold".  Likewise the theorems of
`TransferQueueCalmProofs` are about behaviours without `withdraw` and `race` (`Undisturbed`),
as are all those of the run `transfer_queue`: after a withdrawal the queue uses a tab's engine
it was not lent, which is the violation `queue_busy`, and a handler that runs while an idle
engine disconnects may give that engine a file.  CountsMatch needs no such condition.

Proving changed the models in several places:

- RetriesAreOrderly was claimed of engines that lose an idle connection.  It is false
  there with four commands, one more than the run executes: the command event that such a
  loss leaves behind starts a connect a second time, so that an operation can run while
  the retry timer is set.  It is now claimed of an undisturbed engine.
- A listing of a directory that was removed meanwhile is stored as sure.  Nothing is
  wrong until another directory is renamed to that path.  `missed` now contains such a
  listing, and in turn SureIsRight also promises that the directory exists.
- The transfer queue counted the engines of tabs wrongly when it looked for an idle one,
  and kept its engines as a sequence of records that moved when one was removed.  Its
  engines are now a list of names, as in the code; all engines being told to stop, which
  was claimed before, turned out to be false with three of them: `StopMissesOne` now says
  which one may be missed (see "What does not hold").
- The listings a command changes (`Changed`) are defined by the reply first: the cases
  overlapped for a refused command.

Only model-checked:

- liveness under fairness, for which the prover has no rules: EveryCommandEnds,
  EverythingArrives, DisplayCatchesUp, LedsGoOut, OperationsEnd, EverythingEnds,
  ImmediateEnds;
- CacheConsistent of Directories, because the running count is a sum over the listings,
  and CreationSucceeds;
- NothingMissed of Tab: that nothing is left out depends on every node below what was
  chosen being handled, queued or still to be visited, an argument over the whole tree.

## Plan

1. Done: all modules; the proofs in the table above.
2. Left, in this order:
   - CreationSucceeds of Directories: where nothing is removed the tree only grows, so a
     directory once entered or created stays; needs that a failed CWD of mkd is always
     followed by a try of its parent.  TypeOK of Directories beside it.
   - The part of CacheConsistent without sums: every cached directory is in the LRU list
     once.
   - NothingMissed of Tab, for operations that nobody interferes with.

## Not modelled

- Character-level work: listing parser, splitting and multi-line replies, character
  sets, PASV syntax.  A reply to PASV is understood or not.
- TLS, proxies, rate limits, buffers and file contents.  In active mode, a data
  connection accepted before the transfer command and the failure to open a listening
  socket.
- The timeout itself is a possible loss of the connection at any time.
- FTP logon and the capabilities of servers; symbolic links outside recursive
  operations, and with them the path cache, which without links or relative paths
  returns what it was asked.
- Several tabs, closing tabs, quitting, the edit handler, password dialogs, priorities.
- SFTP's helper process and the HTTP and Storj operations.
- Presentation (views, dialogs, site manager), XML and SQLite persistence, the updater.
- Vendored code: PuTTY, pugixml, NSIS; locales and build files.

Most of the repository's lines are of these last kinds: vendored PuTTY, pugixml and
NSIS, embedded icons, parsers and wxWidgets dialogs.  The modules cover the code in
which several parties have to agree.
