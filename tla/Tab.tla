---------------------------------- MODULE Tab ----------------------------------
(***************************************************************************)
(* One tab: its command queue (interface/commandqueue.cpp), its site       *)
(* (interface/state.cpp), the recursive operation that feeds the queue,    *)
(* and the transfer queue borrowing its engine.                            *)
(*                                                                         *)
(* The user interface is one thread: a handler runs to its end, except     *)
(* that every round of the loop of ProcessNextCommand is a step, because   *)
(* the engine's thread goes on meanwhile.  tab.inside tells that the loop  *)
(* runs (m_inside_commandqueue); commands that are queued then wait for    *)
(* the loop.  The engine is reduced to what Engine.tla shows of it: it     *)
(* executes one command at a time, posts listings and then one reply.      *)
(***************************************************************************)
EXTENDS RemoteRecursiveOperation

CONSTANTS
    Tree,          \* the files, directories and links there are at first
    Targets,       \* where links lead: a function to sets of directories
    Environments,  \* sets of "browse", "browseLinks", "fail", "drop", "cancel",
                   \* "evict", "borrow", "withdraw", "race"
    MaxUser        \* bound: things the user, the transfer queue and other tabs do

Names == UNION {ToSet(n) : n \in Tree}

Paths == Seq(Names)

(* Directories and links are told apart; links of the tree lead to paths.  *)
ASSUME TabAssumption ==
    /\ DirNames \cap LinkNames = {}
    /\ IsFiniteSet(Tree) /\ \A n \in Tree : n \in Paths /\ n # <<>>
    /\ \A n \in Tree : Last(n) \in LinkNames => \A q \in Targets[n] : q \in Paths
    /\ MaxUser \in Nat

VARIABLES
    tab,     \* the queue, the site and the recursive operation
    engine,  \* the command that runs, and whether there is a control socket
    inbox,   \* notifications the engine has posted
    queue,   \* the transfer queue: "none", "waits", "granted", "uses"
    tree,    \* what the server holds
    chosen,  \* what the user chose for the recursive operation, and to delete
    env,     \* what happens in this behaviour
    used,    \* number of those things so far
    trouble  \* whether the operation failed, was cancelled or lost its connection

NoCmd == Cmd("none", "none", <<>>, {})

vars == <<tab, engine, inbox, queue, tree, chosen, env, used, trouble>>

Idle(t) == ~t.lock /\ t.list = <<>>

UserIdle(t) == ~t.lock /\ \A i \in DOMAIN t.list : t.list[i].origin = "recursive"

(* mutant: an empty queue does not move the recursive operation on *)
ProcessNextCommandOnly(t) ==
    IF t.inside \/ t.lock \/ engine.cmd # NoCmd THEN t ELSE [t EXCEPT !.inside = TRUE]

(* ProcessNextCommand up to its loop.  Nothing happens inside the loop,    *)
(* while the transfer queue has the engine, or while that is busy.  With   *)
(* nothing queued the recursive operation is moved on.                     *)
ProcessNextCommand(t) ==
    IF t.inside \/ t.lock \/ engine.cmd # NoCmd THEN t
    ELSE [IF t.list = <<>> THEN NextOperation(t) ELSE t EXCEPT !.inside = TRUE]

(* Commands c are queued; the first one of an empty queue starts it.       *)
Queue(t, c) ==
    LET u == [t EXCEPT !.list = @ \o c]
    IN  IF t.list = <<>> THEN ProcessNextCommand(u) ELSE u

(* other is FALSE if the site is set to what it was.                       *)
SetSite(t, site, other) ==
    LET same == site /\ t.site /\ ~other
    IN  [t EXCEPT !.site = site, !.success = @ /\ same, !.shown = @ /\ same]

(* A connect that failed takes everything with it up to the next connect.  *)
WithoutFailedConnect(list) ==
    LET later == {i \in 2 .. Len(list) : list[i].id = "connect"}
    IN  IF later = {} THEN <<>> ELSE SubSeq(list, Min(later), Len(list))

ConnectCmd == Cmd("connect", "normal", <<>>, {})
DisconnectCmd == Cmd("disconnect", "normal", <<>>, {})

(* What the list command c that has failed does to the recursive operation.*)
ListFailed(t, c, code) ==
    IF code = "linknotdir" THEN LinkIsNotDir(t, t.site)
    ELSE IF c.origin = "recursive" THEN ListingFailed(t, code)
    ELSE t

(* Each command is worth one automatic reconnect.                          *)
Reconnects(t, code, id) ==
    /\ code = "disconnected" /\ id \notin {"connect", "disconnect"}
    /\ ~Head(t.list).retried /\ t.site

ProcessReply(t, code, id) ==
    LET c == Head(t.list)
        outer(u) == ProcessNextCommand(u)
        pop(u) == [u EXCEPT !.list = Tail(@)]
    IN  IF t.list = <<>> THEN t
        ELSE IF Reconnects(t, code, id)
        THEN outer([t EXCEPT !.list = <<ConnectCmd, [c EXCEPT !.retried = TRUE]>> \o Tail(@)])
        ELSE IF c.id = "list" /\ code # "ok"
        THEN outer(pop(ListFailed(t, c, code)))
        ELSE IF code = "alreadyconnected" /\ c.id = "connect"
        THEN outer([t EXCEPT !.list = <<DisconnectCmd>> \o @])
        ELSE IF c.id = "connect" /\ code # "ok"
        THEN outer(StopRecursiveOperation([t EXCEPT !.list = WithoutFailedConnect(@)]))
        ELSE IF c.id = "connect"
        THEN outer(pop([t EXCEPT !.success = TRUE]))
        ELSE outer(pop(t))

-----------------------------------------------------------------------------
(* The loop of ProcessNextCommand.                                         *)

(* CheckCommandPreconditions.  A control socket outlives its connection    *)
(* and logs on again by itself, so a lost connection is not noticed here.  *)
Precondition(c) ==
    IF c.id \notin {"connect", "disconnect"} /\ ~engine.socket THEN "notconnected"
    ELSE IF c.id = "connect" /\ engine.socket THEN "alreadyconnected" ELSE "ok"

(* A cancel event that is still under way is handled before c is begun.    *)
Executes(c) == [engine EXCEPT !.cmd = c, !.late = engine.cancel, !.cancel = FALSE]

ExecuteNext ==
    /\ tab.inside /\ tab.list # <<>> /\ Precondition(Head(tab.list)) = "ok"
    /\ engine' = Executes(Head(tab.list))
    /\ tab' = [tab EXCEPT !.inside = FALSE]
    /\ UNCHANGED <<inbox, queue, tree, chosen, env, used, trouble>>

ExecuteFails ==
    /\ tab.inside /\ tab.list # <<>> /\ Precondition(Head(tab.list)) # "ok"
    /\ tab' = ProcessReply(tab, Precondition(Head(tab.list)), Head(tab.list).id)
    /\ trouble' = TRUE
    /\ UNCHANGED <<engine, inbox, queue, tree, chosen, env, used>>

(* The loop ends with nothing left: the engine is lent to the transfer     *)
(* queue if that waits, and a site that was never reached is forgotten.    *)
LoopEnds ==
    LET t == [tab EXCEPT !.inside = FALSE, !.lock = (queue = "waits")]
    IN  /\ tab.inside /\ tab.list = <<>>
        /\ tab' = IF t.success THEN t ELSE SetSite(t, FALSE, TRUE)
        /\ queue' = IF queue = "waits" THEN "granted" ELSE queue
        /\ UNCHANGED <<engine, inbox, tree, chosen, env, used, trouble>>

ProcessNextCommandLoop == ExecuteNext \/ ExecuteFails \/ LoopEnds

-----------------------------------------------------------------------------
(* Notifications.                                                          *)
Children(p) == {Last(n) : n \in {m \in tree : Front(m) = p}}

(* Finish.  A reply to the transfer queue's command goes there.            *)
Finish ==
    /\ ~tab.inside /\ inbox # <<>> /\ Head(inbox).kind = "reply"
    /\ inbox' = Tail(inbox)
    /\ IF tab.lock
       THEN /\ queue' = IF queue = "uses" THEN "granted" ELSE queue
            /\ UNCHANGED tab
       ELSE /\ tab' = ProcessReply(tab, Head(inbox).code, Head(inbox).id)
            /\ UNCHANGED queue
    /\ UNCHANGED <<engine, tree, chosen, env, used, trouble>>

(* mutant: any list command of the recursive operation makes a listing one *)
(* of its own                                                              *)
IsRecursiveIfAny(list) ==
    \E i \in DOMAIN list : list[i].id = "list" /\ list[i].origin = "recursive"

(* The first list command in the queue tells whose listing it is.          *)
IsRecursive(list) ==
    LET lists == {i \in DOMAIN list : list[i].id = "list"}
    IN  lists # {} /\ list[Min(lists)].origin = "recursive"

(* CCommandQueue::ProcessDirectoryListing.  The listing is looked up in    *)
(* the cache, which others may have removed it from.                       *)
Listing ==
    LET n == Head(inbox)
    IN  /\ ~tab.inside /\ inbox # <<>> /\ n.kind = "listing"
        /\ inbox' = Tail(inbox)
        /\ \E available \in BOOLEAN :
             /\ ~available => "evict" \in env /\ used < MaxUser
             /\ used' = IF available THEN used ELSE used + 1
             /\ tab' = IF ~IsRecursive(tab.list) THEN [tab EXCEPT !.shown = TRUE]
                       ELSE IF ~tab.site THEN StopRecursiveOperation(tab)
                       ELSE ProcessDirectoryListing(tab, n.path, Children(n.path), available)
        /\ UNCHANGED <<engine, queue, tree, chosen, env, trouble>>

-----------------------------------------------------------------------------
(* What the user does.                                                     *)
User ==
    /\ ~tab.inside /\ used < MaxUser
    /\ used' = used + 1
    /\ UNCHANGED <<inbox, tree, env>>

(* Entering a directory or a link is possible during a recursive operation.*)
Browse ==
    /\ User /\ tab.site /\ UserIdle(tab)
    /\ tab.mode # "none" => "browse" \in env
    /\ \E n \in {<<>>} \cup {m \in tree : Last(m) \in DirNames \cup LinkNames} :
         LET link == n # <<>> /\ Last(n) \in LinkNames
         IN  /\ link => "browseLinks" \in env
             /\ tab' = Queue(tab, <<[Cmd("list", "normal", n, {}) EXCEPT !.link = link]>>)
    /\ UNCHANGED <<engine, queue, chosen, trouble>>

Chosen(n, set) == \E c \in set : IsPrefix(c, n)

LeadsOn(n) == Last(n) \in LinkNames /\ Targets[n] # {}

(* A directory or link n in the directory that is shown is chosen for a    *)
(* recursive operation; deleting follows links if the user says so.  The   *)
(* dialog that confirms deleting runs the event loop, so that no           *)
(* notification is left from before.                                       *)
StartRecursiveOperation ==
    /\ User /\ tab.site /\ tab.shown /\ Idle(tab) /\ tab.mode = "none"
    /\ \E n \in {m \in tree : Len(m) = 1 /\ Last(m) \in DirNames \cup LinkNames},
          mode \in {"delete", "transfer"} :
         LET link == IF mode = "delete" \/ Last(n) \in LinkNames THEN 2 ELSE 0
             t == [tab EXCEPT !.mode = mode, !.start = <<>>, !.visited = {},
                              !.todo = <<NewDir(n, link, TRUE, {})>>, !.handled = {}]
             all == {n} \cup (IF Last(n) \in LinkNames THEN Targets[n] ELSE {})
         IN  /\ tab' = ProcessNextCommand(NextOperation(t))
             /\ mode = "delete" => inbox = <<>>
             /\ chosen' = [to |-> mode,
                            nodes |-> {m \in tree : Chosen(m, all) /\ ~LeadsOn(m)},
                            ever |-> chosen.ever \cup (IF mode = "delete" THEN all ELSE {})]
    /\ trouble' = FALSE
    /\ UNCHANGED <<engine, queue>>

(* mutant: the command that runs is forgotten as well *)
CancelledAll(t) == IF t.lock THEN t ELSE [t EXCEPT !.list = <<>>]

(* CCommandQueue::Cancel: all but the command that runs is forgotten.      *)
Cancelled(t) ==
    IF t.lock \/ t.list = <<>> THEN t
    ELSE [t EXCEPT !.list = IF engine.cmd = NoCmd THEN <<>> ELSE <<Head(@)>>]

CancelEngine(t) ==
    engine' = [engine EXCEPT !.cancel = @ \/ (~t.lock /\ t.list # <<>> /\ engine.cmd # NoCmd)]

(* Without "race" the queue is not interfered with while a reply to it is  *)
(* on its way from the engine's thread.                                    *)
InTime == "race" \in env \/ \A i \in DOMAIN inbox : inbox[i].kind # "reply"

OnCancel ==
    /\ "cancel" \in env /\ User /\ InTime /\ ~Idle(tab)
    /\ CancelEngine(tab)
    /\ tab' = StopRecursiveOperation(Cancelled(tab))
    /\ trouble' = TRUE
    /\ UNCHANGED <<queue, chosen>>

(* CState::Connect                                                         *)
Connect ==
    /\ User /\ InTime
    /\ (~Idle(tab) \/ engine.cmd # NoCmd \/ engine.socket) => "cancel" \in env
    /\ CancelEngine(tab)
    /\ \E other \in BOOLEAN :
         tab' = Queue(SetSite(StopRecursiveOperation(Cancelled(tab)), TRUE, other),
                      <<ConnectCmd, Cmd("list", "normal", <<>>, {})>>)
    /\ trouble' = TRUE
    /\ UNCHANGED <<queue, chosen>>

Disconnect ==
    /\ User /\ tab.site /\ Idle(tab) /\ tab.mode = "none"
    /\ tab' = Queue(SetSite(tab, FALSE, TRUE), <<DisconnectCmd>>)
    /\ UNCHANGED <<engine, queue, chosen, trouble>>

-----------------------------------------------------------------------------
(* The transfer queue borrows the engine.                                  *)

(* RequestExclusiveEngine and GrantExclusiveEngineRequest                  *)
RequestExclusiveEngine ==
    /\ "borrow" \in env /\ ~tab.inside /\ queue = "none" /\ used < MaxUser
    /\ used' = used + 1
    /\ queue' = IF ~tab.lock /\ tab.list = <<>> THEN "granted" ELSE "waits"
    /\ tab' = [tab EXCEPT !.lock = @ \/ tab.list = <<>>]
    /\ UNCHANGED <<engine, inbox, tree, chosen, env, trouble>>

QueueExecutes ==
    /\ ~tab.inside /\ queue = "granted" /\ engine.cmd = NoCmd /\ engine.socket
    /\ queue' = "uses"
    /\ engine' = Executes(Cmd("transfer", "queue", <<>>, {}))
    /\ UNCHANGED <<tab, inbox, tree, chosen, env, used, trouble>>

(* A request may be withdrawn before it is granted.                        *)
ReleaseEngine ==
    /\ ~tab.inside
    /\ queue = "granted" \/ (queue = "waits" /\ "withdraw" \in env /\ InTime)
    /\ queue' = "none"
    /\ tab' = ProcessNextCommand([tab EXCEPT !.lock = FALSE])
    /\ UNCHANGED <<engine, inbox, tree, chosen, env, used, trouble>>

-----------------------------------------------------------------------------
(* The engine and the server.                                              *)
Reply(code) == [kind |-> "reply", id |-> engine.cmd.id, code |-> code, path |-> <<>>]
ListingOf(p) == [kind |-> "listing", id |-> "list", code |-> "ok", path |-> p]

(* Where a list command leads: {} if its link is not a directory or its    *)
(* directory does not exist.                                               *)
Resolve(c) ==
    IF c.dir = <<>> THEN {<<>>}
    ELSE IF c.dir \notin tree THEN {}
    ELSE IF Last(c.dir) \in LinkNames THEN Targets[c.dir] ELSE {c.dir}

Below(n) == {m \in tree : IsStrictPrefix(n, m)}

(* The command succeeds, as far as the server lets it.                     *)
EngineSucceeds ==
    LET c == engine.cmd
        ok == CASE c.id = "list" -> Resolve(c) # {}
                [] c.id = "rmd" -> c.dir \in tree /\ Last(c.dir) \in DirNames
                                   /\ Below(c.dir) = {}
                [] c.id = "del" -> \A f \in c.files : f \in tree /\ Last(f) \notin DirNames
                [] OTHER -> TRUE
        bad == IF c.link THEN "linknotdir" ELSE "error"
    IN  /\ c # NoCmd /\ ~engine.late
        /\ inbox' = inbox
               \o (IF c.id # "list" \/ ~ok THEN <<>>
                   ELSE <<ListingOf(CHOOSE p \in Resolve(c) : TRUE)>>)
               \o <<Reply(IF ok THEN "ok" ELSE bad)>>
        /\ tree' = CASE ok /\ c.id = "rmd" -> tree \ {c.dir}
                     [] c.id = "del" -> tree \ {f \in c.files : Last(f) \notin DirNames}
                     [] OTHER -> tree
        /\ trouble' = (trouble \/ (~ok /\ c.origin = "recursive" /\ bad # "linknotdir"))
        /\ engine' = [engine EXCEPT !.cmd = NoCmd, !.socket = (c.id # "disconnect")]
        /\ UNCHANGED <<tab, queue, chosen, env, used>>

EngineFails ==
    /\ engine.cmd # NoCmd /\ ~engine.late
    /\ \E code \in (IF "fail" \in env THEN {"error", "critical"} ELSE {})
                   \cup (IF "drop" \in env THEN {"disconnected"} ELSE {}) :
         inbox' = Append(inbox, Reply(code))
    /\ engine' = [engine EXCEPT !.cmd = NoCmd, !.socket = (engine.cmd.id # "disconnect")]
    /\ trouble' = TRUE
    /\ UNCHANGED <<tab, queue, tree, chosen, env, used>>

(* DoCancel.  A connect that waits for a retry leaves no socket, and a     *)
(* disconnect is over at once.                                             *)
EngineCancels ==
    /\ engine.cancel /\ ~engine.late /\ engine.cmd.id # "disconnect"
    /\ \E socket \in BOOLEAN :
         /\ engine.cmd.id # "connect" => socket = engine.socket
         /\ engine' = [engine EXCEPT !.cancel = FALSE, !.cmd = NoCmd, !.socket = socket]
    /\ inbox' = IF engine.cmd = NoCmd THEN inbox ELSE Append(inbox, Reply("canceled"))
    /\ trouble' = TRUE
    /\ UNCHANGED <<tab, queue, tree, chosen, env, used>>

(* DoCancel for a command that was given after the cancel event: it ends   *)
(* before it is begun, unless there is a control socket, which has nothing *)
(* to cancel yet.                                                          *)
EngineCancelsLate ==
    /\ engine.late
    /\ engine' = [engine EXCEPT !.late = FALSE, !.cmd = IF engine.socket THEN @ ELSE NoCmd]
    /\ inbox' = IF engine.socket THEN inbox ELSE Append(inbox, Reply("canceled"))
    /\ trouble' = TRUE
    /\ UNCHANGED <<tab, queue, tree, chosen, env, used>>

EngineSteps == EngineSucceeds \/ EngineFails \/ EngineCancels \/ EngineCancelsLate

-----------------------------------------------------------------------------
Init ==
    /\ tab = [list |-> <<>>, inside |-> FALSE, lock |-> FALSE, site |-> TRUE,
              shown |-> TRUE, success |-> TRUE, mode |-> "none", start |-> <<>>, todo |-> <<>>,
              visited |-> {}, handled |-> {}]
    /\ engine = [cmd |-> NoCmd, socket |-> TRUE, cancel |-> FALSE, late |-> FALSE]
    /\ inbox = <<>> /\ queue = "none" /\ tree = Tree /\ chosen = [to |-> "none", nodes |-> {}, ever |-> {}]
    /\ env \in Environments /\ used = 0 /\ trouble = FALSE

Interface == ProcessNextCommandLoop \/ Finish \/ Listing

Next ==
    \/ Interface \/ EngineSteps
    \/ Browse \/ StartRecursiveOperation \/ OnCancel \/ Connect \/ Disconnect
    \/ RequestExclusiveEngine \/ QueueExecutes \/ ReleaseEngine

(* The interface handles its events, the engine ends every command, and    *)
(* the transfer queue gives the engine back.                               *)
FairSpec ==
    /\ Init /\ [][Next]_vars
    /\ WF_vars(Interface) /\ WF_vars(EngineSteps)
    /\ WF_vars(queue = "granted" /\ ReleaseEngine)
-----------------------------------------------------------------------------
(* A reply that is under way while the queue is cleared, or while a        *)
(* request for the engine is withdrawn, makes the queue and the engine     *)
(* lose step; and a link that the user enters can be taken for one that    *)
(* the recursive operation visits (see README).                            *)
InStep == "race" \notin env
Calm == InStep /\ "browseLinks" \notin env

(* Deleting a directory recursively removes nothing but what was chosen,   *)
(* although every listing that arrives is taken for that of the directory  *)
(* that is visited next, wherever it is if that was chosen as a link: not  *)
(* while the user browses, connections are lost, listings fail, operations *)
(* are cancelled and restarted or the transfer queue uses the engine.      *)
DeletesOnlyChosen ==
    InStep => \A n \in Tree \ tree : Chosen(n, chosen.ever)

(* A recursive operation that ends without trouble has left nothing out:   *)
(* all files below what was chosen were transferred, or all of it is gone  *)
(* from the server.  Commands of the user in between make no difference.   *)
NothingMissed ==
    Calm /\ tab.mode = "none" /\ ~trouble /\ tab.list = <<>> =>
        IF chosen.to = "delete" THEN chosen.nodes \cap tree = {}
        ELSE {n \in chosen.nodes : Last(n) \notin DirNames} \subseteq tab.handled

(* The reply that is under way is for the command at the head of the       *)
(* queue, which ProcessReply takes it to be for.                           *)
ReplyIsForHead ==
    InStep =>
        \A i \in DOMAIN inbox :
            inbox[i].kind = "reply" /\ inbox[i].id # "transfer" =>
                tab.list # <<>> /\ Head(tab.list).id = inbox[i].id

(* A recursive operation ends, and so does every command, however often    *)
(* listings fail, connections are lost, and the listing that would move    *)
(* the operation on is gone when the interface looks it up.                *)
EverythingEnds ==
    InStep /\ (tab.mode # "none" \/ tab.list # <<>>)
        ~> tab.mode = "none" /\ tab.list = <<>>
=============================================================================
