----------------------------- MODULE TransferQueue -----------------------------
(***************************************************************************)
(* The transfer queue (interface/QueueView.cpp, interface/queue.cpp): the  *)
(* files queued for every site, the engines of the queue that transfer     *)
(* them, and the engine of a tab that the queue borrows when a site allows *)
(* one connection only and the tab has it.                                 *)
(*                                                                         *)
(* A handler of the interface is a step, except that every round of        *)
(* SendNextCommand and of the loop of AdvanceQueue is one, since the       *)
(* engines' threads go on meanwhile: q.sending is the engine being sent a  *)
(* command, q.inside tells that the loop runs (insideAdvanceQueue).  The   *)
(* operators below map a world, the record of the four variables the       *)
(* interface changes, to a world.  Engines are reduced to what Engine.tla  *)
(* shows of them and the tab to what Tab.tla shows of it.  q.engines is    *)
(* m_engineData, a vector of pointers to the records q.data.               *)
(***************************************************************************)
EXTENDS Integers, FiniteSets, FiniteSetsExt, Sequences, SequencesExt

CONSTANTS
    Sites,         \* the sites files are queued for
    Items,         \* the files and directories the user may queue
    SiteOf,        \* their sites
    Kind,          \* "download", "upload" or "mkdir"
    Limit,         \* Site::connection_limit_, 0 if there is none
    MaxTransfers,  \* OPTION_NUMTRANSFERS
    MaxDownloads,  \* OPTION_CONCURRENTDOWNLOADLIMIT, 0 if there is none
    MaxUploads,    \* OPTION_CONCURRENTUPLOADLIMIT, 0 if there is none
    Retries,       \* OPTION_RECONNECTCOUNT
    Loaded,        \* the items the queue was saved with, a sequence
    TabSites,      \* where the tab may be at first
    Environments,  \* sets of "fail", "drop", "stop", "tab", "idle", "withdraw", "race"
    MaxEvents      \* bound: things the user does, faults and timers, queueing not counted

VARIABLES
    q,     \* the queue
    item,  \* the files
    tab,   \* the tab
    net,   \* the engines
    env,   \* what happens in this behaviour
    used   \* number of those things so far

vars == <<q, item, tab, net, env, used>>

TabEngine == 0
Engines == TabEngine .. MaxTransfers
NoEngine == -1
NoItem == "none"
NoSite == "none"

ASSUME QueueAssumption ==
    /\ NoItem \notin Items /\ NoSite \notin Sites
    /\ SiteOf \in [Items -> Sites]
    /\ Kind \in [Items -> {"download", "upload", "mkdir"}]
    /\ Limit \in [Sites -> Nat]
    /\ MaxTransfers \in Nat /\ MaxDownloads \in Nat /\ MaxUploads \in Nat
    /\ Retries \in Nat
    /\ Loaded \in Seq(Items)
    /\ TabSites \subseteq Sites \cup {NoSite}

Download(i) == Kind[i] = "download"

(* The command for item i: CFileTransferCommand or CMkdirCommand.          *)
Work(i) == IF Kind[i] = "mkdir" THEN "mkdir" ELSE "transfer"

NewData(state) ==
    [active |-> FALSE, state |-> state, item |-> NoItem, site |-> NoSite, timer |-> FALSE]

HasData(w, id) == Contains(w.q.engines, id)
Data(w, id) == w.q.data[id]
WithData(w, id, d) == [w EXCEPT !.q.data[id] = d]
SetState(w, id, state) == WithData(w, id, [Data(w, id) EXCEPT !.state = state])

AddEngine(w, id, state) ==
    [WithData(w, id, NewData(state)) EXCEPT !.q.engines = Append(@, id)]

IsConnected(w, id) == w.net[id].server # NoSite

-----------------------------------------------------------------------------
(* CFileZillaEngine::Execute, which leaves the rest to the engine's thread.*)
Precondition(w, id, cmd) ==
    IF w.net[id].cmd # "none" THEN "busy"
    ELSE IF cmd \notin {"connect", "disconnect"} /\ ~IsConnected(w, id) THEN "notconnected"
    ELSE IF cmd = "connect" /\ IsConnected(w, id) THEN "alreadyconnected" ELSE "wouldblock"

WithNet(w, id, n) == [w EXCEPT !.net[id] = n]

(* A cancel event that is still under way is handled before the command.   *)
Execute(w, id, cmd, to) ==
    LET n == w.net[id]
    IN  WithNet(w, id, [n EXCEPT !.cmd = cmd, !.to = to, !.cancel = FALSE, !.late = n.cancel])

CancelEngine(w, id) ==
    IF w.net[id].cmd = "none" THEN w
    ELSE WithNet(w, id, [w.net[id] EXCEPT !.cancel = TRUE])

-----------------------------------------------------------------------------
(* The tab's engine is lent by its command queue.                          *)
GrantExclusiveEngineRequest(w) ==
    LET id == w.tab.id + 1
    IN  [w EXCEPT !.tab = [w.tab EXCEPT !.lock = TRUE, !.id = id,
                                       !.grants = Append(w.tab.grants, id)]]

RequestExclusiveEngine(w) ==
    LET u == [w EXCEPT !.tab.wants = TRUE]
    IN  IF w.tab.wants THEN w
        ELSE IF ~w.tab.lock /\ w.tab.cmd = "none" THEN GrantExclusiveEngineRequest(u) ELSE u

ReleaseEngine(w) ==
    IF ~w.tab.wants THEN w ELSE [w EXCEPT !.tab = [w.tab EXCEPT !.wants = FALSE, !.lock = FALSE]]

-----------------------------------------------------------------------------
(* The lists of a site: q.now are the files to be transferred at once      *)
(* (m_fileList[1]), q.later the others (m_fileList[0]).                    *)
Children(w, s) == w.q.now[s] \o w.q.later[s]

(* What is in S, in the order of seq.                                      *)
Chosen(seq, S) ==
    LET upTo[n \in 0 .. Len(seq)] ==
            IF n = 0 THEN <<>>
            ELSE IF seq[n] \in S THEN Append(upTo[n - 1], seq[n]) ELSE upTo[n - 1]
    IN  upTo[Len(seq)]

Without(seq, x) == Chosen(seq, ToSet(seq) \ {x})

WithLists(w, now, later) == [w EXCEPT !.q.now = now, !.q.later = later]

QueueImmediateFile(w, i) ==
    LET s == SiteOf[i]
    IN  IF Contains(w.q.now[s], i)
        THEN WithLists(w, [w.q.now EXCEPT ![s] = Without(@, i)], [w.q.later EXCEPT ![s] = <<i>> \o @])
        ELSE w

QueueImmediateFiles(w) ==
    LET active == {i \in Items : w.item[i].active}
    IN  WithLists(w, [s \in Sites |-> Chosen(w.q.now[s], active)],
                     [s \in Sites |-> Chosen(w.q.now[s], Items \ active) \o w.q.later[s]])

(* RemoveItem: a site goes with its last item.                             *)
RemoveItem(w, i, where) ==
    LET s == SiteOf[i]
        u == [WithLists(w, [w.q.now EXCEPT ![s] = Without(@, i)],
                           [w.q.later EXCEPT ![s] = Without(@, i)])
                EXCEPT !.item[i].where = where]
    IN  IF Children(u, s) = <<>> THEN [u EXCEPT !.q.servers = Without(@, s)] ELSE u

-----------------------------------------------------------------------------
(* The idle engine for site s: one that is connected to it, else the first,*)
(* else a new one if there may be one more; an engine of a tab that is     *)
(* active takes the place of one.                                          *)
GetIdleEngine(w, s, allowTransient) ==
    LET e == w.q.engines
        idle == {k \in DOMAIN e : ~Data(w, e[k]).active /\ (e[k] = TabEngine => allowTransient)}
        there == {k \in idle : IsConnected(w, e[k]) /\ Data(w, e[k]).site = s}
        own == Len(e) - (IF HasData(w, TabEngine) THEN 1 ELSE 0)
        counted == IF Data(w, TabEngine).active THEN Len(e) ELSE own
    IN  IF there # {} THEN [w |-> w, id |-> e[Min(there)]]
        ELSE IF idle # {} THEN [w |-> w, id |-> e[Min(idle)]]
        ELSE IF counted < MaxTransfers
        THEN [w |-> AddEngine(w, own + 1, "none"), id |-> own + 1]
        ELSE [w |-> w, id |-> NoEngine]

(* The connections to site s that count, the one of the tab included.      *)
Connections(w, s) == w.q.busy[s] + (IF w.tab.site = s THEN 1 ELSE 0)

(* mutant: one connection more than the limit *)
LimitExceeded(w, s) == Limit[s] # 0 /\ Connections(w, s) > Limit[s]

LimitReached(w, s) == Limit[s] # 0 /\ Connections(w, s) >= Limit[s]

(* Whether a file of site s may be transferred, and by which engine unless *)
(* that is left open: at the limit the queue takes an engine that is there *)
(* already, or borrows the tab's if no other is active.                    *)
Answer(w, ok, id) == [w |-> w, ok |-> ok, id |-> id]

AtLimit(w, s, id) ==
    IF id # NoEngine /\ Data(w, id).site = s /\ IsConnected(w, id) THEN Answer(w, TRUE, id)
    ELSE IF w.tab.site # s \/ Connections(w, s) > 1 THEN Answer(w, FALSE, NoEngine)
    ELSE IF HasData(w, TabEngine) THEN Answer(w, ~Data(w, TabEngine).active, TabEngine)
    ELSE Answer(AddEngine(w, TabEngine, "waitprimary"), TRUE, TabEngine)

CanStartTransfer(w, s) ==
    LET idle == GetIdleEngine(w, s, TRUE)
    IN  IF ~LimitReached(w, s) THEN Answer(w, TRUE, NoEngine) ELSE AtLimit(idle.w, s, idle.id)

DownloadsLeft(w) == MaxDownloads = 0 \/ w.q.down < MaxDownloads
UploadsLeft(w) == MaxUploads = 0 \/ w.q.up < MaxUploads

(* GetIdleChild: the first file of s that may be transferred now.          *)
GetIdleChild(w, s) ==
    LET files == IF w.q.mode = 1 THEN w.q.now[s] ELSE Children(w, s)
        idle == {k \in DOMAIN files :
                    /\ ~w.item[files[k]].active
                    /\ IF Download(files[k]) THEN DownloadsLeft(w) ELSE UploadsLeft(w)}
    IN  IF idle = {} THEN NoItem ELSE files[Min(idle)]

(* The match when site s has been asked too.                               *)
Asked(m, s) ==
    LET c == CanStartTransfer(m.w, s)
        i == GetIdleChild(m.w, s)
    IN  IF c.ok /\ i # NoItem /\ m.item = NoItem THEN [w |-> c.w, item |-> i, id |-> c.id]
        ELSE [w |-> c.w, item |-> m.item, id |-> m.id]

(* The loop over the sites.  All of them are asked, which may leave an     *)
(* engine that is not used; the first one with a file is taken.            *)
BestMatch(world) ==
    LET match[n \in 0 .. Len(world.q.servers)] ==
            IF n = 0 THEN [w |-> world, item |-> NoItem, id |-> NoEngine]
            ELSE Asked(match[n - 1], world.q.servers[n])
    IN  match[Len(world.q.servers)]

(* mutant: an engine that is connected is taken to be connected to the     *)
(* right site                                                              *)
FirstStateAnySite(w, id, i) ==
    IF Data(w, id).state = "waitprimary" THEN "waitprimary"
    ELSE IF ~IsConnected(w, id) THEN "connect" ELSE Work(i)

(* What engine id has to do first to transfer i.                           *)
FirstState(w, id, i) ==
    IF Data(w, id).state = "waitprimary" THEN "waitprimary"
    ELSE IF ~IsConnected(w, id) THEN "connect"
    ELSE IF Data(w, id).site # SiteOf[i] THEN "disconnect" ELSE Work(i)

(* One transfer of file i more or less.                                    *)
Counted(w, i, n) ==
    LET c == w.q
        s == SiteOf[i]
        down == IF Download(i) THEN n ELSE 0
        up == IF Download(i) THEN 0 ELSE n
    IN  [w EXCEPT !.q.busy = [c.busy EXCEPT ![s] = c.busy[s] + n], !.q.count = c.count + n,
                  !.q.down = c.down + down, !.q.up = c.up + up]

SetActiveItem(w, i, active) == [w EXCEPT !.item[i].active = active]

(* File i is assigned to engine id, which is sent a command next.          *)
Assign(w, i, id) ==
    LET d == [Data(w, id) EXCEPT !.item = i, !.active = TRUE, !.timer = FALSE, !.site = SiteOf[i],
                                 !.state = FirstState(w, id, i)]
    IN  [Counted(SetActiveItem(WithData(w, id, d), i, TRUE), i, 1) EXCEPT !.q.sending = id]

(* The world after TryStartNextTransfer; ok if it has started one.         *)
TryStartNextTransfer(w) ==
    LET none(u) == [w |-> u, ok |-> FALSE]
        by(idle, i) == IF idle.id = NoEngine THEN none(idle.w)
                       ELSE [w |-> Assign(idle.w, i, idle.id), ok |-> TRUE]
        start(m) == IF m.item = NoItem THEN none(m.w)
                    ELSE by(IF m.id # NoEngine THEN m
                            ELSE GetIdleEngine(m.w, SiteOf[m.item], FALSE), m.item)
    IN  IF w.q.mode = 0 \/ w.q.count >= MaxTransfers \/ ~(DownloadsLeft(w) \/ UploadsLeft(w))
        THEN none(w) ELSE start(BestMatch(w))

-----------------------------------------------------------------------------
(* The listing of the tab is refreshed, once, by an idle engine that is    *)
(* connected to its site.                                                  *)
TryRefreshListings(w) ==
    LET s == w.tab.site
        refreshing == \E id \in Engines :
                        Data(w, id).active /\ Data(w, id).state = "list" /\ Data(w, id).site = s
        list(v, id) ==
            IF Precondition(v, id, "list") # "wouldblock" THEN v
            ELSE [WithData(Execute(v, id, "list", NoItem), id,
                           [Data(v, id) EXCEPT !.active = TRUE, !.state = "list"])
                    EXCEPT !.q.count = v.q.count + 1]
        with(v, id) ==
            IF id = NoEngine \/ ~IsConnected(v, id) \/ Data(v, id).site # s THEN v
            ELSE list([v EXCEPT !.q.refreshed = TRUE], id)
        idle == GetIdleEngine(w, s, FALSE)
    IN  IF s = NoSite \/ ~w.tab.listing \/ w.q.refreshed \/ refreshing THEN w
        ELSE with(idle.w, idle.id)

(* An engine that was borrowed and is not used leaves the list.            *)
Forget(w) ==
    [WithData(w, TabEngine, NewData("none")) EXCEPT !.q.engines = Without(@, TabEngine)]

Unused(w) == HasData(w, TabEngine) /\ ~Data(w, TabEngine).active

(* With nothing left to do the queue stops.                                *)
Rest(w) ==
    IF w.q.count # 0 \/ w.q.mode = 0 THEN w ELSE TryRefreshListings([w EXCEPT !.q.mode = 0])

(* mutant: the engine of a tab is not given back *)
CheckQueueStateKeepsLock(w) == Rest(IF Unused(w) THEN Forget(w) ELSE w)

CheckQueueState(w) == Rest(IF Unused(w) THEN Forget(ReleaseEngine(w)) ELSE w)

(* AdvanceQueue after its loop: the timers of idle engines are set.        *)
AdvanceQueueEnds(w) ==
    LET timed(id) == IF HasData(w, id) /\ ~Data(w, id).active /\ id # TabEngine
                     THEN [Data(w, id) EXCEPT !.timer = IsConnected(w, id)] ELSE Data(w, id)
    IN  CheckQueueState([w EXCEPT !.q.inside = FALSE, !.q.data = [id \in Engines |-> timed(id)]])

(* AdvanceQueue, whose loop is left to StartNextTransfer; one that runs    *)
(* already goes on.                                                        *)
AdvanceQueue(w) == [w EXCEPT !.q.inside = TRUE]

(* The item that is reset moves to where the reason says.                  *)
Moved(w, i, reason) ==
    CASE reason = "reset" -> QueueImmediateFile(w, i)
      [] reason = "retry" -> w
      [] reason = "failure" -> RemoveItem(w, i, "failed")
      [] reason = "success" -> RemoveItem(w, i, "done")
      [] reason = "remove" -> RemoveItem(w, i, "gone")

(* mutant: an engine without a file is not counted out *)
ResetCountsOfFiles(w, id) ==
    LET i == Data(w, id).item
    IN  IF i = NoItem THEN w ELSE Counted(SetActiveItem(w, i, FALSE), i, -1)

(* What ResetEngine does to the counts.                                    *)
ResetCounts(w, id) ==
    LET i == Data(w, id).item
    IN  IF i = NoItem THEN [w EXCEPT !.q.count = w.q.count - 1]
        ELSE Counted(SetActiveItem(w, i, FALSE), i, -1)

(* ResetEngine up to its call of AdvanceQueue.                             *)
Reset(w, id, reason) ==
    LET d == Data(w, id)
        moved(u) == IF d.item = NoItem THEN u ELSE Moved(u, d.item, reason)
        released(u) == IF d.state = "waitprimary" THEN ReleaseEngine(u) ELSE u
    IN  WithData(released(moved(ResetCounts(w, id))), id,
                 [d EXCEPT !.active = FALSE, !.item = NoItem, !.state = "none"])

ResetEngine(w, id, reason) ==
    IF ~Data(w, id).active THEN w ELSE AdvanceQueue(Reset(w, id, reason))

(* An engine is told to stop.  The queue is stopped, so that of            *)
(* AdvanceQueue only the end is left.                                      *)
StopEngine(w, id) ==
    IF ~Data(w, id).active THEN w
    ELSE IF Data(w, id).state = "waitprimary" THEN AdvanceQueueEnds(Reset(w, id, "reset"))
    ELSE CancelEngine(w, id)

(* mutant: the walk begins with the second engine *)
StopAtFromSecond(w, k) ==
    IF k = 1 \/ k > Len(w.q.engines) THEN w ELSE StopEngine(w, w.q.engines[k])

(* The engine at index k of the list, if there is one.                     *)
StopAt(w, k) == IF k > Len(w.q.engines) THEN w ELSE StopEngine(w, w.q.engines[k])

(* The queue is stopped.  The engines are walked by index, while resetting *)
(* one may remove it from the list.                                        *)
Deactivate(w) ==
    LET stopped[k \in 0 .. Len(w.q.engines)] ==
            IF k = 0 THEN QueueImmediateFiles([w EXCEPT !.q.mode = 0])
            ELSE StopAt(stopped[k - 1], k)
    IN  stopped[Len(w.q.engines)]

IsOtherEngineConnected(w, id) ==
    \E other \in Engines \ {id} :
        HasData(w, other) /\ Data(w, other).site = Data(w, id).site /\ IsConnected(w, other)

-----------------------------------------------------------------------------
World == [q |-> q, item |-> item, tab |-> tab, net |-> net]

Becomes(world) ==
    \E w \in {world} : q' = w.q /\ item' = w.item /\ tab' = w.tab /\ net' = w.net

(* What is decided about an engine: the world so far, and whether it is    *)
(* sent a command next ("send"), is reset for a reason, or is let alone.   *)
Decide(w, next) == [w |-> w, next |-> next]

(* Whether the item of the engine is to be removed or put back.            *)
PutBack(w, id) ==
    IF Data(w, id).item # NoItem /\ w.item[Data(w, id).item].remove THEN "remove" ELSE "reset"

Done(v, id) ==
    CASE v.next = "alone" -> [v.w EXCEPT !.q.sending = NoEngine]
      [] v.next = "send" -> [v.w EXCEPT !.q.sending = id]
      [] OTHER -> ResetEngine([v.w EXCEPT !.q.sending = NoEngine], id, v.next)

(* With too many errors the item has failed.                               *)
IncreaseErrorCount(w, id, next) ==
    LET i == Data(w, id).item
    IN  Decide([w EXCEPT !.item[i].errors = @ + 1],
               IF w.item[i].errors < Retries THEN next ELSE "failure")

(* The engine answered that it is busy.                                    *)
Refused(w, code) == IF code = "busy" THEN [w EXCEPT !.q.refused = TRUE] ELSE w

(* mutant: the loop is left once the engine has to be disconnected *)
SendRoundLeaves(w, id) ==
    LET d == Data(w, id)
        code == Precondition(w, id, d.state)
    IN  IF d.state = "waitprimary" THEN Decide(RequestExclusiveEngine(w), "alone")
        ELSE IF code = "wouldblock" THEN Decide(Execute(w, id, d.state, d.item), "alone")
        ELSE IF d.state = "disconnect" THEN Decide(SetState(w, id, "connect"), "send")
        ELSE IF code = "alreadyconnected" THEN Decide(SetState(w, id, "disconnect"), "alone")
        ELSE IF d.state = "mkdir" THEN Decide(Refused(w, code), "failure")
        ELSE IncreaseErrorCount(Refused(w, code), id, "send")

(* One round of SendNextCommand.                                           *)
SendRound(w, id) ==
    LET d == Data(w, id)
        code == Precondition(w, id, d.state)
    IN  IF d.state = "waitprimary" THEN Decide(RequestExclusiveEngine(w), "alone")
        ELSE IF code = "wouldblock" THEN Decide(Execute(w, id, d.state, d.item), "alone")
        ELSE IF d.state = "disconnect" THEN Decide(SetState(w, id, "connect"), "send")
        ELSE IF code = "alreadyconnected" THEN Decide(SetState(w, id, "disconnect"), "send")
        ELSE IF d.state = "mkdir" THEN Decide(Refused(w, code), "failure")
        ELSE IncreaseErrorCount(Refused(w, code), id, "send")

SendNextCommand ==
    /\ q.sending # NoEngine
    /\ Becomes(Done(SendRound(World, q.sending), q.sending))
    /\ UNCHANGED <<env, used>>

StartNextTransfer ==
    LET t == TryStartNextTransfer(World)
    IN  /\ q.inside /\ q.sending = NoEngine
        /\ Becomes(IF t.ok THEN t.w ELSE AdvanceQueueEnds(t.w))
        /\ UNCHANGED <<env, used>>

(* The interface is between two handlers.  Without "race" no handler runs  *)
(* while an engine that has been idle disconnects.                         *)
Quiet == q.sending = NoEngine /\ ~q.inside

IdleDisconnects(id) ==
    /\ id # TabEngine /\ HasData(World, id) /\ ~Data(World, id).active
    /\ net[id].cmd # "none" \/ net[id].inbox # <<>>

Handler ==
    /\ Quiet
    /\ "race" \in env \/ \A id \in Engines : ~IdleDisconnects(id)

-----------------------------------------------------------------------------
(* Replies.                                                                *)

(* The engine goes on with its next command, unless the queue is stopped.  *)
GoOn(w, id) == IF w.q.mode = 0 THEN PutBack(w, id) ELSE "send"

ConnectReply(w, id, r) ==
    IF r.code = "ok" THEN Decide(SetState(w, id, Work(Data(w, id).item)), GoOn(w, id))
    ELSE IF r.code = "disconnected" /\ IsOtherEngineConnected(w, id)
    THEN Decide(w, GoOn(w, id))
    ELSE IncreaseErrorCount(w, id, GoOn(w, id))

(* mutant: with some progress made a lost connection is no failure *)
TransferReplyHopeful(w, id, r) ==
    IF r.code = "ok" \/ r.progress THEN Decide(w, "success")
    ELSE IF r.code \in {"writefailed", "critical"} THEN Decide(w, "failure")
    ELSE IncreaseErrorCount(w, id, GoOn(w, id))

(* A failure after some progress does not count, unless the local file     *)
(* cannot be written.  An engine that was borrowed is given back once its  *)
(* connection is lost.                                                     *)
TransferReply(w, id, r) ==
    IF r.code = "ok" THEN Decide(w, "success")
    ELSE IF r.progress /\ r.code # "writefailed" THEN Decide(w, GoOn(w, id))
    ELSE IF r.code \in {"writefailed", "critical"} THEN Decide(w, "failure")
    ELSE IncreaseErrorCount(w, id, IF r.code = "disconnected" /\ id = TabEngine
                                   THEN "retry" ELSE GoOn(w, id))

MkdirReply(w, id, r) ==
    IF r.code = "ok" THEN Decide(w, "success")
    ELSE IF r.code = "disconnected" THEN IncreaseErrorCount(w, id, GoOn(w, id))
    ELSE Decide(w, "failure")

(* Cancelling a connect stops the queue.                                   *)
CancelReply(w, id) ==
    Decide(IF Data(w, id).state = "connect" THEN Deactivate(w) ELSE w, PutBack(w, id))

(* The reply is taken for one to the command of the engine's state.        *)
ProcessReply(w, id, r) ==
    LET d == Data(w, id)
    IN  IF r.code = "canceled" THEN CancelReply(w, id)
        ELSE IF d.state \in {"connect", "transfer"} /\ d.item = NoItem
        THEN Decide(w, "reset")
        ELSE CASE d.state = "disconnect" -> Decide(SetState(w, id, "connect"), GoOn(w, id))
               [] d.state = "connect" -> ConnectReply(w, id, r)
               [] d.state = "transfer" -> TransferReply(w, id, r)
               [] d.state = "mkdir" -> MkdirReply(w, id, r)
               [] d.state = "list" -> Decide(w, "remove")
               [] OTHER -> Decide(w, "alone")

Received(w, id) == [w EXCEPT !.net[id].inbox = Tail(w.net[id].inbox)]

HasReply(id) == Quiet /\ net[id].inbox # <<>> /\ (IdleDisconnects(id) \/ Handler)

(* OnEngineEvent of the queue's own engines, and of the tab's while that   *)
(* is lent (CCommandQueue::Finish).                                        *)
OnEngineEvent(id) ==
    /\ HasReply(id) /\ (id = TabEngine => tab.lock)
    /\ Becomes(IF id = TabEngine /\ ~(HasData(World, id) /\ Data(World, id).active)
               THEN Received(World, id)
               ELSE Done(ProcessReply(Received(World, id), id, Head(net[id].inbox)), id))
    /\ UNCHANGED <<env, used>>

(* CCommandQueue::Finish while the tab's engine is not lent: the tab's     *)
(* command has ended.                                                      *)
TabEnds(w) ==
    LET r == Head(w.net[TabEngine].inbox)
    IN  [Received(w, TabEngine) EXCEPT
            !.tab = [w.tab EXCEPT !.cmd = "none", !.listing = (r.cmd # "disconnect")],
            !.q.refreshed = FALSE]

Finish ==
    /\ HasReply(TabEngine) /\ ~tab.lock
    /\ Becomes(IF tab.wants THEN GrantExclusiveEngineRequest(TabEnds(World)) ELSE TabEnds(World))
    /\ UNCHANGED <<env, used>>

(* OnExclusiveEngineRequestGranted, called later by the command queue.     *)
Granted(w) ==
    LET d == Data(w, TabEngine)
    IN  IF ~HasData(w, TabEngine) THEN Decide(ReleaseEngine(w), "alone")
        ELSE IF ~d.active THEN Decide(ReleaseEngine(w), "alone")
        ELSE IF d.state # "waitprimary" THEN Decide(w, "alone")
        ELSE IF w.tab.site # SiteOf[d.item] THEN Decide(ReleaseEngine(w), "retry")
        ELSE Decide(SetState(w, TabEngine, Work(d.item)), "send")

(* A grant that is no longer the last one is ignored.                      *)
OnExclusiveEngineRequestGranted ==
    LET w == [World EXCEPT !.tab.grants = Tail(tab.grants)]
    IN  /\ Handler /\ tab.grants # <<>>
        /\ Becomes(IF tab.lock /\ Head(tab.grants) = tab.id THEN Done(Granted(w), TabEngine)
                   ELSE w)
        /\ UNCHANGED <<env, used>>

-----------------------------------------------------------------------------
(* What the user does.                                                     *)
Event ==
    /\ Handler /\ used < MaxEvents
    /\ used' = used + 1
    /\ UNCHANGED env

(* QueueFile and QueueFile_Finish: i is queued, to be transferred at once  *)
(* or when the queue is processed.                                         *)
Queued(w, i, queueOnly) ==
    LET c == w.q
        s == SiteOf[i]
    IN  [w EXCEPT
            !.item[i].where = "queue",
            !.q.servers = IF Contains(c.servers, s) THEN c.servers ELSE Append(c.servers, s),
            !.q.now = IF queueOnly THEN c.now ELSE [c.now EXCEPT ![s] = Append(@, i)],
            !.q.later = IF queueOnly THEN [c.later EXCEPT ![s] = Append(@, i)] ELSE c.later,
            !.q.mode = IF c.mode = 0 /\ ~queueOnly THEN 1 ELSE c.mode]

QueueFile ==
    /\ Handler
    /\ \E i \in Items, queueOnly \in BOOLEAN :
         LET w == Queued(World, i, queueOnly)
         IN  /\ item[i].where = "out"
             /\ Becomes(IF w.q.mode # 0 THEN AdvanceQueue(w) ELSE w)
    /\ UNCHANGED <<env, used>>

SetActive ==
    /\ Event /\ q.mode # 2 /\ q.servers # <<>>
    /\ Becomes(AdvanceQueue([World EXCEPT !.q.mode = 2]))

Stop ==
    /\ Event /\ "stop" \in env /\ q.mode # 0
    /\ Becomes(Deactivate(World))

(* StopItem for an item that is being removed.                             *)
StopItem(w, i) ==
    LET id == CHOOSE k \in Engines : Data(w, k).item = i
        u == QueueImmediateFile(w, i)
    IN  IF Data(w, id).state = "waitprimary" THEN ResetEngine(u, id, "remove")
        ELSE CancelEngine(u, id)

WaitsForTab(i) == \E id \in Engines : q.data[id].item = i /\ q.data[id].state = "waitprimary"

ToBeRemoved(w, i) == [w EXCEPT !.item[i].remove = TRUE]

(* Without "withdraw" the item is none that waits for the engine of a tab. *)
OnRemoveSelected ==
    /\ Event /\ "stop" \in env
    /\ \E i \in Items :
         /\ item[i].where = "queue" /\ ~item[i].remove
         /\ WaitsForTab(i) => "withdraw" \in env
         /\ Becomes(IF item[i].active THEN StopItem(ToBeRemoved(World, i), i)
                    ELSE RemoveItem(World, i, "gone"))

(* Items that are active are removed when they are interrupted.            *)
Emptied(w) ==
    LET kept == {i \in Items : w.item[i].where # "queue" \/ w.item[i].active}
        now == [s \in Sites |-> Chosen(w.q.now[s], kept)]
        later == [s \in Sites |-> Chosen(w.q.later[s], kept)]
        left(i) == IF i \notin kept THEN [w.item[i] EXCEPT !.where = "gone"]
                   ELSE IF w.item[i].active THEN [w.item[i] EXCEPT !.remove = TRUE] ELSE w.item[i]
    IN  [WithLists(w, now, later) EXCEPT
            !.item = [i \in Items |-> left(i)],
            !.q.servers = Chosen(w.q.servers, {s \in Sites : now[s] \o later[s] # <<>>})]

RemoveAll ==
    /\ Event /\ "stop" \in env /\ q.servers # <<>>
    /\ Becomes(CheckQueueState(Emptied(World)))

(* OnTimer: an engine that has been idle for a minute disconnects.         *)
OnTimer ==
    /\ Event /\ "idle" \in env
    /\ \E id \in Engines :
         LET w == WithData(World, id, [q.data[id] EXCEPT !.timer = FALSE])
         IN  /\ q.data[id].timer
             /\ "race" \in env \/ net[id].inbox = <<>>
             /\ Becomes(IF IsConnected(w, id) /\ Precondition(w, id, "disconnect") # "busy"
                        THEN Execute(w, id, "disconnect", NoItem) ELSE w)

(* The user of the tab may do something while it is not lent.              *)
TabBegins(w, cmd, s) ==
    [Execute(w, TabEngine, cmd, s) EXCEPT
        !.tab = [w.tab EXCEPT !.cmd = cmd, !.site = IF cmd = "disconnect" THEN NoSite ELSE s]]

TabCommand ==
    /\ Event /\ "tab" \in env
    /\ ~tab.lock /\ tab.cmd = "none" /\ net[TabEngine].cmd = "none"
    /\ \E cmd \in {"browse", "connect", "disconnect"}, s \in Sites :
         /\ (cmd = "connect") = (tab.site = NoSite)
         /\ cmd # "connect" => s = tab.site
         /\ Becomes(TabBegins(World, cmd, s))

-----------------------------------------------------------------------------
(* The engines' threads.                                                   *)
Change(id, n) == net' = [net EXCEPT ![id] = n]

Reply(n, code, progress) ==
    Append(n.inbox, [cmd |-> n.cmd, to |-> n.to, code |-> code, progress |-> progress])

Target(id) == IF id = TabEngine THEN tab.site ELSE SiteOf[net[id].to]

(* A connect command makes a control socket first.                         *)
EngineBegins(id) ==
    /\ net[id].cmd = "connect" /\ net[id].server = NoSite /\ ~net[id].late
    /\ Change(id, [net[id] EXCEPT !.server = Target(id)])
    /\ UNCHANGED <<q, item, tab, env, used>>

Runs(id) ==
    /\ net[id].cmd # "none" /\ ~net[id].late
    /\ net[id].cmd = "connect" => net[id].server # NoSite

Ended(n, code, progress) ==
    [n EXCEPT !.cmd = "none", !.to = NoItem, !.inbox = Reply(n, code, progress),
              !.server = IF n.cmd = "disconnect" THEN NoSite ELSE @]

EngineSucceeds(id) ==
    LET n == net[id]
    IN  /\ Runs(id)
        /\ Change(id, Ended(n, "ok", FALSE))
        /\ item' = IF n.cmd \in {"transfer", "mkdir"} THEN [item EXCEPT ![n.to].sent = @ + 1]
                   ELSE item
        /\ UNCHANGED <<q, tab, env, used>>

Failures(cmd) ==
    (IF "fail" \notin env THEN {}
     ELSE IF cmd = "transfer" THEN {"error", "critical", "writefailed"} ELSE {"error"})
    \cup (IF "drop" \in env THEN {"disconnected"} ELSE {})

EngineFails(id) ==
    LET n == net[id]
    IN  /\ Runs(id) /\ n.cmd \in {"connect", "transfer", "mkdir"} /\ used < MaxEvents
        /\ id = TabEngine => n.cmd # "connect"
        /\ used' = used + 1
        /\ \E code \in Failures(n.cmd), progress \in BOOLEAN :
             /\ progress => n.cmd = "transfer"
             /\ Change(id, Ended(n, code, progress))
        /\ UNCHANGED <<q, item, tab, env>>

(* DoCancel.  A connect that waits for a retry leaves no socket, and a     *)
(* disconnect is over at once.                                             *)
EngineCancels(id) ==
    LET n == [net[id] EXCEPT !.cancel = FALSE]
    IN  /\ net[id].cancel /\ ~n.late /\ n.cmd # "disconnect"
        /\ IF n.cmd = "none" THEN Change(id, n)
           ELSE \E server \in {n.server} \cup (IF n.cmd = "connect" THEN {NoSite} ELSE {}) :
                  Change(id, [Ended(n, "canceled", FALSE) EXCEPT !.server = server])
        /\ UNCHANGED <<q, item, tab, env, used>>

(* DoCancel for a command that was given after the cancel event: it ends   *)
(* before it is begun, unless there is a control socket, which has nothing *)
(* to cancel yet.                                                          *)
EngineCancelsLate(id) ==
    LET n == [net[id] EXCEPT !.late = FALSE]
    IN  /\ net[id].late
        /\ Change(id, IF n.server # NoSite THEN n ELSE Ended(n, "canceled", FALSE))
        /\ UNCHANGED <<q, item, tab, env, used>>

EngineSteps(id) ==
    EngineBegins(id) \/ EngineSucceeds(id) \/ EngineFails(id)
    \/ EngineCancels(id) \/ EngineCancelsLate(id)

-----------------------------------------------------------------------------
ServersLoaded ==
    LET upTo[n \in 0 .. Len(Loaded)] ==
            IF n = 0 THEN <<>>
            ELSE IF Contains(upTo[n - 1], SiteOf[Loaded[n]]) THEN upTo[n - 1]
            ELSE Append(upTo[n - 1], SiteOf[Loaded[n]])
    IN  upTo[Len(Loaded)]

Init ==
    /\ \E s \in TabSites :
         /\ tab = [site |-> s, cmd |-> "none", lock |-> FALSE, wants |-> FALSE, id |-> 0,
                   grants |-> <<>>, listing |-> s # NoSite]
         /\ net = [id \in Engines |->
                     [cmd |-> "none", to |-> NoItem,
                      server |-> IF id = TabEngine THEN s ELSE NoSite,
                      cancel |-> FALSE, late |-> FALSE, inbox |-> <<>>]]
    /\ q = [mode |-> 0, now |-> [s \in Sites |-> <<>>],
            later |-> [s \in Sites |-> Chosen(Loaded, {i \in Items : SiteOf[i] = s})],
            servers |-> ServersLoaded, busy |-> [s \in Sites |-> 0], count |-> 0, down |-> 0, up |-> 0,
            inside |-> FALSE, sending |-> NoEngine, engines |-> <<>>,
            data |-> [id \in Engines |-> NewData("none")], refreshed |-> FALSE, refused |-> FALSE]
    /\ item = [i \in Items |->
                 [where |-> IF Contains(Loaded, i) THEN "queue" ELSE "out", active |-> FALSE,
                  errors |-> 0, remove |-> FALSE, sent |-> 0]]
    /\ env \in Environments /\ used = 0

Interface ==
    \/ SendNextCommand \/ StartNextTransfer \/ Finish \/ OnExclusiveEngineRequestGranted
    \/ \E id \in Engines : OnEngineEvent(id)

Next ==
    \/ Interface
    \/ \E id \in Engines : EngineSteps(id)
    \/ QueueFile \/ SetActive \/ Stop \/ OnRemoveSelected \/ RemoveAll \/ OnTimer \/ TabCommand

Spec == Init /\ [][Next]_vars

Ready ==
    ~Quiet \/ (Handler /\ tab.grants # <<>>) \/ \E id \in Engines : HasReply(id)

(* The interface handles its events: weak fairness of Interface, which is  *)
(* enabled exactly when it is ready.  The engines end every command.       *)
FairSpec ==
    /\ Spec
    /\ []<>~Ready \/ []<><<Interface>>_vars
    /\ \A id \in Engines : WF_vars(EngineSteps(id))

-----------------------------------------------------------------------------
Active == {id \in Engines : q.data[id].active}
Holding(I) == {id \in Active : q.data[id].item \in I}

(* The counts that limit what is transferred at once agree with the engines*)
(* that are active, the files they have and the lists of the sites, however*)
(* transfers end: the counts are changed one by one, where a transfer      *)
(* starts and where it is reset.                                           *)
CountsMatch ==
    /\ q.count = Cardinality(Active)
    /\ q.down = Cardinality(Holding({i \in Items : Download(i)}))
    /\ q.up = Cardinality(Holding({i \in Items : ~Download(i)}))
    /\ \A s \in Sites : q.busy[s] = Cardinality(Holding({i \in Items : SiteOf[i] = s}))
    /\ \A i \in Items :
         /\ item[i].active <=> \E id \in Active : q.data[id].item = i
         /\ item[i].where = "queue" <=> Contains(Children(World, SiteOf[i]), i)

(* A file is sent to its own server only, and through the engine of a tab  *)
(* only while that is lent, so that the reply comes back to the queue:     *)
(* engines are reused for other sites and the tab goes where it likes.     *)
RightServer ==
    \A id \in Engines :
        net[id].cmd \in {"transfer", "mkdir"} =>
            /\ net[id].server = SiteOf[net[id].to]
            /\ id = TabEngine => tab.lock /\ tab.cmd = "none"

(* A file is transferred once, however its engine was interrupted before,  *)
(* and only a file that was transferred is listed as successful.           *)
TransferredOnce ==
    \A i \in Items : item[i].sent <= 1 /\ (item[i].where = "done" => item[i].sent = 1)

(* An active engine is waiting for one reply, to the command of its state  *)
(* for its file, which ProcessReply takes it to be without a look at it.   *)
ReplyIsDue ==
    \A id \in Active :
        LET d == q.data[id]
            n == net[id]
        IN  d.state # "waitprimary" /\ q.sending # id =>
                \/ n.inbox = <<>> /\ n.cmd = d.state /\ n.to = d.item
                \/ /\ n.cmd = "none" /\ Len(n.inbox) = 1
                   /\ n.inbox[1].cmd = d.state /\ n.inbox[1].to = d.item

(* The active engines of a stopped queue that were not told to stop.       *)
Unstopped ==
    {id \in Active : q.data[id].state # "list" /\ ~net[id].cancel /\ net[id].inbox = <<>>}

(* The engine, if any, behind the one of a tab that is waited for.         *)
BehindWaiting ==
    {q.engines[k] : k \in {k \in 2 .. Len(q.engines) :
        q.engines[k - 1] = TabEngine /\ q.data[TabEngine].active
        /\ q.data[TabEngine].state = "waitprimary"}}

(* "Send active engines the cancel command": stopping the queue reaches    *)
(* every active engine, except the one behind the engine of a tab, which   *)
(* leaves the list during the walk if it is still waited for; and no other *)
(* goes on or begins while the queue is stopped.                           *)
StopMissesOne ==
    [][q'.mode = 0 =>
           Unstopped' \subseteq (IF q.mode = 0 THEN Unstopped ELSE BehindWaiting)]_vars

(* wxASSERT((res & FZ_REPLY_BUSY) != FZ_REPLY_BUSY) in SendNextCommand: an *)
(* engine is never given a command while it has one.                       *)
NeverBusy == ~q.refused

(* The engines of the queue never have more connections to a site than it  *)
(* allows, those left over from earlier transfers included.  A connection  *)
(* being closed no longer counts, and a site that a tab shows is left out: *)
(* engines that refresh its listing are not counted by the code.           *)
LimitKept ==
    \A s \in Sites :
        LET there == {id \in Engines \ {TabEngine} :
                        net[id].server = s /\ net[id].cmd # "disconnect"}
        IN  Limit[s] # 0 /\ "tab" \notin env /\ tab.site # s => Cardinality(there) <= Limit[s]

(* A file that is to be transferred at once is transferred, fails, is      *)
(* removed or is put back to wait, whatever happens to engines, limits and *)
(* the tab whose engine it needs.  No file is queued twice, so that the    *)
(* lists are empty again and again.                                        *)
ImmediateEnds == []<>(\A s \in Sites : q.now[s] = <<>>)
=============================================================================
