----------------------------- MODULE Directories -----------------------------
(***************************************************************************)
(* Directory operations of several engines on one FTP server               *)
(* (engine/ftp/list.cpp, cwd.cpp, mkd.cpp, rmd.cpp, delete.cpp, rename.cpp,*)
(* chmod.cpp, filetransfer.cpp), which share the directory cache and the   *)
(* operation locks.                                                        *)
(*                                                                         *)
(* All engines run in one event loop thread.  A handler that goes on from  *)
(* one state of its operation to the next (FZ_REPLY_CONTINUE) keeps the    *)
(* loop until it has sent a command or has to wait, so "loop" names the    *)
(* engine whose handler is running; only the server works beside it.       *)
(*                                                                         *)
(* An engine's stack of operations is flattened to one record: st tells    *)
(* the operation on top (cwd, mkd, list or the command's own) and its      *)
(* state.  The PWD that follows a CWD is part of it, and there are no      *)
(* symbolic links, so that the path cache changes nothing.  Paths are      *)
(* sequences of names, <<>> is the root.                                   *)
(***************************************************************************)
EXTENDS DirectoryCache

CONSTANTS
    Engines,       \* the engines, all connected to the same server
    Nodes,         \* the files and directories there may be, except the root
    InitialTrees,  \* the sets of them that there may be at first
    Environments,  \* sets of commands and faults, see env
    MaxOps(_),     \* bound: commands of all engines together, given env
    NoPath,        \* an empty CServerPath
    NoEngine

Names == UNION {ToSet(n) : n \in Nodes}

Dirs == {<<>>} \cup {n \in Nodes : Last(n) \in DirNames}

(* What is on the way to a file or directory is a directory.               *)
ASSUME NodesAssumption ==
    /\ \A n \in Nodes : /\ n \in Seq(Names) /\ n # <<>>
                       /\ \A i \in 0 .. Len(n) - 1 : SubSeq(n, 1, i) \in Dirs
    /\ NoPath \notin Dirs /\ NoPath \notin Nodes /\ NoEngine \notin Engines
    /\ \A v \in Environments : MaxOps(v) \in Nat

ASSUME TreesAssumption ==
    \A t \in InitialTrees :
        /\ t \subseteq Nodes
        /\ \A n \in t : \A i \in 1 .. Len(n) - 1 : SubSeq(n, 1, i) \in t

VARIABLES
    tree,       \* server: the files and directories
    cache,      \* CDirectoryCache
    held,       \* the operation locks, see Locks
    waiting,
    cwd,        \* currentPath_
    inval,      \* m_invalidateCurrentPath
    news,       \* CInvalidateCurrentWorkingDirEvents that are queued
    op,         \* operations_
    wire,       \* the command under way and its reply
    loop,       \* the engine whose handler runs
    env,        \* what happens in this behaviour: the commands there are and
                \* "refuse", "cancel" or "others"
    issued,     \* number of commands
    failed,     \* kinds of commands that have ended with an error
    missed,     \* directories that changed without the cache being told
    seen        \* contents of each directory since engines began to list it

history == <<failed, missed>>
locksVars == <<held, waiting>>
vars == <<tree, cache, held, waiting, cwd, inval, news, op, wire, loop, env,
          issued, failed, missed, seen>>

Exists(p) == p = <<>> \/ p \in tree

Children(t, p) == {Last(n) : n \in {m \in t : Front(m) = p}}

Lock == [owner : Engines, key : {"list", "cwd", "mkd"},
         what : {"list", "mkdir"} \X Dirs]

SameLock(a, b) == a.what = b.what

INSTANCE Locks WITH Locks <- Lock, Excludes <- SameLock

LocksOf(e, keys) == {l \in locks : l.owner = e /\ l.key \in keys}
AllKeys == {"list", "cwd", "mkd"}
Holds(e, key) == \E l \in held : l.owner = e /\ l.key = key
NewLock(e, key, reason, p) == [owner |-> e, key |-> key, what |-> <<reason, p>>]

NoOp == [cmd |-> "none", path |-> NoPath, node |-> NoPath, to |-> NoPath,
         st |-> "none", cur |-> NoPath, common |-> NoPath, mkd |-> FALSE,
         refresh |-> FALSE, fresh |-> FALSE]

Idle == [st |-> "idle", verb |-> "none", arg |-> NoPath, to |-> NoPath,
         reply |-> "none", names |-> {}, skip |-> FALSE]

-----------------------------------------------------------------------------
(* How operations end and hand over.                                       *)

(* mutant: a command that fails keeps its locks *)
EndKeepingLocks(e, ok, path) ==
    /\ op' = [op EXCEPT ![e] = NoOp]
    /\ ReleaseAll(IF ok THEN LocksOf(e, AllKeys) ELSE {})
    /\ cwd' = [cwd EXCEPT ![e] = IF inval[e] THEN NoPath ELSE path]
    /\ inval' = [inval EXCEPT ![e] = FALSE]
    /\ failed' = IF ok THEN failed ELSE failed \cup {op[e].cmd}
    /\ loop' = NoEngine

(* ResetOperation of the last operation: its locks go, and the current     *)
(* path if another engine removed it meanwhile; path is currentPath_       *)
(* otherwise.                                                              *)
End(e, ok, path) ==
    /\ op' = [op EXCEPT ![e] = NoOp]
    /\ ReleaseAll(LocksOf(e, AllKeys))
    /\ cwd' = [cwd EXCEPT ![e] = IF inval[e] THEN NoPath ELSE path]
    /\ inval' = [inval EXCEPT ![e] = FALSE]
    /\ failed' = IF ok THEN failed ELSE failed \cup {op[e].cmd}
    /\ loop' = NoEngine

(* The handler goes on with the operation o.                               *)
GoOn(e, o, keys, path) ==
    /\ op' = [op EXCEPT ![e] = o]
    /\ ReleaseAll(LocksOf(e, keys))
    /\ cwd' = [cwd EXCEPT ![e] = path]
    /\ loop' = e
    /\ UNCHANGED <<inval, failed>>

(* SubcommandResult of each operation for the end of a cwd operation.  An  *)
(* upload looks for its file in the cached listing and lists the directory *)
(* if there is none or the entry is unsure.                                *)
CwdDone(e, ok, path) ==
    LET o == op[e]
        next(st) == GoOn(e, [o EXCEPT !.st = st], {"cwd"}, path)
        unsure == Cached(cache, o.path) /\ ~cache.dir[o.path].sure
                     /\ Last(o.node) \in cache.dir[o.path].names
    IN  \/ o.cmd = "list" /\ ok /\ next("list")
        \/ o.cmd = "list" /\ ~ok /\ End(e, FALSE, path)
        \/ o.cmd = "rename" /\ next("rnfr")
        \/ o.cmd \in {"rmd", "delete", "chmod"} /\ next("work")
        \/ /\ o.cmd = "upload" /\ ok /\ (unsure \/ ~Cached(cache, o.path))
           /\ GoOn(e, [o EXCEPT !.st = "list", !.refresh = TRUE], {"cwd"}, path)
        \/ o.cmd = "upload" /\ (ok => Cached(cache, o.path)) /\ next("work")

(* The end of a mkd operation: an upload's cwd operation tries again,      *)
(* whether or not the directory was created.                               *)
MkdDone(e, ok, path) ==
    IF op[e].cmd = "mkdir" THEN End(e, ok, path)
    ELSE GoOn(e, [op[e] EXCEPT !.st = "cwd"], {"mkd"}, path)

ListDone(e, ok) ==
    IF op[e].cmd = "list" THEN End(e, ok, cwd[e])
    ELSE GoOn(e, [op[e] EXCEPT !.st = "work"], {"list"}, cwd[e])

-----------------------------------------------------------------------------
(* Commands.                                                               *)
NewOp(cmd, path, node, to, refresh) ==
    [NoOp EXCEPT !.cmd = cmd, !.path = path, !.node = node, !.to = to,
                 !.st = IF cmd = "mkdir" THEN "mkd_init" ELSE "cwd_init",
                 !.mkd = (cmd = "upload"), !.refresh = refresh]

Start(e, o) ==
    /\ loop = NoEngine /\ op[e].cmd = "none" /\ issued < MaxOps(env)
    /\ o.cmd \in env
    /\ issued' = issued + 1
    /\ op' = [op EXCEPT ![e] = o]
    /\ loop' = e
    /\ UNCHANGED <<tree, held, waiting, cwd, inval, news, wire, env, history>>

(* CFileZillaEnginePrivate::List is answered by a cached listing unless    *)
(* that is unsure or a refresh is asked for.                               *)
List(e, p, refresh) ==
    LET look == ~refresh /\ Cached(cache, p)
    IN  /\ ~(look /\ cache.dir[p].sure)
        /\ Start(e, NewOp("list", p, NoPath, NoPath, refresh \/ look))
        /\ cache' = IF look THEN Lookup(cache, p) ELSE cache

ListFromCache(e, p) ==
    /\ loop = NoEngine /\ op[e].cmd = "none" /\ issued < MaxOps(env)
    /\ "list" \in env /\ Found(cache, p, FALSE)
    /\ issued' = issued + 1
    /\ cache' = Lookup(cache, p)
    /\ UNCHANGED <<tree, held, waiting, cwd, inval, news, op, wire, loop, env, history>>

Command(e) ==
    \/ \E p \in Dirs, refresh \in BOOLEAN : List(e, p, refresh)
    \/ \E p \in Dirs : ListFromCache(e, p)
    \/ /\ \/ \E p \in Dirs \ {<<>>} : Start(e, NewOp("mkdir", p, p, NoPath, FALSE))
          \/ \E n \in Nodes \ Dirs, cmd \in {"upload", "chmod"} :
                Start(e, NewOp(cmd, Front(n), n, NoPath, FALSE))
          \/ \E n \in Nodes : Start(e, NewOp(IF n \in Dirs THEN "rmd" ELSE "delete",
                                             Front(n), n, NoPath, FALSE))
          \/ \E n, m \in Nodes :
                /\ n # m /\ (n \in Dirs <=> m \in Dirs) /\ ~Below(n, m)
                /\ Start(e, NewOp("rename", Front(n), n, m, FALSE))
       /\ UNCHANGED cache

-----------------------------------------------------------------------------
(* Send of the operation on top.                                           *)
Sends(e, verb, arg, to) ==
    /\ wire' = [wire EXCEPT ![e] = [Idle EXCEPT !.st = "sent", !.verb = verb,
                                                !.arg = arg, !.to = to]]
    /\ loop' = NoEngine

Runs(e, states) == loop = e /\ op[e].st \in states /\ wire[e].st = "idle"

Blocks(e) == loop' = NoEngine /\ UNCHANGED <<tree, cache, held, waiting, cwd, inval,
                                             news, op, wire, env, issued, history>>

(* CanSendNextCommand: there are replies to skip.                          *)
AwaitReplies(e) == loop = e /\ wire[e].st # "idle" /\ Blocks(e)

CwdInit(e) ==
    /\ Runs(e, {"cwd_init"})
    /\ IF cwd[e] = op[e].path
       THEN CwdDone(e, TRUE, cwd[e])
       ELSE GoOn(e, [op[e] EXCEPT !.st = "cwd"], {}, cwd[e])
    /\ UNCHANGED <<tree, cache, news, wire, env, issued, missed>>

(* cwd_cwd of an upload: the lock keeps others from creating the directory *)
(* too; who has to wait for it will not create it.                         *)
CwdSend(e) ==
    LET lock == NewLock(e, "cwd", "mkdir", op[e].path)
    IN  /\ Runs(e, {"cwd"})
        /\ IF op[e].mkd /\ ~Holds(e, "cwd") THEN Acquire(lock) ELSE UNCHANGED locksVars
        /\ IF op[e].mkd /\ ~Holds(e, "cwd") /\ Blocked(lock)
           THEN /\ op' = [op EXCEPT ![e].mkd = FALSE]
                /\ loop' = NoEngine
                /\ UNCHANGED <<wire, cwd>>
           ELSE /\ Sends(e, "CWD", op[e].path, NoPath)
                /\ cwd' = [cwd EXCEPT ![e] = NoPath]
                /\ UNCHANGED op
        /\ UNCHANGED <<tree, cache, inval, news, env, issued, history>>

MkdLock(e) ==
    LET lock == NewLock(e, "mkd", "mkdir", op[e].path)
    IN  /\ Runs(e, {"mkd_init"}) /\ ~Holds(e, "mkd")
        /\ Acquire(lock)
        /\ loop' = IF Blocked(lock) THEN NoEngine ELSE e
        /\ UNCHANGED <<tree, cache, cwd, inval, news, op, wire, env, issued, history>>

FirstMkdState(path, current) ==
    IF path = <<>> THEN "tryfull"
    ELSE IF Front(path) = current THEN "mkdsub" ELSE "findparent"

CommonParent(p, q) ==
    IF q = NoPath THEN NoPath ELSE CHOOSE r \in Dirs :
        /\ IsPrefix(r, p) /\ r # p /\ IsPrefix(r, q)
        /\ \A s \in Dirs : IsPrefix(s, p) /\ s # p /\ IsPrefix(s, q) => IsPrefix(s, r)

MkdInit(e) ==
    LET o == op[e]
    IN  /\ Runs(e, {"mkd_init"}) /\ Holds(e, "mkd")
        /\ IF cwd[e] # NoPath /\ IsPrefix(o.path, cwd[e])
           THEN MkdDone(e, TRUE, cwd[e])
           ELSE GoOn(e, [o EXCEPT !.st = FirstMkdState(o.path, cwd[e]),
                                  !.cur = IF o.path = <<>> THEN NoPath ELSE Front(o.path),
                                  !.common = IF o.path = <<>> THEN NoPath
                                             ELSE CommonParent(o.path, cwd[e])],
                     {}, cwd[e])
        /\ UNCHANGED <<tree, cache, news, wire, env, issued, missed>>

(* The directory that mkd_mkdsub creates next, in the parent found.        *)
NextDir(o) == SubSeq(o.path, 1, Len(o.cur) + 1)

MkdSend(e) ==
    /\ \/ /\ Runs(e, {"findparent", "cwdsub"})
          /\ Sends(e, "CWD", op[e].cur, NoPath)
          /\ cwd' = [cwd EXCEPT ![e] = NoPath]
       \/ /\ Runs(e, {"mkdsub"})
          /\ Sends(e, "MKD", NextDir(op[e]), NoPath)
          /\ UNCHANGED cwd
       \/ /\ Runs(e, {"tryfull"})
          /\ Sends(e, "MKD", op[e].path, NoPath)
          /\ UNCHANGED cwd
    /\ UNCHANGED <<tree, cache, held, waiting, inval, news, op, env, issued, history>>

(* mutant: the time of the cached listing is not compared *)
UsableAnyTime(e) ==
    /\ Found(cache, cwd[e], FALSE)
    /\ ~op[e].refresh \/ Holds(e, "list")

(* list_waitlock: the cached listing will do if no refresh was asked for   *)
(* or if it was listed after this engine asked for the lock.               *)
Usable(e) ==
    /\ Found(cache, cwd[e], FALSE)
    /\ ~op[e].refresh \/ (Holds(e, "list") /\ op[e].fresh)

ListSend(e) ==
    LET lock == NewLock(e, "list", "list", cwd[e])
    IN  /\ Runs(e, {"list"})
        /\ cache' = Lookup(cache, cwd[e])
        /\ \/ Usable(e) /\ ListDone(e, TRUE) /\ UNCHANGED wire
           \/ /\ ~Usable(e) /\ ~Holds(e, "list")
              /\ Acquire(lock)
              /\ op' = [op EXCEPT ![e].fresh = FALSE]
              /\ IF Blocked(lock) THEN loop' = NoEngine /\ UNCHANGED wire
                 ELSE Sends(e, "LIST", cwd[e], NoPath)
              /\ UNCHANGED <<cwd, inval, failed>>
           \/ /\ ~Usable(e) /\ Holds(e, "list")
              /\ Sends(e, "LIST", cwd[e], NoPath)
              /\ UNCHANGED <<op, held, waiting, cwd, inval, failed>>
        /\ UNCHANGED <<tree, news, env, issued, missed>>

(* The command's own request.  What it will change is marked in the cache  *)
(* before it is sent, and the other engines are told of a directory that   *)
(* goes.                                                                   *)
Verb(cmd) == CASE cmd = "rmd" -> "RMD" [] cmd = "delete" -> "DELE"
               [] cmd = "rename" -> "RNTO" [] cmd = "chmod" -> "CHMOD"
               [] cmd = "upload" -> "STOR"

Tell(e, p) ==
    news' = [f \in Engines |-> IF f = e THEN news[f] ELSE news[f] \cup {p}]

Invalidated(o) ==
    LET c == InvalidateFile(cache, Front(o.node), Last(o.node))
    IN  IF o.cmd = "rename" THEN InvalidateFile(c, Front(o.to), Last(o.to)) ELSE c

WorkSend(e) ==
    LET o == op[e]
    IN  /\ \/ /\ Runs(e, {"rnfr"})
              /\ Sends(e, "RNFR", o.node, NoPath)
              /\ UNCHANGED <<cache, news>>
           \/ /\ Runs(e, {"work"})
              /\ Sends(e, Verb(o.cmd), o.node, o.to)
              /\ cache' = IF o.cmd \in {"rmd", "delete", "rename"} THEN Invalidated(o)
                          ELSE cache
              /\ IF o.cmd \in {"rmd", "rename"} THEN Tell(e, o.node) ELSE UNCHANGED news
        /\ UNCHANGED <<tree, held, waiting, cwd, inval, op, env, issued, history>>

Send(e) ==
    \/ AwaitReplies(e) \/ CwdInit(e) \/ CwdSend(e)
    \/ MkdLock(e) \/ MkdInit(e) \/ MkdSend(e) \/ ListSend(e) \/ WorkSend(e)

-----------------------------------------------------------------------------
(* ParseResponse of the operation on top.                                  *)
Replied(e, states) ==
    /\ loop = NoEngine /\ wire[e].st = "done" /\ ~wire[e].skip
    /\ op[e].st \in states
    /\ wire' = [wire EXCEPT ![e] = Idle]

Good(e) == wire[e].reply = "ok"

SkipReply(e) ==
    /\ loop = NoEngine /\ wire[e].st = "done" /\ wire[e].skip
    /\ wire' = [wire EXCEPT ![e] = Idle]
    /\ loop' = IF op[e].cmd = "none" THEN NoEngine ELSE e
    /\ UNCHANGED <<tree, cache, held, waiting, cwd, inval, news, op, env, issued, history>>

ParseCwd(e) ==
    /\ Replied(e, {"cwd"})
    /\ \/ Good(e) /\ CwdDone(e, TRUE, op[e].path)
       \/ ~Good(e) /\ ~op[e].mkd /\ CwdDone(e, FALSE, NoPath)
       \/ /\ ~Good(e) /\ op[e].mkd
          /\ GoOn(e, [op[e] EXCEPT !.mkd = FALSE, !.st = "mkd_init"], {}, NoPath)
    /\ UNCHANGED <<tree, cache, news, env, issued, missed>>

ParseFindParent(e) ==
    LET o == op[e]
    IN  /\ Replied(e, {"findparent"})
        /\ \/ Good(e) /\ GoOn(e, [o EXCEPT !.st = "mkdsub"], {}, o.cur)
           \/ /\ ~Good(e) /\ (o.cur = o.common \/ o.cur = <<>>)
              /\ GoOn(e, [o EXCEPT !.st = "tryfull"], {}, NoPath)
           \/ /\ ~Good(e) /\ o.cur # o.common /\ o.cur # <<>>
              /\ GoOn(e, [o EXCEPT !.cur = Front(o.cur)], {}, NoPath)
        /\ UNCHANGED <<tree, cache, news, env, issued, missed>>

(* mutant: a directory that exists already is an error *)
CreatedOnly(reply) == reply = "ok"

Created(reply) == reply \in {"ok", "exists"}

ParseMkdSub(e) ==
    LET o == op[e]
        made == NextDir(o)
    IN  /\ Replied(e, {"mkdsub"})
        /\ \/ /\ Created(wire[e].reply)
              /\ cache' = UpdateFile(cache, o.cur, Last(made), TRUE)
              /\ IF made = o.path THEN MkdDone(e, TRUE, cwd[e])
                 ELSE GoOn(e, [o EXCEPT !.cur = made, !.st = "cwdsub"], {}, cwd[e])
           \/ /\ ~Created(wire[e].reply)
              /\ MkdDone(e, FALSE, cwd[e])
              /\ UNCHANGED cache
        /\ UNCHANGED <<tree, news, env, issued, missed>>

ParseCwdSub(e) ==
    /\ Replied(e, {"cwdsub"})
    /\ \/ Good(e) /\ GoOn(e, [op[e] EXCEPT !.st = "mkdsub"], {}, op[e].cur)
       \/ ~Good(e) /\ GoOn(e, [op[e] EXCEPT !.st = "tryfull"], {}, NoPath)
    /\ UNCHANGED <<tree, cache, news, env, issued, missed>>

(* The cache does not learn of a directory made with its full path.        *)
ParseTryFull(e) ==
    /\ Replied(e, {"tryfull"})
    /\ MkdDone(e, Good(e), cwd[e])
    /\ missed' = IF Good(e) THEN missed \cup {Front(op[e].path)} ELSE missed
    /\ UNCHANGED <<tree, cache, news, env, issued>>

(* Others that wait for the lock will find this listing new.               *)
Freshen(f, p) == [f EXCEPT !.fresh = @ \/ (f.st = "list" /\ f.path = p)]

ParseList(e) ==
    LET p == cwd[e]
    IN  /\ Replied(e, {"list"})
        /\ \/ /\ Good(e)
              /\ cache' = Store(cache, p, wire[e].names)
              /\ missed' = IF wire[e].names = Children(tree, p) /\ Exists(p)
                           THEN missed \ {p} ELSE missed \cup {p}
              /\ op' = [f \in Engines |->
                          IF f # e THEN Freshen(op[f], p)
                          ELSE IF op[e].cmd = "list" THEN NoOp
                          ELSE [op[e] EXCEPT !.st = "work"]]
           \/ /\ ~Good(e)
              /\ op' = [op EXCEPT ![e] = IF @.cmd = "list" THEN NoOp
                                         ELSE [@ EXCEPT !.st = "work"]]
              /\ UNCHANGED <<cache, missed>>
        /\ ReleaseAll(LocksOf(e, {"list"}))
        /\ IF op[e].cmd = "list"
           THEN /\ cwd' = [cwd EXCEPT ![e] = IF inval[e] THEN NoPath ELSE @]
                /\ inval' = [inval EXCEPT ![e] = FALSE]
                /\ failed' = IF Good(e) THEN failed ELSE failed \cup {"list"}
                /\ loop' = NoEngine
           ELSE loop' = e /\ UNCHANGED <<cwd, inval, failed>>
        /\ UNCHANGED <<tree, news, env, issued>>

(* mutant: a listing that was marked when DELE was sent is left as it is *)
UpdatedForgetful(o) ==
    LET p == Front(o.node)
        name == Last(o.node)
    IN  CASE o.cmd = "rmd" -> RemoveDir(cache, p, name)
          [] o.cmd = "delete" -> cache
          [] o.cmd = "rename" -> Rename(cache, p, name, Front(o.to), Last(o.to))
          [] o.cmd = "chmod" -> UpdateFile(cache, p, name, FALSE)
          [] OTHER -> UpdateFile(cache, p, name, TRUE)

(* What the success of the command does to the cache.                      *)
Updated(o) ==
    LET p == Front(o.node)
        name == Last(o.node)
    IN  CASE o.cmd = "rmd" -> RemoveDir(cache, p, name)
          [] o.cmd = "delete" -> RemoveFile(cache, p, name)
          [] o.cmd = "rename" -> Rename(cache, p, name, Front(o.to), Last(o.to))
          [] o.cmd = "chmod" -> UpdateFile(cache, p, name, FALSE)
          [] OTHER -> UpdateFile(cache, p, name, TRUE)

(* Rename does nothing if the source is not in the cached listing.         *)
Unnoticed(o) ==
    IF o.cmd = "rename" /\ Cached(cache, Front(o.node))
       /\ Last(o.node) \notin cache.dir[Front(o.node)].names
    THEN {p \in Dirs : \E n \in {o.node, o.to} : p = Front(n) \/ IsPrefix(n, p)}
    ELSE {}

ParseWork(e) ==
    LET o == op[e]
    IN  /\ \/ /\ Replied(e, {"rnfr"})
              /\ IF Good(e) THEN GoOn(e, [o EXCEPT !.st = "work"], {}, cwd[e])
                 ELSE End(e, FALSE, cwd[e])
              /\ UNCHANGED <<cache, missed>>
           \/ /\ Replied(e, {"work"})
              /\ End(e, Good(e), cwd[e])
              /\ cache' = IF Good(e) THEN Updated(o) ELSE cache
              /\ missed' = IF Good(e) THEN missed \cup Unnoticed(o) ELSE missed
        /\ UNCHANGED <<tree, news, env, issued>>

ParseResponse(e) ==
    \/ SkipReply(e) \/ ParseCwd(e) \/ ParseFindParent(e) \/ ParseMkdSub(e)
    \/ ParseCwdSub(e) \/ ParseTryFull(e) \/ ParseList(e) \/ ParseWork(e)

-----------------------------------------------------------------------------
(* Other events.                                                           *)

(* CControlSocket::OnObtainLock: all waiting locks that can be are granted.*)
OnObtainLock(e) ==
    /\ loop = NoEngine
    /\ Grant({l \in waiting : l.owner = e /\ ~Blocked(l)})
    /\ loop' = e
    /\ UNCHANGED <<tree, cache, cwd, inval, news, op, wire, env, issued, history>>

(* InvalidateCurrentWorkingDir                                             *)
OnInvalidateCwd(e) ==
    /\ loop = NoEngine
    /\ \E p \in news[e] :
         /\ news' = [news EXCEPT ![e] = @ \ {p}]
         /\ IF cwd[e] # NoPath /\ IsPrefix(p, cwd[e])
            THEN IF op[e].cmd # "none"
                 THEN inval' = [inval EXCEPT ![e] = TRUE] /\ UNCHANGED cwd
                 ELSE cwd' = [cwd EXCEPT ![e] = NoPath] /\ UNCHANGED inval
            ELSE UNCHANGED <<cwd, inval>>
    /\ UNCHANGED <<tree, cache, held, waiting, op, wire, loop, env, issued, history>>

(* The directories that the executed command w has changed or removed.     *)
Changed(w) ==
    IF w.reply # "ok" THEN {}
    ELSE CASE w.verb \in {"MKD", "DELE", "STOR"} -> {Front(w.arg)}
           [] w.verb = "RMD" -> {Front(w.arg), w.arg}
           [] w.verb = "RNTO" -> {p \in Dirs : \E n \in {w.arg, w.to} :
                                                   p = Front(n) \/ IsPrefix(n, p)}
           [] OTHER -> {}

(* Cancel, or the loss of the connection.  An upload whose command was     *)
(* sent updates the cache; nothing else does.                              *)
Interrupted(e, path) ==
    /\ "cancel" \in env
    /\ loop = NoEngine /\ op[e].cmd # "none"
    /\ End(e, TRUE, path)
    /\ cache' = IF wire[e].verb = "STOR" /\ ~wire[e].skip
                THEN UpdateFile(cache, Front(op[e].node), Last(op[e].node), TRUE) ELSE cache
    /\ missed' = IF wire[e].skip THEN missed ELSE missed \cup Changed(wire[e])
    /\ UNCHANGED <<tree, news, env, issued>>

Cancel(e) ==
    /\ Interrupted(e, cwd[e])
    /\ wire' = IF wire[e].st = "idle" THEN wire ELSE [wire EXCEPT ![e].skip = TRUE]

Disconnected(e) ==
    /\ Interrupted(e, NoPath)
    /\ wire' = [wire EXCEPT ![e] = Idle]

-----------------------------------------------------------------------------
(* The server executes one command of a connection.                        *)
Outcome(w) ==
    CASE w.verb = "CWD" -> IF Exists(w.arg) THEN "ok" ELSE "fail"
      [] w.verb = "MKD" -> IF Exists(w.arg) THEN "exists"
                           ELSE IF Exists(Front(w.arg)) THEN "ok" ELSE "fail"
      [] w.verb = "RMD" -> IF Exists(w.arg) /\ Children(tree, w.arg) = {} THEN "ok" ELSE "fail"
      [] w.verb \in {"DELE", "RNFR", "CHMOD"} -> IF Exists(w.arg) THEN "ok" ELSE "fail"
      [] w.verb = "RNTO" -> IF Exists(w.arg) /\ Exists(Front(w.to))
                               /\ (w.to \in Dirs => ~Exists(w.to))
                               /\ \A n \in tree : IsPrefix(w.arg, n) =>
                                     w.to \o SubSeq(n, Len(w.arg) + 1, Len(n)) \in Nodes
                            THEN "ok" ELSE "fail"
      [] w.verb = "STOR" -> IF Exists(Front(w.arg)) THEN "ok" ELSE "fail"
      [] w.verb = "LIST" -> IF Exists(w.arg) THEN "ok" ELSE "fail"

TreeAfter(w) ==
    CASE w.verb \in {"MKD", "STOR"} -> tree \cup {w.arg}
      [] w.verb \in {"RMD", "DELE"} -> tree \ {w.arg}
      [] w.verb = "RNTO" ->
            {n \in tree : ~IsPrefix(w.arg, n)}
              \cup {w.to \o SubSeq(n, Len(w.arg) + 1, Len(n)) :
                      n \in {m \in tree : IsPrefix(w.arg, m)}}
      [] OTHER -> tree

ServerExecutes(e) ==
    /\ wire[e].st = "sent"
    /\ \E reply \in {Outcome(wire[e])} \cup (IF "refuse" \in env THEN {"fail"} ELSE {}) :
         LET w == [wire[e] EXCEPT !.st = "done", !.reply = reply,
                                  !.names = IF wire[e].verb = "LIST" /\ reply = "ok"
                                            THEN Children(tree, wire[e].arg) ELSE {}]
         IN  /\ wire' = [wire EXCEPT ![e] = w]
             /\ tree' = IF reply = "ok" THEN TreeAfter(w) ELSE tree
             /\ missed' = IF w.skip THEN missed \cup Changed(w) ELSE missed
    /\ UNCHANGED <<cache, held, waiting, cwd, inval, news, op, loop, env, issued, failed>>

(* Another client of the server makes or removes a file, once.             *)
OthersChange ==
    /\ "others" \in env /\ missed = {}
    /\ \E n \in Nodes \ Dirs :
         /\ Exists(Front(n))
         /\ tree' = IF n \in tree THEN tree \ {n} ELSE tree \cup {n}
         /\ missed' = missed \cup {Front(n)}
    /\ UNCHANGED <<cache, held, waiting, cwd, inval, news, op, wire, loop, env,
                   issued, failed>>

-----------------------------------------------------------------------------
Init ==
    /\ tree \in InitialTrees
    /\ cache = EmptyCache /\ LocksInit
    /\ cwd = [e \in Engines |-> NoPath] /\ inval = [e \in Engines |-> FALSE]
    /\ news = [e \in Engines |-> {}]
    /\ op = [e \in Engines |-> NoOp] /\ wire = [e \in Engines |-> Idle]
    /\ loop = NoEngine /\ env \in Environments
    /\ issued = 0 /\ failed = {} /\ missed = {}
    /\ seen = [p \in Dirs |-> {}]

Handler(e) == Send(e) \/ ParseResponse(e) \/ OnObtainLock(e) \/ OnInvalidateCwd(e)

(* seen keeps what a directory held as long as somebody is listing it.     *)
Observe ==
    seen' = [p \in Dirs |->
        IF \E l \in locks' : l.what = <<"list", p>>
        THEN seen[p] \cup {Children(tree, p), Children(tree', p)} ELSE {}]

Next ==
    /\ \/ \E e \in Engines :
             Command(e) \/ Handler(e) \/ Cancel(e) \/ Disconnected(e) \/ ServerExecutes(e)
       \/ OthersChange
    /\ Observe

Spec == Init /\ [][Next]_vars

-----------------------------------------------------------------------------
(* Types.                                                                  *)
TypeOK ==
    /\ tree \subseteq Nodes
    /\ \A p \in DOMAIN cache.dir : p \in Dirs
    /\ held \subseteq Lock /\ waiting \subseteq Lock
    /\ \A e \in Engines : cwd[e] \in Dirs \cup {NoPath}
    /\ loop \in Engines \cup {NoEngine} /\ missed \subseteq Dirs

(* ~CDirectoryCache asserts it at the end; it holds all the time: no       *)
(* update, removal, renaming or pruning of a listing miscounts its entries *)
(* or loses it from the LRU list, so that Prune bounds the cache.          *)
CacheConsistent == Consistent(cache)

(* A listing that the cache calls sure is of a directory that exists, and  *)
(* is what it holds now, although several engines change and list it at    *)
(* once: each change marks the listing before the next lookup can trust    *)
(* it.  Excepted are the moment until the engine that made the change has  *)
(* its reply, and what the code does not notice: a listing that was out of *)
(* date when it was stored, a change whose reply was never awaited, a      *)
(* directory made with its full path, a renaming of what the cached        *)
(* listing does not show.                                                  *)
SureIsRight ==
    \A p \in DOMAIN cache.dir :
        (cache.dir[p].sure /\ p \notin missed) =>
            \/ Exists(p) /\ cache.dir[p].names = Children(tree, p)
            \/ \E e \in Engines : /\ wire[e].st = "done" /\ ~wire[e].skip
                                  /\ p \in Changed(wire[e])

(* A refresh that is answered by another engine's listing, after waiting   *)
(* for its lock, gets contents that the directory had while engines were   *)
(* listing it, never an older listing.                                     *)
RefreshIsRecent ==
    \A e \in Engines :
        Runs(e, {"list"}) /\ op[e].refresh /\ Usable(e) =>
            cache.dir[cwd[e]].names \in seen[cwd[e]]

(* Several engines creating the same tree, and uploading into it, do not   *)
(* make each other fail, although their locks are for single directories,  *)
(* unless the server refuses, directories are removed or an engine is      *)
(* interrupted.                                                            *)
CreationSucceeds ==
    env \subseteq {"list", "chmod", "mkdir", "upload"} =>
        failed \cap {"mkdir", "upload"} = {}

(* Nobody waits for ever: when every handler has run, the server has       *)
(* answered everything and no waiting lock can be granted any more, then   *)
(* every command has ended.  Engines take locks for a path while they hold *)
(* another, give up creating when they have to wait, and are interrupted   *)
(* while they hold or wait.                                                *)
NobodyStuck ==
    /\ loop = NoEngine
    /\ \A e \in Engines : wire[e].st = "idle"
    /\ \A l \in waiting : Blocked(l)
    => \A e \in Engines : op[e].cmd = "none"
=============================================================================
