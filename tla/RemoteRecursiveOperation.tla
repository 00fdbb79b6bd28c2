----------------------- MODULE RemoteRecursiveOperation -----------------------
(***************************************************************************)
(* Recursive operations on a server (commonui/remote_recursive_operation)  *)
(* as operators from the state they find to the one they leave behind.     *)
(*                                                                         *)
(* Every start has one recursion root with several directories to visit.   *)
(* The state s has the fields mode (m_operationMode), start                *)
(* (m_remoteStartDir), todo (m_dirsToVisit), visited (m_visitedDirs) and   *)
(* handled (files that were acted on), and those of its tab: list, the     *)
(* command queue, to which commands are appended, site and lock.  Paths    *)
(* are sequences of names; the last name tells what a node is.             *)
(***************************************************************************)
EXTENDS Integers, FiniteSets, SequencesExt

CONSTANTS
    DirNames,    \* directories
    LinkNames    \* symbolic links, listed as directories

(* A directory to visit: link is 2 for one that was chosen as a link, 1    *)
(* for a link that was found, 0 otherwise.  start_dir is empty or holds    *)
(* the target of the chosen link that the directory was found below.       *)
NewDir(dir, link, recurse, start_dir) ==
    [dir |-> dir, link |-> link, recurse |-> recurse, start_dir |-> start_dir,
     visit |-> TRUE, retry |-> FALSE]

Cmd(id, origin, dir, files) ==
    [id |-> id, origin |-> origin, dir |-> dir, files |-> files,
     link |-> FALSE, retried |-> FALSE]

ProcessCommand(s, c) == [s EXCEPT !.list = Append(@, c)]

StopRecursiveOperation(s) ==
    [s EXCEPT !.mode = "none", !.todo = <<>>, !.visited = {}]

(* operation_finished: RefreshRemote unless the user's commands are queued.*)
OperationFinished(s) ==
    IF s.site /\ ~s.lock /\ \A i \in DOMAIN s.list : s.list[i].origin = "recursive"
    THEN ProcessCommand(s, Cmd("list", "normal", <<>>, {}))
    ELSE s

(* The directories in front whose contents are done are removed; so many.  *)
DirsDone(s) ==
    Max({n \in 0 .. Len(s.todo) : \A i \in 1 .. n :
           s.mode = "delete" /\ ~s.todo[i].visit /\ s.todo[i].recurse})

RemoveDirs(s, n) ==
    [s EXCEPT !.list = @ \o [i \in 1 .. n |-> Cmd("rmd", "recursive", s.todo[i].dir, {})],
              !.todo = SubSeq(@, n + 1, Len(@))]

ListCmd(d) == [Cmd("list", "recursive", d.dir, {}) EXCEPT !.link = (d.link # 0)]

(* Then the next one is listed.                                            *)
NextOperation(s) ==
    LET t == RemoveDirs(s, DirsDone(s))
    IN  IF s.mode = "none" THEN s
        ELSE IF t.todo = <<>> THEN OperationFinished(StopRecursiveOperation(t))
        ELSE ProcessCommand(t, ListCmd(Head(t.todo)))

Pop(s) == [s EXCEPT !.todo = Tail(@)]

(* The second visit of a directory that is to be deleted.                  *)
PushRemoval(s, d) ==
    IF s.mode = "delete" /\ d.visit /\ d.recurse
    THEN [s EXCEPT !.todo = <<[d EXCEPT !.visit = FALSE]>> \o @] ELSE s

(* Whether an entry is visited: a link is deleted like a file.             *)
Entered(mode, name) == name \in DirNames \/ (name \in LinkNames /\ mode # "delete")

(* The entries of directory p to visit; a link found is visited without    *)
(* recursing.                                                              *)
NewDirs(mode, d, p, names) ==
    LET dirs == SetToSeq({n \in names : Entered(mode, n) /\ d.recurse})
    IN  [i \in DOMAIN dirs |->
           NewDir(Append(p, dirs[i]), IF dirs[i] \in LinkNames THEN 1 ELSE 0,
                  dirs[i] \notin LinkNames, d.start_dir)]

FilesOf(mode, p, names) == {Append(p, n) : n \in {m \in names : ~Entered(mode, m)}}

(* process_entries for the entries names of directory p.                   *)
ProcessEntries(s, d, p, names) ==
    LET files == FilesOf(s.mode, p, names)
        t == [s EXCEPT !.todo = NewDirs(s.mode, d, p, names) \o @, !.handled = @ \cup files]
    IN  IF s.mode = "delete" /\ files # {}
        THEN ProcessCommand(t, Cmd("del", "recursive", p, files)) ELSE t

(* BelowRecursionRoot: {} if p is outside, otherwise the directory to      *)
(* process, with its start_dir.                                            *)
BelowRecursionRoot(s, d, p) ==
    IF d.start_dir # {} THEN {e \in {d} : \E q \in d.start_dir : IsStrictPrefix(q, p)}
    ELSE IF IsStrictPrefix(s.start, p) THEN {d}
    ELSE IF d.link = 2 THEN {[d EXCEPT !.start_dir = {p}]}
    ELSE {}

(* ProcessDirectoryListing of the primary listing of p; available is       *)
(* whether it could be got from the cache.                                 *)
ProcessDirectoryListing(s, p, names, available) ==
    LET found == BelowRecursionRoot(s, Head(s.todo), p)
        d == CHOOSE e \in found : TRUE
        t == PushRemoval(Pop(s), d)
    IN  IF s.mode = "none" \/ ~available THEN s
        ELSE IF s.todo = <<>> THEN StopRecursiveOperation(s)
        ELSE IF found = {} THEN NextOperation(Pop(s))
        ELSE IF (d.link # 0 /\ ~d.recurse) \/ p \in t.visited THEN NextOperation(t)
        ELSE NextOperation(ProcessEntries([t EXCEPT !.visited = @ \cup {p}], d, p, names))

ListingFailed(s, error) ==
    LET d == Head(s.todo)
    IN  IF s.mode = "none" THEN s
        ELSE IF error = "canceled" \/ s.todo = <<>> THEN StopRecursiveOperation(s)
        ELSE IF error # "critical" /\ ~d.retry
        THEN NextOperation([s EXCEPT !.todo[1].retry = TRUE])
        ELSE NextOperation(PushRemoval(Pop(s), d))

(* A link that was to be visited is a file.                                *)
LinkIsNotDir(s, site) ==
    LET d == Head(s.todo)
        t == [Pop(s) EXCEPT !.handled = @ \cup {d.dir}]
        del == Cmd("del", "recursive", Front(d.dir), {d.dir})
    IN  IF s.mode = "none" THEN s
        ELSE IF s.todo = <<>> THEN StopRecursiveOperation(s)
        ELSE IF ~site THEN NextOperation(Pop(s))
        ELSE NextOperation(IF s.mode = "delete" THEN ProcessCommand(t, del) ELSE t)
=============================================================================
