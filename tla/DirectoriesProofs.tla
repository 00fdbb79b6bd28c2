-------------------------- MODULE DirectoriesProofs --------------------------
(***************************************************************************)
(* Proofs about Directories, for any number of engines and commands, any   *)
(* nodes and initial trees, and any size of the cache.                     *)
(*                                                                         *)
(* NobodyStuck needs LockInv: who waits for a lock holds none, so that     *)
(* waiting makes no circles; an upload keeps the lock it took for cwd, and *)
(* mkd asks for the same one again without having to wait for itself.      *)
(*                                                                         *)
(* RefreshIsRecent needs WireInv, the operation, the command under way and *)
(* the working directory in step, and SeenInv: an engine lists a directory *)
(* only while it holds the lock, so that a sure listing that appears while *)
(* another waits for that lock was seen on the server since.               *)
(*                                                                         *)
(* SureIsRight is not inductive: between the server's change and the       *)
(* handling of its reply, a sure listing is wrong.  SureInv says that a    *)
(* command which is answered but not yet handled, and whose reply makes    *)
(* the cache give the listing up, covers that.  The cases need that the    *)
(* server has the parents of what it has (TreeInv).                        *)
(***************************************************************************)
EXTENDS Directories, SequenceTheorems, TLAPS

-----------------------------------------------------------------------------
(* What a handler finds when it runs.                                      *)

OpRecord(o) ==
    o = [cmd |-> o.cmd, path |-> o.path, node |-> o.node, to |-> o.to, st |-> o.st,
         cur |-> o.cur, common |-> o.common, mkd |-> o.mkd, refresh |-> o.refresh,
         fresh |-> o.fresh]

WireRecord(w) ==
    w = [st |-> w.st, verb |-> w.verb, arg |-> w.arg, to |-> w.to,
         reply |-> w.reply, names |-> w.names, skip |-> w.skip]

MkdStates == {"mkd_init", "findparent", "cwdsub", "mkdsub", "tryfull"}

Records ==
    /\ op = [e \in Engines |-> op[e]] /\ \A e \in Engines : OpRecord(op[e])
    /\ wire = [e \in Engines |-> wire[e]] /\ \A e \in Engines : WireRecord(wire[e])
    /\ cwd = [e \in Engines |-> cwd[e]]

(* Who has or waits for a lock has a command; nobody else's lock is on the *)
(* same thing; who waits holds nothing and has nothing else to do; and who *)
(* has nothing else to do waits.                                           *)
Owned == \A l \in locks : l.owner \in Engines /\ op[l.owner].cmd # "none"

Exclusive == \A a, b \in held : a.what = b.what => a.owner = b.owner

WaitersHoldNothing ==
    \A l \in waiting :
        /\ wire[l.owner].st = "idle" /\ loop # l.owner
        /\ \A h \in held : h.owner # l.owner
        /\ \A m \in waiting : m.owner = l.owner => m = l

IdlersWait ==
    \A e \in Engines :
        op[e].cmd # "none" /\ loop # e /\ wire[e].st = "idle" =>
            \E l \in waiting : l.owner = e

(* The locks an operation may have in each of its states.                  *)
LockFits(l, o, dir) ==
    \/ o.st \in {"cwd"} \cup MkdStates /\ l.key = "cwd" /\ o.cmd # "mkdir"
         /\ l.what = <<"mkdir", o.path>>
    \/ o.st \in MkdStates /\ l.key = "mkd" /\ l.what = <<"mkdir", o.path>>
    \/ o.st = "list" /\ l.key = "list" /\ l.what = <<"list", dir>>

LocksFit == \A l \in locks : LockFits(l, op[l.owner], cwd[l.owner])

(* An upload asks to create a directory only while it keeps others from it.*)
Creating(e) ==
    \/ op[e].st = "cwd" /\ op[e].mkd /\ wire[e].st # "idle"
    \/ op[e].st = "mkd_init" /\ op[e].cmd # "mkdir"

CreatorsHold == \A e \in Engines : Creating(e) => Holds(e, "cwd")

OpFits(o) ==
    /\ o.cmd = "mkdir" => o.st \in MkdStates
    /\ o.cmd = "none" <=> o.st = "none"

LockInv ==
    /\ Records /\ Owned /\ Exclusive /\ WaitersHoldNothing /\ IdlersWait
    /\ LocksFit /\ CreatorsHold /\ loop \in Engines \cup {NoEngine}
    /\ \A e \in Engines : OpFits(op[e])


(* A handler leaves w on its engine's wire and nothing changes on others.  *)
Puts(e, w) == WireRecord(w) /\ wire' = [wire EXCEPT ![e] = w]

-----------------------------------------------------------------------------
(* Every handler works on one engine: its operation, its wire and its      *)
(* locks.  These lemmas are about the ways a handler can leave them.       *)

LEMMA NoOpFits == OpRecord(NoOp) /\ OpFits(NoOp) /\ NoOp.cmd = "none" /\ NoOp.st = "none"
    /\ WireRecord(Idle) /\ Idle.st = "idle"
  BY DEF OpRecord, OpFits, NoOp, WireRecord, Idle, MkdStates

LEMMA Nobody == NoEngine \notin Engines
  BY NodesAssumption

(* A command that ends gives up all its locks.                             *)
LEMMA EndKeepsLocks ==
    ASSUME LockInv, NEW e \in Engines, NEW ok, NEW path, NEW w,
           loop \in {e, NoEngine}, End(e, ok, path),
           Puts(e, w)
    PROVE  LockInv'
  <1> USE DEF LockInv, Puts
  <1>1. /\ op' = [op EXCEPT ![e] = NoOp] /\ loop' = NoEngine
        /\ held' = held \ LocksOf(e, AllKeys) /\ waiting' = waiting \ LocksOf(e, AllKeys)
    BY DEF End, ReleaseAll
  <1>2. \A l \in locks' : l \in locks /\ l.owner # e
    BY <1>1 DEF LocksOf, AllKeys, locks, LocksFit, LockFits
  <1>3. \A f \in Engines : f # e => op'[f] = op[f] /\ wire'[f] = wire[f] /\ cwd'[f] = cwd[f]
    BY <1>1 DEF Records, End
  <1>4. op'[e] = NoOp /\ wire'[e] = w
    BY <1>1 DEF Records
  <1>5. Records'
    BY <1>1, <1>3, <1>4, NoOpFits DEF Records, End
  <1>6. Owned'
    BY <1>2, <1>3 DEF Owned
  <1>7. Exclusive'
    BY <1>1 DEF Exclusive
  <1>8. WaitersHoldNothing'
    BY <1>1, <1>2, <1>3, Nobody DEF WaitersHoldNothing, Owned, locks
  <1>9. IdlersWait'
    BY <1>1, <1>3, <1>4, NoOpFits, Nobody DEF IdlersWait, LocksOf
  <1>10. LocksFit'
    BY <1>2, <1>3 DEF LocksFit, Owned
  <1>11. CreatorsHold'
    BY <1>1, <1>3, <1>4, NoOpFits DEF CreatorsHold, Creating, Holds, LocksOf
  <1>12. \A f \in Engines : OpFits(op'[f])
    BY <1>3, <1>4, NoOpFits
  <1> QED
    BY <1>1, <1>5, <1>6, <1>7, <1>8, <1>9, <1>10, <1>11, <1>12

(* A handler that goes on keeps the locks that fit the operation's next    *)
(* state.                                                                  *)
LEMMA GoOnKeepsLocks ==
    ASSUME LockInv, NEW e \in Engines, NEW o, NEW keys, NEW path, NEW w,
           loop \in {e, NoEngine}, loop = e \/ wire[e].st # "idle",
           GoOn(e, o, keys, path), Puts(e, w), w.st = "idle", OpRecord(o), OpFits(o), o.cmd # "none",
           \A l \in locks : l.owner = e /\ l.key \notin keys => LockFits(l, o, path),
           o.st = "mkd_init" /\ o.cmd # "mkdir" => "cwd" \notin keys /\ Holds(e, "cwd")
    PROVE  LockInv'
  <1> USE DEF LockInv, Puts
  <1>1. /\ op' = [op EXCEPT ![e] = o] /\ loop' = e
        /\ held' = held \ LocksOf(e, keys) /\ waiting' = waiting \ LocksOf(e, keys)
    BY DEF GoOn, ReleaseAll
  <1>2. \A l \in locks' : l \in locks /\ (l.owner = e => l.key \notin keys)
    BY <1>1 DEF LocksOf, locks
  <1>3. \A f \in Engines : f # e => op'[f] = op[f] /\ wire'[f] = wire[f] /\ cwd'[f] = cwd[f]
    BY <1>1 DEF Records, GoOn
  <1>4. op'[e] = o /\ wire'[e] = w /\ cwd'[e] = path
    BY <1>1 DEF Records, GoOn
  <1>5. Records'
    BY <1>1, <1>3, <1>4 DEF Records, GoOn
  <1>6. Owned'
    BY <1>2, <1>3, <1>4 DEF Owned
  <1>7. Exclusive'
    BY <1>1 DEF Exclusive
  <1>8. \A l \in waiting : l.owner # e
    BY DEF WaitersHoldNothing
  <1>9. WaitersHoldNothing'
    BY <1>1, <1>2, <1>3, <1>8, Nobody DEF WaitersHoldNothing, Owned, locks
  <1>10. IdlersWait'
    BY <1>1, <1>3, <1>4, Nobody DEF IdlersWait, LocksOf
  <1>11. LocksFit'
    BY <1>2, <1>3, <1>4 DEF LocksFit, Owned
  <1>12. CreatorsHold'
    <2> SUFFICES ASSUME NEW f \in Engines, Creating(f)'
                 PROVE  Holds(f, "cwd")'
      BY DEF CreatorsHold
    <2>1. CASE f = e
      <3>1. o.st = "mkd_init" /\ o.cmd # "mkdir"
        BY <1>4, <2>1 DEF Creating
      <3> QED
        BY <3>1, <2>1, <1>1 DEF Holds, LocksOf
    <2>2. CASE f # e
      <3>1. Creating(f)
        BY <1>3, <2>2 DEF Creating
      <3> QED
        BY <3>1, <2>2, <1>1 DEF CreatorsHold, Holds, LocksOf
    <2> QED
      BY <2>1, <2>2
  <1>13. \A f \in Engines : OpFits(op'[f])
    BY <1>3, <1>4
  <1> QED
    BY <1>1, <1>5, <1>6, <1>7, <1>9, <1>10, <1>11, <1>12, <1>13

(* A handler that sends a command has the lock it needs.                   *)
LEMMA SendKeepsLocks ==
    ASSUME LockInv, NEW e \in Engines, NEW w, loop = e,
           Puts(e, w), w.st # "idle",
           loop' = NoEngine, UNCHANGED <<op, held, waiting>>,
           cwd' = [cwd EXCEPT ![e] = cwd'[e]],
           op[e].st = "list" => cwd'[e] = cwd[e],
           op[e].st = "cwd" /\ op[e].mkd => Holds(e, "cwd")
    PROVE  LockInv'
  <1> USE DEF LockInv, Puts
  <1>1. \A f \in Engines : f # e => wire'[f] = wire[f] /\ cwd'[f] = cwd[f]
    BY DEF Records
  <1>2. wire'[e] = w /\ op'[e] = op[e]
    BY DEF Records
  <1>3. Records'
    BY <1>1, <1>2 DEF Records
  <1>4. locks' = locks
    BY DEF locks
  <1>5. Owned' /\ Exclusive'
    BY <1>4 DEF Owned, Exclusive
  <1>6. \A l \in waiting : l.owner # e
    BY DEF WaitersHoldNothing
  <1>7. WaitersHoldNothing'
    BY <1>1, <1>6, Nobody DEF WaitersHoldNothing, Owned, locks
  <1>8. IdlersWait'
    BY <1>1, <1>2 DEF IdlersWait
  <1>9. LocksFit'
    <2> SUFFICES ASSUME NEW l \in locks PROVE LockFits(l, op[l.owner], cwd'[l.owner])
      BY <1>4 DEF LocksFit
    <2>1. LockFits(l, op[l.owner], cwd[l.owner]) /\ l.owner \in Engines
      BY DEF LocksFit, Owned
    <2> QED
      BY <2>1, <1>1 DEF LockFits
  <1>10. CreatorsHold'
    <2> SUFFICES ASSUME NEW f \in Engines, Creating(f)'
                 PROVE  Holds(f, "cwd")
      BY DEF CreatorsHold, Holds
    <2>1. CASE f = e
      BY <2>1, <1>2 DEF Creating, CreatorsHold
    <2>2. CASE f # e
      BY <2>2, <1>1 DEF Creating, CreatorsHold
    <2> QED
      BY <2>1, <2>2
  <1> QED
    BY <1>3, <1>5, <1>7, <1>8, <1>9, <1>10


(* A handler that has to wait for a lock holds none.                       *)
LEMMA WaitKeepsLocks ==
    ASSUME LockInv, NEW e \in Engines, NEW l, NEW o, loop = e, wire[e].st = "idle",
           l.owner = e, Blocked(l), Acquire(l),
           op' = [op EXCEPT ![e] = o], OpRecord(o), OpFits(o),
           o.cmd # "none", o.st # "cwd" \/ ~o.mkd,
           o.st # "mkd_init" \/ o.cmd = "mkdir",
           LockFits(l, o, cwd[e]), \A h \in held : h.owner # e,
           loop' = NoEngine, UNCHANGED <<wire, cwd>>
    PROVE  LockInv'
  <1> USE DEF LockInv
  <1>1. held' = held /\ waiting' = waiting \cup {l} /\ locks' = locks \cup {l}
    BY DEF Acquire, locks
  <1>2. \A f \in Engines : f # e => op'[f] = op[f]
    BY DEF Records
  <1>3. op'[e] = o
    BY DEF Records
  <1>4. Records'
    BY <1>2, <1>3 DEF Records
  <1>5. \A m \in locks : m.owner # e
    BY DEF locks, WaitersHoldNothing
  <1>6. Owned'
    BY <1>1, <1>2, <1>3 DEF Owned
  <1>7. Exclusive'
    BY <1>1 DEF Exclusive
  <1>8. WaitersHoldNothing'
    BY <1>1, <1>5, Nobody DEF WaitersHoldNothing, Owned, locks
  <1>9. IdlersWait'
    BY <1>1, <1>2 DEF IdlersWait
  <1>10. LocksFit'
    BY <1>1, <1>2, <1>3, <1>5 DEF LocksFit, Owned
  <1>11. CreatorsHold'
    <2> SUFFICES ASSUME NEW f \in Engines, Creating(f)'
                 PROVE  Holds(f, "cwd")
      BY <1>1 DEF CreatorsHold, Holds
    <2>1. f # e
      BY <1>3 DEF Creating
    <2> QED
      BY <2>1, <1>2 DEF Creating, CreatorsHold
  <1>12. \A f \in Engines : OpFits(op'[f])
    BY <1>2, <1>3
  <1> QED
    BY <1>4, <1>6, <1>7, <1>8, <1>9, <1>10, <1>11, <1>12

(* A handler that gets a lock at once goes on or sends.                    *)
LEMMA TakeKeepsLocks ==
    ASSUME LockInv, NEW e \in Engines, NEW l, NEW o, NEW w, loop = e,
           l.owner = e, ~Blocked(l), Acquire(l),
           op' = [op EXCEPT ![e] = o], OpRecord(o), OpFits(o), o.cmd # "none",
           \A m \in locks \cup {l} : m.owner = e => LockFits(m, o, cwd'[e]),
           Puts(e, w),
           (o.st = "cwd" /\ o.mkd /\ w.st # "idle")
               \/ (o.st = "mkd_init" /\ o.cmd # "mkdir") => l.key = "cwd" \/ Holds(e, "cwd"),
           \/ loop' = e
           \/ loop' = NoEngine /\ w.st # "idle",
           cwd' = [cwd EXCEPT ![e] = cwd'[e]]
    PROVE  LockInv'
  <1> USE DEF LockInv, Puts
  <1>1. held' = held \cup {l} /\ waiting' = waiting /\ locks' = locks \cup {l}
    BY DEF Acquire, locks
  <1>2. \A f \in Engines : f # e => op'[f] = op[f] /\ wire'[f] = wire[f] /\ cwd'[f] = cwd[f]
    BY DEF Records
  <1>3. op'[e] = o /\ wire'[e] = w
    BY DEF Records
  <1>4. Records'
    BY <1>2, <1>3 DEF Records
  <1>6. Owned'
    BY <1>1, <1>2, <1>3 DEF Owned
  <1>7. Exclusive'
    BY <1>1 DEF Exclusive, Blocked, SameLock
  <1>8. \A m \in waiting : m.owner # e
    BY DEF WaitersHoldNothing
  <1>9. WaitersHoldNothing'
    BY <1>1, <1>2, <1>8, Nobody DEF WaitersHoldNothing, Owned, locks
  <1>10. IdlersWait'
    BY <1>1, <1>2, <1>3 DEF IdlersWait
  <1>11. LocksFit'
    BY <1>1, <1>2, <1>3 DEF LocksFit, Owned
  <1>12. CreatorsHold'
    <2> SUFFICES ASSUME NEW f \in Engines, Creating(f)'
                 PROVE  Holds(f, "cwd")'
      BY DEF CreatorsHold
    <2>1. CASE f = e
      BY <2>1, <1>1, <1>3 DEF Creating, Holds
    <2>2. CASE f # e
      BY <2>2, <1>1, <1>2 DEF Creating, CreatorsHold, Holds
    <2> QED
      BY <2>1, <2>2
  <1>13. \A f \in Engines : OpFits(op'[f])
    BY <1>2, <1>3
  <1> QED
    BY <1>4, <1>6, <1>7, <1>9, <1>10, <1>11, <1>12, <1>13


LEMMA NextState ==
    ASSUME NEW o, OpRecord(o), NEW st
    PROVE  LET n == [o EXCEPT !.st = st]
           IN  /\ OpRecord(n) /\ n.st = st
               /\ n.cmd = o.cmd /\ n.path = o.path /\ n.node = o.node /\ n.to = o.to
               /\ n.cur = o.cur /\ n.mkd = o.mkd /\ n.fresh = o.fresh
               /\ n.refresh = o.refresh
  BY DEF OpRecord

LEMMA OpNow == ASSUME LockInv, NEW e \in Engines PROVE OpRecord(op[e]) /\ OpFits(op[e])
  BY DEF LockInv, Records

LEMMA LocksNow ==
    ASSUME LockInv, NEW l \in locks, NEW e, l.owner = e
    PROVE  e \in Engines /\ LockFits(l, op[e], cwd[e])
  BY DEF LockInv, LocksFit, Owned

LEMMA CwdDoneKeepsLocks ==
    ASSUME LockInv, NEW e \in Engines, NEW ok, NEW path, NEW w,
           loop \in {e, NoEngine}, loop = e \/ wire[e].st # "idle",
           op[e].st \in {"cwd_init", "cwd"}, CwdDone(e, ok, path),
           Puts(e, w), w.st = "idle"
    PROVE  LockInv'
  <1> DEFINE o == op[e]
  <1>1. OpRecord(o) /\ OpFits(o) /\ o.cmd # "none" /\ o.cmd # "mkdir"
    BY OpNow DEF OpFits, MkdStates
  <1>2. \A l \in locks : l.owner = e => l.key = "cwd"
    BY LocksNow DEF LockFits, MkdStates
  <1>3. ASSUME NEW n, OpRecord(n), n.cmd = o.cmd, n.st \in {"list", "rnfr", "work"},
               GoOn(e, n, {"cwd"}, path)
        PROVE  LockInv'
    <2>1. OpFits(n) /\ n.cmd # "none"
      BY <1>1, <1>3 DEF OpFits
    <2>2. \A l \in locks : l.owner = e /\ l.key \notin {"cwd"} => LockFits(l, n, path)
      BY <1>2
    <2>3. n.st # "mkd_init"
      BY <1>3
    <2> QED
      BY <1>3, <2>1, <2>2, <2>3, GoOnKeepsLocks
  <1>4. CASE End(e, FALSE, path)
    <2>1. PICK no \in BOOLEAN : no = FALSE
      OBVIOUS
    <2>2. End(e, no, path)
      BY <1>4, <2>1
    <2> QED
      BY <2>2, EndKeepsLocks
  <1>5. ASSUME NEW st \in {"list", "rnfr", "work"},
               GoOn(e, [o EXCEPT !.st = st], {"cwd"}, path)
        PROVE  LockInv'
    <2>1. PICK n : n = [o EXCEPT !.st = st]
      OBVIOUS
    <2>2. OpRecord(n) /\ n.cmd = o.cmd /\ n.st = st
      BY <2>1, <1>1, NextState
    <2>3. GoOn(e, n, {"cwd"}, path)
      BY <2>1, <1>5
    <2> QED
      BY <1>3, <2>2, <2>3
  <1>6. CASE GoOn(e, [o EXCEPT !.st = "list", !.refresh = TRUE], {"cwd"}, path)
    <2>1. PICK n : n = [o EXCEPT !.st = "list", !.refresh = TRUE]
      OBVIOUS
    <2>2. OpRecord(n) /\ n.cmd = o.cmd /\ n.st = "list"
      BY <2>1, <1>1 DEF OpRecord
    <2> QED
      BY <1>3, <1>6, <2>1, <2>2
  <1> QED
    BY <1>4, <1>5, <1>6 DEF CwdDone

LEMMA MkdDoneKeepsLocks ==
    ASSUME LockInv, NEW e \in Engines, NEW ok, NEW path, NEW w,
           loop \in {e, NoEngine}, loop = e \/ wire[e].st # "idle",
           op[e].st \in MkdStates, MkdDone(e, ok, path),
           Puts(e, w), w.st = "idle"
    PROVE  LockInv'
  <1>1. CASE End(e, ok, path)
    BY <1>1, EndKeepsLocks
  <1>2. CASE op[e].cmd # "mkdir" /\ GoOn(e, [op[e] EXCEPT !.st = "cwd"], {"mkd"}, path)
    <2>1. PICK n : n = [op[e] EXCEPT !.st = "cwd"]
      OBVIOUS
    <2>2. OpRecord(n) /\ n.cmd = op[e].cmd /\ n.st = "cwd" /\ n.path = op[e].path
      BY <2>1, OpNow, NextState
    <2>3. OpFits(n) /\ n.cmd # "none"
      BY <2>2, <1>2, OpNow DEF OpFits, MkdStates
    <2>4. \A l \in locks : l.owner = e /\ l.key \notin {"mkd"} => LockFits(l, n, path)
      BY <2>2, LocksNow DEF LockFits, MkdStates
    <2>5. GoOn(e, n, {"mkd"}, path)
      BY <2>1, <1>2
    <2> QED
      BY <2>2, <2>3, <2>4, <2>5, GoOnKeepsLocks
  <1> QED
    BY <1>1, <1>2 DEF MkdDone

LEMMA ListDoneKeepsLocks ==
    ASSUME LockInv, NEW e \in Engines, NEW ok,
           loop = e, op[e].st = "list", wire[e].st = "idle", ListDone(e, ok),
           UNCHANGED wire
    PROVE  LockInv'
  <1>1. Puts(e, wire[e])
    BY DEF LockInv, Records, Puts
  <1>2. CASE End(e, ok, cwd[e])
    BY <1>1, <1>2, EndKeepsLocks
  <1>3. CASE GoOn(e, [op[e] EXCEPT !.st = "work"], {"list"}, cwd[e])
    <2>1. PICK n : n = [op[e] EXCEPT !.st = "work"]
      OBVIOUS
    <2>2. OpRecord(n) /\ n.cmd = op[e].cmd /\ n.st = "work"
      BY <2>1, OpNow, NextState
    <2>3. OpFits(n) /\ n.cmd # "none"
      BY <2>2, OpNow DEF OpFits, MkdStates
    <2>4. \A l \in locks : l.owner = e /\ l.key \notin {"list"} => LockFits(l, n, cwd[e])
      BY <2>2, LocksNow DEF LockFits, MkdStates
    <2>5. GoOn(e, n, {"list"}, cwd[e])
      BY <2>1, <1>3
    <2> QED
      BY <1>1, <2>2, <2>3, <2>4, <2>5, GoOnKeepsLocks
  <1> QED
    BY <1>2, <1>3 DEF ListDone


-----------------------------------------------------------------------------
(* The actions keep the locks right.                                       *)

LEMMA NewOpFits ==
    ASSUME NEW cmd, NEW path, NEW node, NEW to, NEW refresh, cmd # "none"
    PROVE  LET o == NewOp(cmd, path, node, to, refresh)
           IN  /\ OpRecord(o) /\ OpFits(o) /\ o.cmd = cmd /\ o.path = path
               /\ o.node = node /\ o.to = to /\ o.cur = NoPath
               /\ o.st = IF cmd = "mkdir" THEN "mkd_init" ELSE "cwd_init"
  <1>1. PICK b \in BOOLEAN : b = (cmd = "upload")
    OBVIOUS
  <1>2. PICK no \in BOOLEAN : no = FALSE
    OBVIOUS
  <1>3. PICK st : st = IF cmd = "mkdir" THEN "mkd_init" ELSE "cwd_init"
    OBVIOUS
  <1>4. PICK o : o = NewOp(cmd, path, node, to, refresh)
    OBVIOUS
  <1>5. o = [[cmd |-> "none", path |-> NoPath, node |-> NoPath, to |-> NoPath,
              st |-> "none", cur |-> NoPath, common |-> NoPath, mkd |-> no,
              refresh |-> no, fresh |-> no] EXCEPT
                 !.cmd = cmd, !.path = path, !.node = node, !.to = to,
                 !.st = st, !.mkd = b, !.refresh = refresh]
    BY <1>1, <1>2, <1>3, <1>4, Zenon DEF NewOp, NoOp
  <1>6. o = [cmd |-> cmd, path |-> path, node |-> node, to |-> to,
             st |-> st, cur |-> NoPath, common |-> NoPath, mkd |-> b,
             refresh |-> refresh, fresh |-> no]
    BY <1>5
  <1>7. OpRecord(o) /\ o.cmd = cmd /\ o.path = path /\ o.node = node /\ o.to = to
        /\ o.cur = NoPath /\ o.st = st
    BY <1>6 DEF OpRecord
  <1>8. OpFits(o)
    BY <1>3, <1>7 DEF OpFits, MkdStates
  <1> QED
    BY <1>3, <1>4, <1>7, <1>8

LEMMA StartKeepsLocks ==
    ASSUME LockInv, NEW e \in Engines, NEW o, Start(e, o), OpRecord(o), OpFits(o),
           o.cmd # "none", o.st \in {"mkd_init", "cwd_init"},
           o.st = "mkd_init" => o.cmd = "mkdir"
    PROVE  LockInv'
  <1> USE DEF LockInv
  <1>1. /\ op' = [op EXCEPT ![e] = o] /\ loop' = e /\ loop = NoEngine
        /\ UNCHANGED <<held, waiting, cwd, wire>> /\ locks' = locks
    BY DEF Start, locks
  <1>2. \A f \in Engines : f # e => op'[f] = op[f]
    BY <1>1 DEF Records
  <1>3. op'[e] = o /\ op[e].cmd = "none"
    BY <1>1 DEF Records, Start
  <1>4. \A l \in locks : l.owner # e
    BY <1>3 DEF Owned
  <1>5. Records'
    BY <1>1, <1>2, <1>3 DEF Records
  <1>6. Owned' /\ Exclusive'
    BY <1>1, <1>2, <1>4 DEF Owned, Exclusive
  <1>7. WaitersHoldNothing'
    BY <1>1, <1>4 DEF WaitersHoldNothing, locks
  <1>8. IdlersWait'
    BY <1>1, <1>2, Nobody DEF IdlersWait
  <1>9. LocksFit'
    BY <1>1, <1>2, <1>4 DEF LocksFit, Owned
  <1>10. CreatorsHold'
    <2> SUFFICES ASSUME NEW f \in Engines, Creating(f)'
                 PROVE  Holds(f, "cwd")
      BY <1>1 DEF CreatorsHold, Holds
    <2>1. f # e
      BY <1>3 DEF Creating
    <2> QED
      BY <2>1, <1>1, <1>2 DEF Creating, CreatorsHold
  <1>11. \A f \in Engines : OpFits(op'[f])
    BY <1>2, <1>3
  <1> QED
    BY <1>1, <1>5, <1>6, <1>7, <1>8, <1>9, <1>10, <1>11

(* A new operation begins with its own cwd or mkd operation.               *)
Fresh(o) ==
    /\ OpRecord(o) /\ OpFits(o) /\ o.cmd # "none"
    /\ o.st \in {"mkd_init", "cwd_init"} /\ (o.st = "mkd_init" => o.cmd = "mkdir")

LEMMA CommandStarts ==
    ASSUME NEW e \in Engines, Command(e)
    PROVE  (\E o : Fresh(o) /\ Start(e, o))
             \/ UNCHANGED <<op, held, waiting, cwd, wire, loop>>
  <1>1. ASSUME NEW cmd, cmd # "none", NEW path, NEW node, NEW to, NEW refresh,
               Start(e, NewOp(cmd, path, node, to, refresh))
        PROVE  \E o : Fresh(o) /\ Start(e, o)
    <2>1. PICK o : o = NewOp(cmd, path, node, to, refresh)
      OBVIOUS
    <2>2. Fresh(o)
      BY <1>1, <2>1, NewOpFits DEF Fresh
    <2>3. Start(e, o)
      BY <1>1, <2>1
    <2> QED
      BY <2>2, <2>3
  <1>2. CASE \E p \in Dirs, refresh \in BOOLEAN : List(e, p, refresh)
    BY <1>1, <1>2 DEF List
  <1>3. CASE \E p \in Dirs : ListFromCache(e, p)
    BY <1>3 DEF ListFromCache
  <1>4. ASSUME NEW p \in Dirs, Start(e, NewOp("mkdir", p, p, NoPath, FALSE))
        PROVE  \E o : Fresh(o) /\ Start(e, o)
    BY <1>1, <1>4
  <1>5. ASSUME NEW n \in Nodes, NEW cmd \in {"upload", "chmod"},
               Start(e, NewOp(cmd, Front(n), n, NoPath, FALSE))
        PROVE  \E o : Fresh(o) /\ Start(e, o)
    BY <1>1, <1>5
  <1>6. ASSUME NEW n \in Nodes,
               Start(e, NewOp(IF n \in Dirs THEN "rmd" ELSE "delete",
                              Front(n), n, NoPath, FALSE))
        PROVE  \E o : Fresh(o) /\ Start(e, o)
    BY <1>1, <1>6
  <1>7. ASSUME NEW n \in Nodes, NEW m \in Nodes,
               Start(e, NewOp("rename", Front(n), n, m, FALSE))
        PROVE  \E o : Fresh(o) /\ Start(e, o)
    BY <1>1, <1>7
  <1> QED
    BY <1>2, <1>3, <1>4, <1>5, <1>6, <1>7 DEF Command


LEMMA StutterKeepsLocks ==
    ASSUME LockInv, UNCHANGED <<op, held, waiting, cwd, wire, loop>>
    PROVE  LockInv'
  <1>1. locks' = locks
    BY DEF locks
  <1> QED
    BY <1>1 DEF LockInv, Records, Owned, Exclusive, WaitersHoldNothing, IdlersWait,
                LocksFit, CreatorsHold, Creating, Holds

LEMMA CommandKeepsLocks ==
    ASSUME LockInv, NEW e \in Engines, Command(e)
    PROVE  LockInv'
  <1>1. ASSUME NEW o, Fresh(o), Start(e, o) PROVE LockInv'
    BY <1>1, StartKeepsLocks DEF Fresh
  <1>2. CASE UNCHANGED <<op, held, waiting, cwd, wire, loop>>
    BY <1>2, StutterKeepsLocks
  <1> QED
    BY <1>1, <1>2, CommandStarts

(* What a handler leaves on the wire when it leaves the wire alone.        *)
LEMMA WireNow ==
    ASSUME LockInv, NEW e \in Engines
    PROVE  WireRecord(wire[e]) /\ (UNCHANGED wire => Puts(e, wire[e]))
  BY DEF LockInv, Records, Puts

LEMMA AwaitRepliesKeepsLocks ==
    ASSUME LockInv, NEW e \in Engines, AwaitReplies(e)
    PROVE  LockInv'
  <1>1. /\ UNCHANGED <<op, held, waiting, cwd, wire>> /\ loop = e /\ loop' = NoEngine
        /\ wire[e].st # "idle" /\ locks' = locks
    BY DEF AwaitReplies, Blocks, locks
  <1>2. Records' /\ Owned' /\ Exclusive' /\ LocksFit' /\ CreatorsHold'
        /\ (\A f \in Engines : OpFits(op[f]))'
    BY <1>1 DEF LockInv, Records, Owned, Exclusive, LocksFit, CreatorsHold, Creating, Holds
  <1>3. WaitersHoldNothing'
    BY <1>1, Nobody DEF LockInv, WaitersHoldNothing, Owned, locks
  <1>4. IdlersWait'
    BY <1>1 DEF LockInv, IdlersWait
  <1> QED
    BY <1>1, <1>2, <1>3, <1>4 DEF LockInv

LEMMA CwdInitKeepsLocks ==
    ASSUME LockInv, NEW e \in Engines, CwdInit(e)
    PROVE  LockInv'
  <1>1. loop = e /\ op[e].st = "cwd_init" /\ wire[e].st = "idle" /\ Puts(e, wire[e])
    BY WireNow DEF CwdInit, Runs
  <1>2. CASE CwdDone(e, TRUE, cwd[e])
    <2>1. PICK yes \in BOOLEAN : yes = TRUE
      OBVIOUS
    <2>2. CwdDone(e, yes, cwd[e])
      BY <1>2, <2>1
    <2> QED
      BY <1>1, <2>2, CwdDoneKeepsLocks
  <1>3. CASE GoOn(e, [op[e] EXCEPT !.st = "cwd"], {}, cwd[e])
    <2>1. PICK n : n = [op[e] EXCEPT !.st = "cwd"]
      OBVIOUS
    <2>2. OpRecord(n) /\ n.cmd = op[e].cmd /\ n.st = "cwd"
      BY <2>1, OpNow, NextState
    <2>3. OpFits(n) /\ n.cmd # "none"
      BY <1>1, <2>2, OpNow DEF OpFits, MkdStates
    <2>4. \A l \in locks : l.owner # e
      BY <1>1, LocksNow DEF LockFits, MkdStates
    <2>5. GoOn(e, n, {}, cwd[e])
      BY <2>1, <1>3
    <2> QED
      BY <1>1, <2>2, <2>3, <2>4, <2>5, GoOnKeepsLocks
  <1> QED
    BY <1>2, <1>3 DEF CwdInit

(* What Sends leaves on the wire.                                          *)
LEMMA SendsPuts ==
    ASSUME LockInv, NEW e \in Engines, NEW verb, NEW arg, NEW to, Sends(e, verb, arg, to)
    PROVE  \E w : /\ Puts(e, w) /\ w.st = "sent" /\ w.verb = verb /\ w.arg = arg
                  /\ w.to = to /\ w.reply = "none" /\ ~w.skip
                  /\ loop' = NoEngine
  <1>1. PICK no \in BOOLEAN : no = FALSE
    OBVIOUS
  <1>2. PICK w : w = [Idle EXCEPT !.st = "sent", !.verb = verb, !.arg = arg, !.to = to]
    OBVIOUS
  <1>3. w = [[st |-> "idle", verb |-> "none", arg |-> NoPath, to |-> NoPath,
              reply |-> "none", names |-> {}, skip |-> no]
                EXCEPT !.st = "sent", !.verb = verb, !.arg = arg, !.to = to]
    BY <1>1, <1>2, Zenon DEF Idle
  <1>4. w = [st |-> "sent", verb |-> verb, arg |-> arg, to |-> to,
             reply |-> "none", names |-> {}, skip |-> no]
    BY <1>3
  <1>5. wire' = [wire EXCEPT ![e] = w] /\ loop' = NoEngine
    BY <1>2 DEF Sends
  <1>6. Puts(e, w) /\ w.st = "sent" /\ w.verb = verb /\ w.arg = arg
                   /\ w.to = to /\ w.reply = "none" /\ w.skip = no
    BY <1>4, <1>5 DEF Puts, WireRecord
  <1> QED
    BY <1>1, <1>5, <1>6

LEMMA CwdSendKeepsLocks ==
    ASSUME LockInv, NEW e \in Engines, CwdSend(e)
    PROVE  LockInv'
  <1>1. loop = e /\ op[e].st = "cwd" /\ wire[e].st = "idle"
    BY DEF CwdSend, Runs
  <1>2. PICK lock : lock = NewLock(e, "cwd", "mkdir", op[e].path)
    OBVIOUS
  <1>3. lock.owner = e /\ lock.key = "cwd" /\ lock.what = <<"mkdir", op[e].path>>
    BY <1>2 DEF NewLock
  <1>4. OpRecord(op[e]) /\ OpFits(op[e]) /\ op[e].cmd # "none" /\ op[e].cmd # "mkdir"
    BY <1>1, OpNow DEF OpFits, MkdStates
  <1>5. CASE op[e].mkd /\ ~Holds(e, "cwd") /\ Blocked(lock)
    <2>1. Acquire(lock) /\ op' = [op EXCEPT ![e].mkd = FALSE] /\ loop' = NoEngine
          /\ UNCHANGED <<wire, cwd>>
      BY <1>2, <1>5 DEF CwdSend
    <2>2. PICK no \in BOOLEAN : no = FALSE
      OBVIOUS
    <2>3. PICK o : o = [op[e] EXCEPT !.mkd = no]
      OBVIOUS
    <2>4. op' = [op EXCEPT ![e] = o]
      BY <2>1, <2>2, <2>3
    <2>5. OpRecord(o) /\ o.st = "cwd" /\ o.cmd = op[e].cmd /\ o.path = op[e].path
          /\ o.mkd = no
      BY <2>3, <1>1, <1>4 DEF OpRecord
    <2>6. OpFits(o) /\ ~o.mkd
      BY <2>2, <2>5, <1>4 DEF OpFits, MkdStates
    <2>7. LockFits(lock, o, cwd[e])
      BY <1>3, <1>4, <2>5 DEF LockFits
    <2>8. \A h \in held : h.owner # e
      BY <1>1, <1>5, LocksNow DEF LockFits, MkdStates, Holds, locks
    <2> QED
      BY <1>1, <1>3, <1>4, <1>5, <2>1, <2>4, <2>5, <2>6, <2>7, <2>8, WaitKeepsLocks
  <1>6. CASE ~(op[e].mkd /\ ~Holds(e, "cwd") /\ Blocked(lock))
    <2>1. Sends(e, "CWD", op[e].path, NoPath) /\ cwd' = [cwd EXCEPT ![e] = NoPath]
          /\ UNCHANGED op
      BY <1>2, <1>6 DEF CwdSend
    <2>2. PICK w : Puts(e, w) /\ w.st = "sent" /\ loop' = NoEngine
      BY <2>1, SendsPuts
    <2>3. cwd' = [cwd EXCEPT ![e] = cwd'[e]]
      BY <2>1 DEF LockInv, Records
    <2>4. CASE op[e].mkd /\ ~Holds(e, "cwd")
      <3>1. Acquire(lock) /\ ~Blocked(lock)
        BY <1>2, <1>6, <2>4 DEF CwdSend
      <3>2. op' = [op EXCEPT ![e] = op[e]]
        BY <2>1 DEF LockInv, Records
      <3>3. \A m \in locks \cup {lock} : m.owner = e => LockFits(m, op[e], cwd'[e])
        BY <1>1, <1>3, <1>4, LocksNow DEF LockFits, MkdStates
      <3> QED
        BY <1>1, <1>3, <1>4, <2>2, <2>3, <3>1, <3>2, <3>3, TakeKeepsLocks
    <2>5. CASE ~(op[e].mkd /\ ~Holds(e, "cwd"))
      <3>1. UNCHANGED <<held, waiting>>
        BY <2>5 DEF CwdSend, locksVars
      <3> QED
        BY <1>1, <2>1, <2>2, <2>3, <2>5, <3>1, SendKeepsLocks
    <2> QED
      BY <2>4, <2>5
  <1> QED
    BY <1>5, <1>6


(* An upload that creates a directory has kept the others away already.    *)
LEMMA MkdLockKeepsLocks ==
    ASSUME LockInv, NEW e \in Engines, MkdLock(e)
    PROVE  LockInv'
  <1>1. /\ loop = e /\ op[e].st = "mkd_init" /\ wire[e].st = "idle"
        /\ UNCHANGED <<cwd, op, wire>> /\ ~Holds(e, "mkd")
    BY DEF MkdLock, Runs
  <1>2. PICK lock : lock = NewLock(e, "mkd", "mkdir", op[e].path)
    OBVIOUS
  <1>3. /\ lock.owner = e /\ lock.key = "mkd" /\ lock.what = <<"mkdir", op[e].path>>
        /\ Acquire(lock) /\ loop' = IF Blocked(lock) THEN NoEngine ELSE e
    BY <1>2 DEF NewLock, MkdLock
  <1>4. OpRecord(op[e]) /\ OpFits(op[e]) /\ op[e].cmd # "none"
    BY <1>1, OpNow DEF OpFits
  <1>5. op' = [op EXCEPT ![e] = op[e]] /\ Puts(e, wire[e]) /\ cwd'[e] = cwd[e]
        /\ cwd' = [cwd EXCEPT ![e] = cwd'[e]]
    BY <1>1, WireNow DEF LockInv, Records
  <1>6. CASE Blocked(lock)
    <2>1. op[e].cmd = "mkdir"
      <3> SUFFICES ASSUME op[e].cmd # "mkdir" PROVE FALSE
        OBVIOUS
      <3>1. PICK l \in held : l.owner = e /\ l.key = "cwd"
        BY <1>1 DEF LockInv, CreatorsHold, Creating, Holds
      <3>2. l.what = lock.what
        BY <3>1, <1>3, LocksNow DEF LockFits, locks
      <3> QED
        BY <1>3, <1>6, <3>1, <3>2 DEF Blocked, SameLock, LockInv, Exclusive
    <2>2. \A h \in held : h.owner # e
      BY <1>1, <2>1, LocksNow DEF LockFits, MkdStates, Holds, locks
    <2>3. LockFits(lock, op[e], cwd[e])
      BY <1>1, <1>3 DEF LockFits, MkdStates
    <2>4. loop' = NoEngine /\ op[e].st # "cwd"
      BY <1>1, <1>3, <1>6
    <2> QED
      BY <1>1, <1>3, <1>4, <1>5, <1>6, <2>1, <2>2, <2>3, <2>4, WaitKeepsLocks
  <1>7. CASE ~Blocked(lock)
    <2>1. \A m \in locks \cup {lock} : m.owner = e => LockFits(m, op[e], cwd[e])
      BY <1>1, <1>3, LocksNow DEF LockFits, MkdStates
    <2>2. op[e].cmd # "mkdir" => Holds(e, "cwd")
      BY <1>1 DEF LockInv, CreatorsHold, Creating
    <2>3. loop' = e /\ op[e].st # "cwd"
      BY <1>1, <1>3, <1>7
    <2> QED
      BY <1>1, <1>3, <1>4, <1>5, <1>7, <2>1, <2>2, <2>3, TakeKeepsLocks
  <1> QED
    BY <1>6, <1>7

LEMMA MkdGoOnKeepsLocks ==
    ASSUME LockInv, NEW e \in Engines, NEW n, NEW path, NEW w,
           loop \in {e, NoEngine}, loop = e \/ wire[e].st # "idle",
           op[e].st \in MkdStates, n.st \in MkdStates \ {"mkd_init"}, OpRecord(n),
           n.cmd = op[e].cmd, n.path = op[e].path, GoOn(e, n, {}, path),
           Puts(e, w), w.st = "idle"
    PROVE  LockInv'
  <1>1. OpFits(n) /\ n.cmd # "none"
    BY OpNow DEF OpFits, MkdStates
  <1>2. \A l \in locks : l.owner = e => LockFits(l, n, path)
    BY LocksNow DEF LockFits, MkdStates
  <1> QED
    BY <1>1, <1>2, GoOnKeepsLocks

LEMMA MkdInitKeepsLocks ==
    ASSUME LockInv, NEW e \in Engines, MkdInit(e)
    PROVE  LockInv'
  <1>1. /\ loop = e /\ op[e].st = "mkd_init" /\ wire[e].st = "idle" /\ Puts(e, wire[e])
        /\ op[e].st \in MkdStates
    BY WireNow DEF MkdInit, Runs, MkdStates
  <1>2. CASE MkdDone(e, TRUE, cwd[e])
    <2>1. PICK yes \in BOOLEAN : yes = TRUE
      OBVIOUS
    <2>2. MkdDone(e, yes, cwd[e])
      BY <1>2, <2>1
    <2> QED
      BY <1>1, <2>2, MkdDoneKeepsLocks
  <1>3. ASSUME NEW cur, NEW common,
               GoOn(e, [op[e] EXCEPT !.st = FirstMkdState(op[e].path, cwd[e]),
                                     !.cur = cur, !.common = common], {}, cwd[e])
        PROVE  LockInv'
    <2>1. PICK st : st = FirstMkdState(op[e].path, cwd[e])
      OBVIOUS
    <2>2. st \in MkdStates \ {"mkd_init"}
      BY <2>1 DEF FirstMkdState, MkdStates
    <2>3. PICK n : n = [op[e] EXCEPT !.st = st, !.cur = cur, !.common = common]
      OBVIOUS
    <2>4. OpRecord(n) /\ n.cmd = op[e].cmd /\ n.path = op[e].path /\ n.st = st
      <3>1. OpRecord(op[e])
        BY OpNow
      <3> QED
        BY <2>3, <3>1 DEF OpRecord
    <2>5. GoOn(e, n, {}, cwd[e])
      BY <2>1, <2>3, <1>3
    <2> QED
      BY <1>1, <2>2, <2>4, <2>5, MkdGoOnKeepsLocks
  <1> QED
    BY <1>2, <1>3 DEF MkdInit

LEMMA MkdSendKeepsLocks ==
    ASSUME LockInv, NEW e \in Engines, MkdSend(e)
    PROVE  LockInv'
  <1>1. /\ loop = e /\ op[e].st \notin {"cwd", "list"} /\ UNCHANGED <<op, held, waiting>>
        /\ \E verb, arg : Sends(e, verb, arg, NoPath)
        /\ cwd' = [cwd EXCEPT ![e] = cwd'[e]]
    BY DEF MkdSend, Runs, LockInv, Records
  <1>2. PICK w : Puts(e, w) /\ w.st = "sent" /\ loop' = NoEngine
    BY <1>1, SendsPuts
  <1> QED
    BY <1>1, <1>2, SendKeepsLocks

LEMMA ListSendKeepsLocks ==
    ASSUME LockInv, NEW e \in Engines, ListSend(e)
    PROVE  LockInv'
  <1>1. loop = e /\ op[e].st = "list" /\ wire[e].st = "idle"
    BY DEF ListSend, Runs
  <1>2. PICK lock : lock = NewLock(e, "list", "list", cwd[e])
    OBVIOUS
  <1>3. lock.owner = e /\ lock.key = "list" /\ lock.what = <<"list", cwd[e]>>
    BY <1>2 DEF NewLock
  <1>4. CASE ListDone(e, TRUE) /\ UNCHANGED wire
    <2>1. PICK yes \in BOOLEAN : yes = TRUE
      OBVIOUS
    <2>2. ListDone(e, yes)
      BY <1>4, <2>1
    <2> QED
      BY <1>1, <1>4, <2>2, ListDoneKeepsLocks
  <1>5. CASE /\ ~Holds(e, "list") /\ Acquire(lock)
             /\ op' = [op EXCEPT ![e].fresh = FALSE]
             /\ IF Blocked(lock) THEN loop' = NoEngine /\ UNCHANGED wire
                ELSE Sends(e, "LIST", cwd[e], NoPath)
             /\ UNCHANGED cwd
    <2>1. PICK no \in BOOLEAN : no = FALSE
      OBVIOUS
    <2>2. PICK o : o = [op[e] EXCEPT !.fresh = no]
      OBVIOUS
    <2>3. op' = [op EXCEPT ![e] = o]
      BY <1>5, <2>1, <2>2
    <2>4. OpRecord(o) /\ o.st = "list" /\ o.cmd = op[e].cmd /\ o.path = op[e].path
      <3>1. OpRecord(op[e])
        BY OpNow
      <3> QED
        BY <2>2, <1>1, <3>1 DEF OpRecord
    <2>5. OpFits(o) /\ o.cmd # "none"
      BY <1>1, <2>4, OpNow DEF OpFits, MkdStates
    <2>6. \A h \in held : h.owner # e
      BY <1>1, <1>5, LocksNow DEF LockFits, MkdStates, Holds, locks
    <2>7. LockFits(lock, o, cwd[e])
      BY <1>3, <2>4 DEF LockFits
    <2>8. CASE Blocked(lock)
      BY <1>1, <1>3, <1>5, <2>3, <2>4, <2>5, <2>6, <2>7, <2>8, WaitKeepsLocks
    <2>9. CASE ~Blocked(lock)
      <3>1. PICK w : Puts(e, w) /\ w.st = "sent" /\ loop' = NoEngine
        BY <1>5, <2>9, SendsPuts
      <3>2. \A m \in locks \cup {lock} : m.owner = e => LockFits(m, o, cwd'[e])
        BY <1>5, <2>6, <2>7, <1>1 DEF LockInv, WaitersHoldNothing, locks
      <3>3. cwd' = [cwd EXCEPT ![e] = cwd'[e]]
        BY <1>5 DEF LockInv, Records
      <3> QED
        BY <1>1, <1>3, <1>5, <2>3, <2>4, <2>5, <2>9, <3>1, <3>2, <3>3, TakeKeepsLocks
    <2> QED
      BY <2>8, <2>9
  <1>6. CASE Sends(e, "LIST", cwd[e], NoPath) /\ UNCHANGED <<op, held, waiting, cwd>>
    <2>1. PICK w : Puts(e, w) /\ w.st = "sent" /\ loop' = NoEngine
      BY <1>6, SendsPuts
    <2>2. cwd' = [cwd EXCEPT ![e] = cwd'[e]] /\ cwd'[e] = cwd[e]
      BY <1>6 DEF LockInv, Records
    <2> QED
      BY <1>1, <1>6, <2>1, <2>2, SendKeepsLocks
  <1> QED
    BY <1>2, <1>4, <1>5, <1>6 DEF ListSend

LEMMA WorkSendKeepsLocks ==
    ASSUME LockInv, NEW e \in Engines, WorkSend(e)
    PROVE  LockInv'
  <1>1. /\ loop = e /\ op[e].st \notin {"cwd", "list"}
        /\ UNCHANGED <<op, held, waiting, cwd>>
        /\ \E verb, arg, to : Sends(e, verb, arg, to)
        /\ cwd' = [cwd EXCEPT ![e] = cwd'[e]]
    BY DEF WorkSend, Runs, LockInv, Records
  <1>2. PICK w : Puts(e, w) /\ w.st = "sent" /\ loop' = NoEngine
    BY <1>1, SendsPuts
  <1> QED
    BY <1>1, <1>2, SendKeepsLocks


(* What Replied leaves on the wire.                                        *)
LEMMA RepliedPuts ==
    ASSUME NEW e \in Engines, NEW states, Replied(e, states)
    PROVE  /\ loop = NoEngine /\ wire[e].st = "done" /\ ~wire[e].skip
           /\ op[e].st \in states /\ wire[e].st # "idle"
           /\ Puts(e, Idle) /\ Idle.st = "idle"
  BY NoOpFits DEF Replied, Puts

LEMMA SkipReplyKeepsLocks ==
    ASSUME LockInv, NEW e \in Engines, SkipReply(e)
    PROVE  LockInv'
  <1> USE DEF LockInv
  <1>1. /\ loop = NoEngine /\ wire[e].st # "idle" /\ UNCHANGED <<op, held, waiting, cwd>>
        /\ wire' = [wire EXCEPT ![e] = Idle]
        /\ loop' = IF op[e].cmd = "none" THEN NoEngine ELSE e
        /\ locks' = locks
    BY DEF SkipReply, locks
  <1>2. \A f \in Engines : f # e => wire'[f] = wire[f]
    BY <1>1 DEF Records
  <1>3. wire'[e] = Idle
    BY <1>1 DEF Records
  <1>4. Records'
    BY <1>1, <1>2, <1>3, NoOpFits DEF Records
  <1>5. Owned' /\ Exclusive' /\ LocksFit'
    BY <1>1 DEF Owned, Exclusive, LocksFit
  <1>6. \A l \in waiting : l.owner # e /\ l.owner \in Engines
    BY <1>1 DEF WaitersHoldNothing, Owned, locks
  <1>7. WaitersHoldNothing'
    BY <1>1, <1>2, <1>6, Nobody DEF WaitersHoldNothing
  <1>8. IdlersWait'
    BY <1>1, <1>2, Nobody DEF IdlersWait
  <1>9. CreatorsHold'
    <2> SUFFICES ASSUME NEW f \in Engines, Creating(f)'
                 PROVE  Holds(f, "cwd")
      BY <1>1 DEF CreatorsHold, Holds
    <2>1. CASE f = e
      BY <2>1, <1>1, <1>3, NoOpFits DEF Creating, CreatorsHold
    <2>2. CASE f # e
      BY <2>2, <1>1, <1>2 DEF Creating, CreatorsHold
    <2> QED
      BY <2>1, <2>2
  <1> QED
    BY <1>1, <1>4, <1>5, <1>7, <1>8, <1>9

LEMMA ParseCwdKeepsLocks ==
    ASSUME LockInv, NEW e \in Engines, ParseCwd(e)
    PROVE  LockInv'
  <1>1. /\ loop = NoEngine /\ op[e].st = "cwd" /\ wire[e].st # "idle"
        /\ Puts(e, Idle) /\ Idle.st = "idle"
    BY RepliedPuts DEF ParseCwd
  <1>2. ASSUME NEW ok \in BOOLEAN, NEW path, CwdDone(e, ok, path) PROVE LockInv'
    BY <1>1, <1>2, CwdDoneKeepsLocks
  <1>3. CASE op[e].mkd /\ GoOn(e, [op[e] EXCEPT !.mkd = FALSE, !.st = "mkd_init"], {}, NoPath)
    <2>1. PICK no \in BOOLEAN : no = FALSE
      OBVIOUS
    <2>2. PICK n : n = [op[e] EXCEPT !.mkd = no, !.st = "mkd_init"]
      OBVIOUS
    <2>3. OpRecord(op[e]) /\ OpFits(op[e])
      BY OpNow
    <2>4. OpRecord(n) /\ n.cmd = op[e].cmd /\ n.path = op[e].path /\ n.st = "mkd_init"
      BY <2>2, <2>3 DEF OpRecord
    <2>5. GoOn(e, n, {}, NoPath)
      BY <2>1, <2>2, <1>3
    <2>6. OpFits(n) /\ n.cmd # "none"
      BY <1>1, <2>3, <2>4 DEF OpFits, MkdStates
    <2>7. \A l \in locks : l.owner = e => LockFits(l, n, NoPath)
      BY <1>1, <2>4, LocksNow DEF LockFits, MkdStates
    <2>8. Holds(e, "cwd")
      BY <1>1, <1>3 DEF LockInv, CreatorsHold, Creating
    <2> QED
      BY <1>1, <2>4, <2>5, <2>6, <2>7, <2>8, GoOnKeepsLocks
  <1>4. CASE CwdDone(e, TRUE, op[e].path)
    <2>1. PICK yes \in BOOLEAN : yes = TRUE
      OBVIOUS
    <2> QED
      BY <1>2, <1>4, <2>1
  <1>5. CASE CwdDone(e, FALSE, NoPath)
    <2>1. PICK no \in BOOLEAN : no = FALSE
      OBVIOUS
    <2> QED
      BY <1>2, <1>5, <2>1
  <1> QED
    BY <1>3, <1>4, <1>5 DEF ParseCwd

(* The steps of a mkd operation.                                           *)
LEMMA MkdStepKeepsLocks ==
    ASSUME LockInv, NEW e \in Engines, NEW n, NEW path,
           Replied(e, MkdStates), n.st \in MkdStates \ {"mkd_init"}, OpRecord(n),
           n.cmd = op[e].cmd, n.path = op[e].path, GoOn(e, n, {}, path)
    PROVE  LockInv'
  BY RepliedPuts, MkdGoOnKeepsLocks

LEMMA RepliedMkd ==
    ASSUME NEW e \in Engines, NEW st \in MkdStates, Replied(e, {st})
    PROVE  Replied(e, MkdStates)
  BY DEF Replied

LEMMA ParseFindParentKeepsLocks ==
    ASSUME LockInv, NEW e \in Engines, ParseFindParent(e)
    PROVE  LockInv'
  <1>1. Replied(e, MkdStates)
    BY RepliedMkd DEF ParseFindParent, MkdStates
  <1>2. OpRecord(op[e]) /\ op[e].st = "findparent"
    BY OpNow DEF ParseFindParent, Replied
  <1>3. ASSUME NEW st \in MkdStates \ {"mkd_init"}, NEW path,
               GoOn(e, [op[e] EXCEPT !.st = st], {}, path)
        PROVE  LockInv'
    <2>1. PICK n : n = [op[e] EXCEPT !.st = st]
      OBVIOUS
    <2>2. OpRecord(n) /\ n.cmd = op[e].cmd /\ n.path = op[e].path /\ n.st = st
      BY <2>1, <1>2, NextState
    <2>3. GoOn(e, n, {}, path)
      BY <2>1, <1>3
    <2> QED
      BY <1>1, <2>2, <2>3, MkdStepKeepsLocks
  <1>4. CASE GoOn(e, [op[e] EXCEPT !.cur = Front(op[e].cur)], {}, NoPath)
    <2>1. PICK n : n = [op[e] EXCEPT !.cur = Front(op[e].cur)]
      OBVIOUS
    <2>2. OpRecord(n) /\ n.cmd = op[e].cmd /\ n.path = op[e].path /\ n.st = "findparent"
      BY <2>1, <1>2 DEF OpRecord
    <2>3. GoOn(e, n, {}, NoPath)
      BY <2>1, <1>4
    <2> QED
      BY <1>1, <2>2, <2>3, MkdStepKeepsLocks DEF MkdStates
  <1>5. "mkdsub" \in MkdStates \ {"mkd_init"} /\ "tryfull" \in MkdStates \ {"mkd_init"}
    BY DEF MkdStates
  <1> QED
    BY <1>3, <1>4, <1>5 DEF ParseFindParent


LEMMA MkdEndKeepsLocks ==
    ASSUME LockInv, NEW e \in Engines, NEW ok, NEW path,
           Replied(e, MkdStates), MkdDone(e, ok, path)
    PROVE  LockInv'
  BY RepliedPuts, MkdDoneKeepsLocks

LEMMA ParseMkdSubKeepsLocks ==
    ASSUME LockInv, NEW e \in Engines, ParseMkdSub(e)
    PROVE  LockInv'
  <1>1. Replied(e, MkdStates)
    BY RepliedMkd DEF ParseMkdSub, MkdStates
  <1>2. ASSUME NEW ok \in BOOLEAN, MkdDone(e, ok, cwd[e]) PROVE LockInv'
    BY <1>1, <1>2, MkdEndKeepsLocks
  <1>3. CASE GoOn(e, [op[e] EXCEPT !.cur = NextDir(op[e]), !.st = "cwdsub"], {}, cwd[e])
    <2>1. PICK n : n = [op[e] EXCEPT !.cur = NextDir(op[e]), !.st = "cwdsub"]
      OBVIOUS
    <2>2. OpRecord(op[e])
      BY OpNow
    <2>3. OpRecord(n) /\ n.cmd = op[e].cmd /\ n.path = op[e].path /\ n.st = "cwdsub"
      BY <2>1, <2>2 DEF OpRecord
    <2>4. GoOn(e, n, {}, cwd[e])
      BY <2>1, <1>3
    <2> QED
      BY <1>1, <2>3, <2>4, MkdStepKeepsLocks DEF MkdStates
  <1>4. CASE MkdDone(e, TRUE, cwd[e])
    <2>1. PICK yes \in BOOLEAN : yes = TRUE
      OBVIOUS
    <2> QED
      BY <1>2, <1>4, <2>1
  <1>5. CASE MkdDone(e, FALSE, cwd[e])
    <2>1. PICK no \in BOOLEAN : no = FALSE
      OBVIOUS
    <2> QED
      BY <1>2, <1>5, <2>1
  <1> QED
    BY <1>3, <1>4, <1>5 DEF ParseMkdSub

LEMMA ParseCwdSubKeepsLocks ==
    ASSUME LockInv, NEW e \in Engines, ParseCwdSub(e)
    PROVE  LockInv'
  <1>1. Replied(e, MkdStates)
    BY RepliedMkd DEF ParseCwdSub, MkdStates
  <1>2. ASSUME NEW st \in MkdStates \ {"mkd_init"}, NEW path,
               GoOn(e, [op[e] EXCEPT !.st = st], {}, path)
        PROVE  LockInv'
    <2>1. PICK n : n = [op[e] EXCEPT !.st = st]
      OBVIOUS
    <2>2. OpRecord(n) /\ n.cmd = op[e].cmd /\ n.path = op[e].path /\ n.st = st
      BY <2>1, OpNow, NextState
    <2>3. GoOn(e, n, {}, path)
      BY <2>1, <1>2
    <2> QED
      BY <1>1, <2>2, <2>3, MkdStepKeepsLocks
  <1>3. "mkdsub" \in MkdStates \ {"mkd_init"} /\ "tryfull" \in MkdStates \ {"mkd_init"}
    BY DEF MkdStates
  <1> QED
    BY <1>2, <1>3 DEF ParseCwdSub

LEMMA ParseTryFullKeepsLocks ==
    ASSUME LockInv, NEW e \in Engines, ParseTryFull(e)
    PROVE  LockInv'
  <1>1. Replied(e, MkdStates)
    BY RepliedMkd DEF ParseTryFull, MkdStates
  <1>2. PICK ok : ok = Good(e)
    OBVIOUS
  <1>3. MkdDone(e, ok, cwd[e])
    BY <1>2 DEF ParseTryFull
  <1> QED
    BY <1>1, <1>3, MkdEndKeepsLocks

LEMMA FreshenKeeps ==
    ASSUME NEW o, OpRecord(o), NEW p
    PROVE  LET n == Freshen(o, p)
           IN  /\ OpRecord(n) /\ n.st = o.st
               /\ n.cmd = o.cmd /\ n.path = o.path /\ n.node = o.node /\ n.to = o.to
               /\ n.cur = o.cur /\ n.mkd = o.mkd /\ n.refresh = o.refresh
               /\ (n.fresh => o.fresh \/ (o.st = "list" /\ o.path = p))
  <1>1. PICK b : b = (o.fresh \/ (o.st = "list" /\ o.path = p))
    OBVIOUS
  <1>2. PICK n : n = [o EXCEPT !.fresh = b]
    OBVIOUS
  <1>3. n = Freshen(o, p)
    BY <1>1, <1>2, Zenon DEF Freshen
  <1>4. /\ OpRecord(n) /\ n.st = o.st
        /\ n.cmd = o.cmd /\ n.path = o.path /\ n.node = o.node /\ n.to = o.to
        /\ n.cur = o.cur /\ n.mkd = o.mkd /\ n.refresh = o.refresh /\ n.fresh = b
    BY <1>2 DEF OpRecord
  <1> QED
    BY <1>1, <1>3, <1>4, Zenon

(* Freshen changes nothing that the locks depend on.                       *)
SameOp(a, b) == a.cmd = b.cmd /\ a.st = b.st /\ a.path = b.path /\ a.mkd = b.mkd
                  /\ a.node = b.node /\ a.to = b.to /\ a.cur = b.cur

LEMMA ParseListOps ==
    ASSUME LockInv, NEW e \in Engines, ParseList(e)
    PROVE  /\ op' = [f \in Engines |-> op'[f]]
           /\ \A f \in Engines : OpRecord(op'[f])
           /\ \A f \in Engines \ {e} : SameOp(op'[f], op[f])
           /\ IF op[e].cmd = "list" THEN op'[e] = NoOp
              ELSE op'[e] = [op[e] EXCEPT !.st = "work"]
  <1> DEFINE mine == IF op[e].cmd = "list" THEN NoOp ELSE [op[e] EXCEPT !.st = "work"]
  <1>1. OpRecord(mine)
    BY OpNow, NextState, NoOpFits
  <1>2. CASE op' = [f \in Engines |-> IF f # e THEN Freshen(op[f], cwd[e]) ELSE mine]
    <2>1. \A f \in Engines \ {e} : op'[f] = Freshen(op[f], cwd[e])
      BY <1>2
    <2>2. \A f \in Engines \ {e} : SameOp(op'[f], op[f]) /\ OpRecord(op'[f])
      BY <2>1, OpNow, FreshenKeeps DEF SameOp
    <2> QED
      BY <1>1, <1>2, <2>2
  <1>3. CASE op' = [op EXCEPT ![e] = mine]
    <2>1. op = [f \in Engines |-> op[f]]
      BY DEF LockInv, Records
    <2>2. op' = [f \in Engines |-> IF f # e THEN op[f] ELSE mine]
      BY <1>3, <2>1
    <2> HIDE DEF mine
    <2>3. \A f \in Engines \ {e} : op'[f] = op[f] /\ OpRecord(op'[f])
      BY <2>2, OpNow
    <2>4. op'[e] = mine /\ op' = [f \in Engines |-> op'[f]]
      BY <2>2
    <2> QED
      BY <1>1, <2>3, <2>4 DEF SameOp, mine
  <1> QED
    BY <1>2, <1>3 DEF ParseList


LEMMA ParseListKeepsLocks ==
    ASSUME LockInv, NEW e \in Engines, ParseList(e)
    PROVE  LockInv'
  <1> USE DEF LockInv
  <1>1. /\ loop = NoEngine /\ op[e].st = "list" /\ wire[e].st # "idle"
        /\ wire' = [wire EXCEPT ![e] = Idle] /\ loop' \in {e, NoEngine}
        /\ loop' = NoEngine <=> op[e].cmd = "list"
        /\ held' = held \ LocksOf(e, {"list"}) /\ waiting' = waiting \ LocksOf(e, {"list"})
        /\ cwd' = [cwd EXCEPT ![e] = cwd'[e]]
    BY Nobody DEF ParseList, Replied, ReleaseAll, Records
  <1>2. \A l \in locks' : l \in locks /\ l.owner # e /\ l.owner \in Engines
    BY <1>1, LocksNow DEF LocksOf, locks, LockFits, MkdStates, Owned
  <1>3. \A f \in Engines : f # e => /\ SameOp(op'[f], op[f])
                                    /\ wire'[f] = wire[f] /\ cwd'[f] = cwd[f]
    BY <1>1, ParseListOps DEF Records
  <1>4. wire'[e] = Idle
    BY <1>1 DEF Records
  <1>5. Records'
    BY <1>1, <1>3, <1>4, NoOpFits, ParseListOps DEF Records
  <1>6. Owned'
    BY <1>2, <1>3 DEF Owned, SameOp
  <1>7. Exclusive'
    BY <1>1 DEF Exclusive
  <1>8. WaitersHoldNothing'
    BY <1>1, <1>2, <1>3, Nobody DEF WaitersHoldNothing, locks
  <1>9. op[e].cmd # "none" /\ op[e].cmd # "mkdir"
    BY <1>1, OpNow DEF OpFits, MkdStates
  <1>10. PICK o : o = op'[e]
    OBVIOUS
  <1>11. OpFits(o) /\ o.st \in {"none", "work"} /\ (o.cmd = "none" <=> op[e].cmd = "list")
    <2>1. CASE op[e].cmd = "list"
      BY <1>10, <2>1, NoOpFits, ParseListOps
    <2>2. CASE op[e].cmd # "list"
      <3>1. o.st = "work" /\ o.cmd = op[e].cmd
        <4>1. op'[e] = [op[e] EXCEPT !.st = "work"] /\ OpRecord(op[e])
          BY <2>2, OpNow, ParseListOps
        <4> QED
          BY <1>10, <4>1, NextState
      <3> QED
        BY <3>1, <1>9, <2>2 DEF OpFits
    <2> QED
      BY <2>1, <2>2
  <1>12. IdlersWait'
    <2> SUFFICES ASSUME NEW f \in Engines, op'[f].cmd # "none", loop' # f,
                        wire'[f].st = "idle"
                 PROVE  \E l \in waiting' : l.owner = f
      BY DEF IdlersWait
    <2>1. f # e
      BY <1>1, <1>10, <1>11
    <2>2. PICK l \in waiting : l.owner = f
      BY <1>1, <1>3, <2>1, Nobody DEF IdlersWait, SameOp
    <2> QED
      BY <1>1, <2>1, <2>2 DEF LocksOf
  <1>13. LocksFit'
    BY <1>2, <1>3 DEF LocksFit, LockFits, SameOp
  <1>14. CreatorsHold'
    <2> SUFFICES ASSUME NEW f \in Engines, Creating(f)'
                 PROVE  Holds(f, "cwd")'
      BY DEF CreatorsHold
    <2>1. f # e
      BY <1>10, <1>11 DEF Creating
    <2>2. Creating(f)
      BY <2>1, <1>3 DEF Creating, SameOp
    <2> QED
      BY <2>1, <2>2, <1>1 DEF CreatorsHold, Holds, LocksOf
  <1>15. \A f \in Engines : OpFits(op'[f])
    BY <1>3, <1>10, <1>11 DEF OpFits, SameOp
  <1> QED
    BY <1>1, <1>5, <1>6, <1>7, <1>8, <1>12, <1>13, <1>14, <1>15

LEMMA ParseWorkKeepsLocks ==
    ASSUME LockInv, NEW e \in Engines, ParseWork(e)
    PROVE  LockInv'
  <1>1. /\ loop = NoEngine /\ op[e].st \in {"rnfr", "work"} /\ wire[e].st # "idle"
        /\ Puts(e, Idle) /\ Idle.st = "idle"
    BY RepliedPuts DEF ParseWork
  <1>2. ASSUME NEW ok, End(e, ok, cwd[e]) PROVE LockInv'
    BY <1>1, <1>2, EndKeepsLocks
  <1>3. CASE GoOn(e, [op[e] EXCEPT !.st = "work"], {}, cwd[e])
    <2>1. PICK n : n = [op[e] EXCEPT !.st = "work"]
      OBVIOUS
    <2>2. OpRecord(n) /\ n.cmd = op[e].cmd /\ n.st = "work"
      BY <2>1, OpNow, NextState
    <2>3. OpFits(n) /\ n.cmd # "none"
      BY <1>1, <2>2, OpNow DEF OpFits, MkdStates
    <2>4. \A l \in locks : l.owner # e
      BY <1>1, LocksNow DEF LockFits, MkdStates
    <2>5. GoOn(e, n, {}, cwd[e])
      BY <2>1, <1>3
    <2> QED
      BY <1>1, <2>2, <2>3, <2>4, <2>5, GoOnKeepsLocks
  <1>4. CASE End(e, FALSE, cwd[e])
    <2>1. PICK no \in BOOLEAN : no = FALSE
      OBVIOUS
    <2> QED
      BY <1>2, <1>4, <2>1
  <1>5. CASE End(e, Good(e), cwd[e])
    <2>1. PICK ok : ok = Good(e)
      OBVIOUS
    <2> QED
      BY <1>2, <1>5, <2>1
  <1> QED
    BY <1>3, <1>4, <1>5 DEF ParseWork

LEMMA OnObtainLockKeepsLocks ==
    ASSUME LockInv, NEW e \in Engines, OnObtainLock(e)
    PROVE  LockInv'
  <1> USE DEF LockInv
  <1> DEFINE G == {l \in waiting : l.owner = e /\ ~Blocked(l)}
  <1>1. /\ loop = NoEngine /\ loop' = e /\ UNCHANGED <<cwd, op, wire>>
        /\ held' = held \cup G /\ waiting' = waiting \ G /\ G # {}
    BY DEF OnObtainLock, Grant
  <1>2. PICK g \in waiting : g.owner = e /\ ~Blocked(g)
    BY <1>1
  <1>3. G = {g}
    BY <1>2 DEF WaitersHoldNothing
  <1> HIDE DEF G
  <1>4. held' = held \cup {g} /\ waiting' = waiting \ {g} /\ locks' = locks
    BY <1>1, <1>2, <1>3 DEF locks
  <1>5. Records' /\ Owned' /\ LocksFit'
    BY <1>1, <1>4 DEF Records, Owned, LocksFit
  <1>6. Exclusive'
    BY <1>2, <1>4 DEF Exclusive, Blocked, SameLock
  <1>7. WaitersHoldNothing'
    BY <1>1, <1>2, <1>4 DEF WaitersHoldNothing
  <1>8. IdlersWait'
    BY <1>1, <1>2, <1>4, Nobody DEF IdlersWait
  <1>9. CreatorsHold'
    BY <1>1, <1>4 DEF CreatorsHold, Creating, Holds
  <1> QED
    BY <1>1, <1>5, <1>6, <1>7, <1>8, <1>9

LEMMA OnInvalidateCwdKeepsLocks ==
    ASSUME LockInv, NEW e \in Engines, OnInvalidateCwd(e)
    PROVE  LockInv'
  <1> USE DEF LockInv
  <1>1. /\ UNCHANGED <<op, wire, loop, held, waiting>>
        /\ cwd' = [cwd EXCEPT ![e] = cwd'[e]]
        /\ op[e].cmd # "none" => UNCHANGED cwd
    BY DEF OnInvalidateCwd, Records
  <1>2. \A l \in locks : l.owner \in Engines /\ cwd'[l.owner] = cwd[l.owner]
    BY <1>1 DEF Owned, Records
  <1>3. LocksFit'
    BY <1>1, <1>2 DEF LocksFit, locks
  <1> QED
    BY <1>1, <1>3 DEF Records, Owned, Exclusive, WaitersHoldNothing, IdlersWait,
                      CreatorsHold, Creating, Holds, locks

LEMMA InterruptKeepsLocks ==
    ASSUME LockInv, NEW e \in Engines, Cancel(e) \/ Disconnected(e)
    PROVE  LockInv'
  <1>1. ASSUME NEW path, NEW w, Interrupted(e, path), Puts(e, w) PROVE LockInv'
    <2>1. PICK yes \in BOOLEAN : yes = TRUE
      OBVIOUS
    <2>2. End(e, yes, path) /\ loop = NoEngine
      BY <1>1, <2>1 DEF Interrupted
    <2> QED
      BY <1>1, <2>2, EndKeepsLocks
  <1>2. CASE Disconnected(e)
    BY <1>1, <1>2, NoOpFits DEF Disconnected, Puts
  <1>3. CASE Cancel(e)
    <2>1. CASE wire' = wire
      BY <1>1, <1>3, <2>1, WireNow DEF Cancel
    <2>2. CASE wire' = [wire EXCEPT ![e].skip = TRUE]
      <3>1. PICK yes \in BOOLEAN : yes = TRUE
        OBVIOUS
      <3>2. PICK w : w = [wire[e] EXCEPT !.skip = yes]
        OBVIOUS
      <3>3. WireRecord(wire[e])
        BY WireNow
      <3>4. WireRecord(w)
        BY <3>2, <3>3 DEF WireRecord
      <3>5. wire' = [wire EXCEPT ![e] = w]
        BY <2>2, <3>1, <3>2
      <3> QED
        BY <1>1, <1>3, <3>4, <3>5 DEF Cancel, Puts
    <2> QED
      BY <1>3, <2>1, <2>2 DEF Cancel
  <1> QED
    BY <1>2, <1>3

LEMMA ServerPuts ==
    ASSUME LockInv, NEW e \in Engines, ServerExecutes(e)
    PROVE  \E w : /\ Puts(e, w) /\ w.st = "done" /\ w.verb = wire[e].verb
                  /\ w.arg = wire[e].arg /\ w.to = wire[e].to /\ w.skip = wire[e].skip
                  /\ w.reply \in {Outcome(wire[e]), "fail"}
                  /\ w.names = IF wire[e].verb = "LIST" /\ w.reply = "ok"
                               THEN Children(tree, wire[e].arg) ELSE {}
                  /\ tree' = IF w.reply = "ok" THEN TreeAfter(w) ELSE tree
                  /\ missed' = IF w.skip THEN missed \cup Changed(w) ELSE missed
  <1>1. PICK reply \in {Outcome(wire[e]), "fail"} :
            LET w == [wire[e] EXCEPT !.st = "done", !.reply = reply,
                                     !.names = IF wire[e].verb = "LIST" /\ reply = "ok"
                                               THEN Children(tree, wire[e].arg) ELSE {}]
            IN  /\ wire' = [wire EXCEPT ![e] = w]
                /\ tree' = IF reply = "ok" THEN TreeAfter(w) ELSE tree
                /\ missed' = IF w.skip THEN missed \cup Changed(w) ELSE missed
    BY DEF ServerExecutes
  <1>2. PICK names : names = IF wire[e].verb = "LIST" /\ reply = "ok"
                             THEN Children(tree, wire[e].arg) ELSE {}
    OBVIOUS
  <1>3. PICK w : w = [wire[e] EXCEPT !.st = "done", !.reply = reply, !.names = names]
    OBVIOUS
  <1>4. WireRecord(wire[e])
    BY WireNow
  <1>5. /\ WireRecord(w) /\ w.st = "done" /\ w.verb = wire[e].verb /\ w.names = names
        /\ w.arg = wire[e].arg /\ w.to = wire[e].to /\ w.skip = wire[e].skip
        /\ w.reply = reply
    BY <1>3, <1>4 DEF WireRecord
  <1>6. /\ wire' = [wire EXCEPT ![e] = w]
        /\ tree' = IF reply = "ok" THEN TreeAfter(w) ELSE tree
        /\ missed' = IF w.skip THEN missed \cup Changed(w) ELSE missed
    BY <1>1, <1>2, <1>3
  <1> QED
    BY <1>1, <1>2, <1>5, <1>6 DEF Puts

LEMMA ServerKeepsLocks ==
    ASSUME LockInv, NEW e \in Engines, ServerExecutes(e)
    PROVE  LockInv'
  <1> USE DEF LockInv
  <1>1. /\ UNCHANGED <<held, waiting, cwd, op, loop>> /\ wire[e].st = "sent"
        /\ locks' = locks
    BY DEF ServerExecutes, locks
  <1>2. PICK w : Puts(e, w) /\ w.st = "done"
    BY ServerPuts
  <1>3. \A f \in Engines : f # e => wire'[f] = wire[f]
    BY <1>2 DEF Records, Puts
  <1>4. wire'[e] = w
    BY <1>2 DEF Records, Puts
  <1>5. Records'
    BY <1>1, <1>2, <1>3, <1>4 DEF Records, Puts
  <1>6. Owned' /\ Exclusive' /\ LocksFit'
    BY <1>1 DEF Owned, Exclusive, LocksFit
  <1>7. WaitersHoldNothing'
    <2>1. \A l \in waiting : l.owner \in Engines /\ l.owner # e
      BY <1>1 DEF WaitersHoldNothing, Owned, locks
    <2> QED
      BY <1>1, <1>3, <2>1 DEF WaitersHoldNothing
  <1>8. IdlersWait'
    BY <1>1, <1>2, <1>3, <1>4 DEF IdlersWait
  <1>9. CreatorsHold'
    <2> SUFFICES ASSUME NEW f \in Engines, Creating(f)'
                 PROVE  Holds(f, "cwd")
      BY <1>1 DEF CreatorsHold, Holds
    <2>1. Creating(f)
      BY <1>1, <1>2, <1>3, <1>4 DEF Creating
    <2> QED
      BY <2>1 DEF CreatorsHold
  <1> QED
    BY <1>1, <1>5, <1>6, <1>7, <1>8, <1>9

-----------------------------------------------------------------------------
LEMMA LocksInitially == ASSUME Init PROVE LockInv
  <1>1. \A e \in Engines : op[e] = NoOp /\ wire[e] = Idle /\ cwd[e] = NoPath
    BY DEF Init
  <1>2. Records
    BY <1>1, NoOpFits DEF Init, Records
  <1>3. held = {} /\ waiting = {} /\ locks = {} /\ loop = NoEngine
    BY DEF Init, LocksInit, locks
  <1>4. CreatorsHold /\ IdlersWait
    BY <1>1, NoOpFits DEF CreatorsHold, Creating, IdlersWait
  <1> QED
    BY <1>1, <1>2, <1>3, <1>4, NoOpFits
       DEF LockInv, Owned, Exclusive, WaitersHoldNothing, LocksFit

LEMMA LocksStep == ASSUME LockInv, [Next]_vars PROVE LockInv'
  <1>1. ASSUME NEW e \in Engines, Send(e) PROVE LockInv'
    BY <1>1, AwaitRepliesKeepsLocks, CwdInitKeepsLocks, CwdSendKeepsLocks,
       MkdLockKeepsLocks, MkdInitKeepsLocks, MkdSendKeepsLocks, ListSendKeepsLocks,
       WorkSendKeepsLocks DEF Send
  <1>2. ASSUME NEW e \in Engines, ParseResponse(e) PROVE LockInv'
    BY <1>2, SkipReplyKeepsLocks, ParseCwdKeepsLocks, ParseFindParentKeepsLocks,
       ParseMkdSubKeepsLocks, ParseCwdSubKeepsLocks, ParseTryFullKeepsLocks,
       ParseListKeepsLocks, ParseWorkKeepsLocks DEF ParseResponse
  <1>3. ASSUME NEW e \in Engines, Handler(e) PROVE LockInv'
    BY <1>1, <1>2, <1>3, OnObtainLockKeepsLocks, OnInvalidateCwdKeepsLocks DEF Handler
  <1>4. CASE OthersChange \/ UNCHANGED vars
    BY <1>4, StutterKeepsLocks DEF OthersChange, vars
  <1> QED
    BY <1>3, <1>4, CommandKeepsLocks, InterruptKeepsLocks, ServerKeepsLocks DEF Next

(* Nobody waits for ever.  Whoever has a command, and neither runs nor     *)
(* awaits a reply, waits for a lock; the lock that keeps it waiting belongs*)
(* to an engine that has a command too, and would have to be waiting as    *)
(* well; but who waits holds no lock.                                      *)
THEOREM NoCommandIsStuck == Spec => []NobodyStuck
  <1>1. LockInv => NobodyStuck
    <2> SUFFICES ASSUME LockInv, loop = NoEngine,
                        \A f \in Engines : wire[f].st = "idle",
                        \A l \in waiting : Blocked(l),
                        NEW e \in Engines, op[e].cmd # "none"
                 PROVE  FALSE
      BY DEF NobodyStuck
    <2>1. \A f \in Engines : op[f].cmd # "none" => \E l \in waiting : l.owner = f
      BY Nobody DEF LockInv, IdlersWait
    <2>2. PICK l \in waiting : l.owner = e
      BY <2>1
    <2>3. PICK h \in held : h.owner # e
      BY <2>2 DEF Blocked
    <2>4. h.owner \in Engines /\ op[h.owner].cmd # "none"
      BY DEF LockInv, Owned, locks
    <2>5. PICK m \in waiting : m.owner = h.owner
      BY <2>1, <2>4
    <2> QED
      BY <2>5 DEF LockInv, WaitersHoldNothing
  <1> QED
    BY <1>1, LocksInitially, LocksStep, PTL DEF Spec


-----------------------------------------------------------------------------
(* The directory cache.  Only Store makes a listing sure; every other      *)
(* member function leaves sure listings as they are, marks or erases them. *)

IsCache(c) ==
    /\ c = [dir |-> c.dir, lru |-> c.lru, count |-> c.count]
    /\ \A p \in DOMAIN c.dir : c.dir[p] = [names |-> c.dir[p].names, sure |-> c.dir[p].sure]

Sure(c, p) == p \in DOMAIN c.dir /\ c.dir[p].sure

Weaker(d, c) ==
    /\ IsCache(d) /\ DOMAIN d.dir \subseteq DOMAIN c.dir
    /\ \A p : Sure(d, p) => Sure(c, p) /\ d.dir[p].names = c.dir[p].names

LEMMA WeakerTransitive ==
    ASSUME NEW a, NEW b, NEW c, Weaker(a, b), Weaker(b, c)
    PROVE  Weaker(a, c)
  BY DEF Weaker

LEMMA WeakerReflexive == ASSUME NEW c, IsCache(c) PROVE Weaker(c, c)
  BY DEF Weaker

LEMMA EmptyIsCache ==
    IsCache(EmptyCache) /\ DOMAIN EmptyCache.dir = {}
  BY DEF IsCache, EmptyCache

LEMMA LookupWeakens ==
    ASSUME NEW c, IsCache(c), NEW p
    PROVE  IsCache(Lookup(c, p)) /\ Lookup(c, p).dir = c.dir /\ Weaker(Lookup(c, p), c)
  <1>1. PICK lru : lru = Append(Remove(c.lru, p), p)
    OBVIOUS
  <1>2. PICK d : d = [c EXCEPT !.lru = lru]
    OBVIOUS
  <1>3. IsCache(d) /\ d.dir = c.dir
    BY <1>2 DEF IsCache
  <1>4. Lookup(c, p) = d \/ Lookup(c, p) = c
    BY <1>1, <1>2 DEF Lookup, UpdateLru
  <1> QED
    BY <1>3, <1>4 DEF Weaker, Sure

LEMMA SetListingEffect ==
    ASSUME NEW c, IsCache(c), NEW p, NEW names, NEW sure \in BOOLEAN
    PROVE  LET d == SetListing(c, p, names, sure)
           IN  /\ IsCache(d) /\ DOMAIN d.dir = DOMAIN c.dir
               /\ \A q \in DOMAIN c.dir : q # p => d.dir[q] = c.dir[q]
               /\ p \in DOMAIN c.dir => d.dir[p] = [names |-> names, sure |-> sure]
  <1>1. PICK lru : lru = Append(Remove(c.lru, p), p)
    OBVIOUS
  <1>2. PICK r : r = [names |-> names, sure |-> sure]
    OBVIOUS
  <1>3. PICK b : b = [c EXCEPT !.lru = lru]
    OBVIOUS
  <1>4. IsCache(b) /\ b.dir = c.dir
    BY <1>3 DEF IsCache
  <1>5. PICK d : d = [b EXCEPT !.dir[p] = r]
    OBVIOUS
  <1>6. d.dir = [b.dir EXCEPT ![p] = r] /\ d = [dir |-> d.dir, lru |-> d.lru, count |-> d.count]
    BY <1>4, <1>5 DEF IsCache
  <1>7. /\ DOMAIN d.dir = DOMAIN c.dir
        /\ \A q \in DOMAIN c.dir : q # p => d.dir[q] = c.dir[q]
        /\ p \in DOMAIN c.dir => d.dir[p] = r
    BY <1>4, <1>6
  <1>8. IsCache(d)
    BY <1>2, <1>4, <1>6, <1>7 DEF IsCache
  <1>9. SetListing(c, p, names, sure) = d
    BY <1>1, <1>2, <1>3, <1>5 DEF SetListing, UpdateLru
  <1> QED
    BY <1>2, <1>7, <1>8, <1>9

LEMMA CountOnly ==
    ASSUME NEW c, IsCache(c), NEW n
    PROVE  IsCache([c EXCEPT !.count = n]) /\ [c EXCEPT !.count = n].dir = c.dir
  BY DEF IsCache

(* A listing that UpdateFile or RemoveFile changes is not sure any more.   *)
Marked(c, p, names, n) == [SetListing(c, p, names, FALSE) EXCEPT !.count = n]

LEMMA UnsureWeakens ==
    ASSUME NEW c, IsCache(c), NEW p, Cached(c, p), NEW names, NEW n
    PROVE  LET d == Marked(c, p, names, n)
           IN  Weaker(d, c) /\ ~Sure(d, p) /\ DOMAIN d.dir = DOMAIN c.dir
               /\ d.dir[p].names = names
  <1>1. PICK no \in BOOLEAN : no = FALSE
    OBVIOUS
  <1>2. PICK b : b = SetListing(c, p, names, no)
    OBVIOUS
  <1>3. /\ IsCache(b) /\ DOMAIN b.dir = DOMAIN c.dir
        /\ \A q \in DOMAIN c.dir : q # p => b.dir[q] = c.dir[q]
        /\ b.dir[p] = [names |-> names, sure |-> no]
    BY <1>1, <1>2, SetListingEffect DEF Cached
  <1>4. PICK d : d = [b EXCEPT !.count = n]
    OBVIOUS
  <1>5. IsCache(d) /\ d.dir = b.dir
    BY <1>3, <1>4, CountOnly
  <1>6. ~Sure(d, p) /\ d.dir[p].names = names
    BY <1>1, <1>3, <1>5 DEF Sure
  <1>7. Weaker(d, c)
    BY <1>3, <1>5, <1>6 DEF Weaker, Sure
  <1>8. Marked(c, p, names, n) = d
    BY <1>1, <1>2, <1>4 DEF Marked
  <1> QED
    BY <1>3, <1>5, <1>6, <1>7, <1>8

LEMMA UpdateFileWeakens ==
    ASSUME NEW c, IsCache(c), NEW p, NEW name, NEW mayCreate
    PROVE  Weaker(UpdateFile(c, p, name, mayCreate), c)
             /\ ~Sure(UpdateFile(c, p, name, mayCreate), p)
  <1>1. CASE ~Cached(c, p)
    BY <1>1, WeakerReflexive DEF UpdateFile, Sure, Cached
  <1>2. CASE Cached(c, p) /\ mayCreate /\ name \notin c.dir[p].names
    <2>1. PICK b : b = SetListing(c, p, c.dir[p].names \cup {name}, FALSE)
      OBVIOUS
    <2>2. UpdateFile(c, p, name, mayCreate)
            = Marked(c, p, c.dir[p].names \cup {name}, b.count + 1)
      BY <1>2, <2>1 DEF UpdateFile, Marked
    <2>3. Cached(c, p)
      BY <1>2
    <2> QED
      BY <2>2, <2>3, UnsureWeakens
  <1>3. CASE Cached(c, p) /\ ~(mayCreate /\ name \notin c.dir[p].names)
    <2>1. PICK b : b = SetListing(c, p, c.dir[p].names, FALSE)
      OBVIOUS
    <2>2. PICK no \in BOOLEAN : no = FALSE
      OBVIOUS
    <2>3. IsCache(b)
      BY <2>1, <2>2, SetListingEffect
    <2>4. b = [b EXCEPT !.count = b.count]
      BY <2>3 DEF IsCache
    <2>5. UpdateFile(c, p, name, mayCreate) = Marked(c, p, c.dir[p].names, b.count)
      BY <1>3, <2>1, <2>4 DEF UpdateFile, Marked
    <2>6. Cached(c, p)
      BY <1>3
    <2> QED
      BY <2>5, <2>6, UnsureWeakens
  <1> QED
    BY <1>1, <1>2, <1>3

LEMMA RemoveFileWeakens ==
    ASSUME NEW c, IsCache(c), NEW p, NEW name
    PROVE  /\ Weaker(RemoveFile(c, p, name), c) /\ ~Sure(RemoveFile(c, p, name), p)
           /\ DOMAIN RemoveFile(c, p, name).dir = DOMAIN c.dir
           /\ Cached(c, p) => RemoveFile(c, p, name).dir[p].names = c.dir[p].names \ {name}
  <1>1. CASE ~Cached(c, p)
    BY <1>1, WeakerReflexive DEF RemoveFile, Sure, Cached
  <1>2. CASE Cached(c, p)
    <2>1. PICK b : b = SetListing(c, p, c.dir[p].names \ {name}, FALSE)
      OBVIOUS
    <2>2. PICK n : n = IF name \in c.dir[p].names THEN b.count - 1 ELSE b.count
      OBVIOUS
    <2>3. RemoveFile(c, p, name) = Marked(c, p, c.dir[p].names \ {name}, n)
      BY <1>2, <2>1, <2>2 DEF RemoveFile, Marked
    <2> QED
      BY <1>2, <2>3, UnsureWeakens
  <1> QED
    BY <1>1, <1>2

LEMMA EraseWeakens ==
    ASSUME NEW c, IsCache(c), NEW P
    PROVE  /\ Weaker(Erase(c, P), c) /\ DOMAIN Erase(c, P).dir = DOMAIN c.dir \ P
           /\ \A p \in DOMAIN c.dir \ P : Erase(c, P).dir[p] = c.dir[p]
  <1>1. PICK lru : lru = SelectSeq(c.lru, LAMBDA p : p \notin P)
    OBVIOUS
  <1>2. PICK n : n = c.count - SumFunction([p \in P \cap DOMAIN c.dir |-> Size(c, p)])
    OBVIOUS
  <1>3. PICK dir : dir = [p \in DOMAIN c.dir \ P |-> c.dir[p]]
    OBVIOUS
  <1>4. PICK d : d = [dir |-> dir, lru |-> lru, count |-> n]
    OBVIOUS
  <1>5. Erase(c, P) = d
    BY <1>1, <1>2, <1>3, <1>4 DEF Erase, Restrict
  <1>6. /\ DOMAIN d.dir = DOMAIN c.dir \ P
        /\ \A p \in DOMAIN c.dir \ P : d.dir[p] = c.dir[p]
    BY <1>3, <1>4
  <1>7. IsCache(d)
    BY <1>4, <1>6 DEF IsCache
  <1> QED
    BY <1>5, <1>6, <1>7 DEF Weaker, Sure

LEMMA PruneWeakens == ASSUME NEW c, IsCache(c) PROVE Weaker(Prune(c), c)
  <1>1. \E k : Prune(c) = Erase(c, {c.lru[i] : i \in 1 .. k})
    BY DEF Prune
  <1> QED
    BY <1>1, EraseWeakens

(* Store makes one listing sure, and that is what was stored.              *)
LEMMA StoreEffect ==
    ASSUME NEW c, IsCache(c), NEW p, NEW names
    PROVE  LET d == Store(c, p, names)
           IN  /\ IsCache(d) /\ DOMAIN d.dir \subseteq DOMAIN c.dir \cup {p}
               /\ \A q : Sure(d, q) => IF q = p THEN d.dir[q].names = names
                                       ELSE Sure(c, q) /\ d.dir[q].names = c.dir[q].names
  <1>1. PICK yes \in BOOLEAN : yes = TRUE
    OBVIOUS
  <1>2. CASE Cached(c, p)
    <2>1. PICK b : b = SetListing(c, p, names, yes)
      OBVIOUS
    <2>2. PICK n : n = b.count + Cardinality(names) - Size(c, p)
      OBVIOUS
    <2>3. PICK d : d = [b EXCEPT !.count = n]
      OBVIOUS
    <2>4. Store(c, p, names) = d
      BY <1>1, <1>2, <2>1, <2>2, <2>3 DEF Store
    <2>5. /\ IsCache(b) /\ DOMAIN b.dir = DOMAIN c.dir
          /\ \A q \in DOMAIN c.dir : q # p => b.dir[q] = c.dir[q]
          /\ b.dir[p] = [names |-> names, sure |-> yes]
      BY <1>2, <2>1, SetListingEffect DEF Cached
    <2>6. IsCache(d) /\ d.dir = b.dir
      BY <2>3, <2>5, CountOnly
    <2>7. d.dir[p].names = names
      BY <2>5, <2>6
    <2> QED
      BY <1>2, <2>4, <2>5, <2>6, <2>7 DEF Sure
  <1>3. CASE ~Cached(c, p)
    <2>1. PICK dir : dir = WithListing(c, p, names)
      OBVIOUS
    <2>2. /\ DOMAIN dir = DOMAIN c.dir \cup {p}
          /\ \A q \in DOMAIN c.dir : q # p => dir[q] = c.dir[q]
          /\ dir[p] = [names |-> names, sure |-> yes]
      BY <1>1, <2>1 DEF WithListing
    <2>3. PICK b : b = [dir |-> dir, lru |-> Append(c.lru, p),
                        count |-> c.count + Cardinality(names)]
      OBVIOUS
    <2>4. b = [dir |-> b.dir, lru |-> b.lru, count |-> b.count] /\ b.dir = dir
      BY <2>3
    <2>5. IsCache(b)
      BY <2>2, <2>4, <1>3 DEF IsCache, Cached
    <2>6. Store(c, p, names) = Prune(b)
      BY <1>1, <1>3, <2>1, <2>3 DEF Store
    <2>7. Weaker(Prune(b), b)
      BY <2>5, PruneWeakens
    <2>8. b.dir[p].names = names
      BY <2>2, <2>4
    <2> QED
      BY <1>3, <2>2, <2>4, <2>6, <2>7, <2>8 DEF Weaker, Sure, Cached
  <1> QED
    BY <1>2, <1>3

LEMMA InvalidateFileWeakens ==
    ASSUME NEW c, IsCache(c), NEW p, NEW name
    PROVE  Weaker(InvalidateFile(c, p, name), c)
  <1>1. PICK marked :
            marked = {q \in DOMAIN c.dir :
                        q = p \/ ((Cached(c, p) /\ name \in c.dir[p].names \cap DirNames)
                                  /\ Below(p, q))}
    OBVIOUS
  <1>2. PICK no \in BOOLEAN : no = FALSE
    OBVIOUS
  <1>3. PICK b : b = Lookup(c, p)
    OBVIOUS
  <1>4. PICK dir : dir = [q \in DOMAIN c.dir |->
                            IF q \in marked THEN [c.dir[q] EXCEPT !.sure = no] ELSE c.dir[q]]
    OBVIOUS
  <1>5. PICK d : d = [b EXCEPT !.dir = dir]
    OBVIOUS
  <1>6. InvalidateFile(c, p, name) = d
    BY <1>1, <1>2, <1>3, <1>4, <1>5 DEF InvalidateFile
  <1>7. IsCache(b)
    BY <1>3, LookupWeakens
  <1>8. d.dir = dir /\ d = [dir |-> d.dir, lru |-> d.lru, count |-> d.count]
    BY <1>5, <1>7 DEF IsCache
  <1>9. ASSUME NEW q \in DOMAIN c.dir
        PROVE  /\ d.dir[q] = [names |-> d.dir[q].names, sure |-> d.dir[q].sure]
               /\ d.dir[q].sure => d.dir[q] = c.dir[q]
    <2>1. c.dir[q] = [names |-> c.dir[q].names, sure |-> c.dir[q].sure]
      BY DEF IsCache
    <2>2. CASE q \in marked
      <3>1. d.dir[q] = [names |-> c.dir[q].names, sure |-> no]
        BY <1>4, <1>8, <2>1, <2>2
      <3> QED
        BY <1>2, <3>1
    <2>3. CASE q \notin marked
      BY <1>4, <1>8, <2>1, <2>3
    <2> QED
      BY <2>2, <2>3
  <1>10. DOMAIN d.dir = DOMAIN c.dir
    BY <1>4, <1>8
  <1>11. IsCache(d)
    BY <1>8, <1>9, <1>10 DEF IsCache
  <1>12. Weaker(d, c)
    BY <1>9, <1>10, <1>11 DEF Weaker, Sure
  <1> QED
    BY <1>6, <1>12

LEMMA RemoveDirWeakens ==
    ASSUME NEW c, IsCache(c), NEW p, NEW name
    PROVE  LET d == RemoveDir(c, p, name)
               child == Append(p, name)
           IN  /\ Weaker(d, c) /\ ~Sure(d, p)
               /\ \A q \in DOMAIN d.dir : q # child /\ ~Below(child, q)
  <1>1. PICK P : P = {q \in DOMAIN c.dir : q = Append(p, name) \/ Below(Append(p, name), q)}
    OBVIOUS
  <1>2. PICK b : b = Erase(c, P)
    OBVIOUS
  <1>3. Weaker(b, c) /\ DOMAIN b.dir = DOMAIN c.dir \ P /\ IsCache(b)
    BY <1>2, EraseWeakens DEF Weaker
  <1>4. PICK d : d = RemoveFile(b, p, name)
    OBVIOUS
  <1>5. RemoveDir(c, p, name) = d
    BY <1>1, <1>2, <1>4 DEF RemoveDir
  <1>6. Weaker(d, b) /\ ~Sure(d, p) /\ DOMAIN d.dir = DOMAIN b.dir
    BY <1>3, <1>4, RemoveFileWeakens
  <1>7. Weaker(d, c)
    BY <1>3, <1>6, WeakerTransitive
  <1>8. \A q \in DOMAIN d.dir : q # Append(p, name) /\ ~Below(Append(p, name), q)
    BY <1>1, <1>3, <1>6
  <1> QED
    BY <1>5, <1>6, <1>7, <1>8

LEMMA RenameEntryWeakens ==
    ASSUME NEW c, IsCache(c), NEW p, Cached(c, p), NEW from, NEW to
    PROVE  Weaker(RenameEntry(c, p, from, to), c) /\ ~Sure(RenameEntry(c, p, from, to), p)
  <1>1. PICK no \in BOOLEAN : no = FALSE
    OBVIOUS
  <1>2. PICK r : r = [names |-> (c.dir[p].names \ {from}) \cup {to}, sure |-> no]
    OBVIOUS
  <1>3. PICK d : d = [c EXCEPT !.dir[p] = r]
    OBVIOUS
  <1>4. RenameEntry(c, p, from, to) = d
    BY <1>1, <1>2, <1>3 DEF RenameEntry
  <1>5. d.dir = [c.dir EXCEPT ![p] = r] /\ d = [dir |-> d.dir, lru |-> d.lru, count |-> d.count]
    BY <1>3 DEF IsCache
  <1>6. /\ DOMAIN d.dir = DOMAIN c.dir /\ d.dir[p] = r
        /\ \A q \in DOMAIN c.dir : q # p => d.dir[q] = c.dir[q]
    BY <1>5 DEF Cached
  <1>7. r = [names |-> r.names, sure |-> r.sure] /\ ~r.sure
    BY <1>1, <1>2
  <1>8. IsCache(d)
    BY <1>5, <1>6, <1>7 DEF IsCache
  <1>9. ~Sure(d, p)
    BY <1>6, <1>7 DEF Sure
  <1>10. Weaker(d, c)
    BY <1>6, <1>8, <1>9 DEF Weaker, Sure
  <1> QED
    BY <1>4, <1>9, <1>10

(* What is left of the listings that a renaming concerns.  Those at or     *)
(* below the new name go only if it is in the same directory.              *)
Renamed(d, p, from, q, to) ==
    /\ ~Sure(d, p) /\ ~Sure(d, q)
    /\ from \in DirNames =>
         \A r \in DOMAIN d.dir :
            /\ r # Append(p, from) /\ ~Below(Append(p, from), r)
            /\ p = q => r # Append(p, to) /\ ~Below(Append(p, to), r)

LEMMA RenameWeakens ==
    ASSUME NEW c, IsCache(c), NEW p, NEW from, NEW q, NEW to, p # q \/ from # to
    PROVE  LET d == Rename(c, p, from, q, to)
           IN  /\ Weaker(d, c)
               /\ \/ Cached(c, p) /\ from \notin c.dir[p].names
                  \/ Renamed(d, p, from, q, to)
  <1>1. PICK d : d = IF p = q THEN RemoveFile(c, p, to) ELSE Lookup(c, p)
    OBVIOUS
  <1>2. /\ Weaker(d, c) /\ IsCache(d) /\ DOMAIN d.dir = DOMAIN c.dir
        /\ Cached(c, p) => (from \in d.dir[p].names <=> from \in c.dir[p].names)
        /\ p = q => ~Sure(d, p)
    <2>1. CASE p = q
      BY <1>1, <2>1, RemoveFileWeakens DEF Weaker
    <2>2. CASE p # q
      BY <1>1, <2>2, LookupWeakens
    <2> QED
      BY <2>1, <2>2
  <1>3. CASE ~Cached(c, p)
    <2>1. Rename(c, p, from, q, to) = EmptyCache
      BY <1>3 DEF Rename, InvalidateServer
    <2>2. Weaker(EmptyCache, c) /\ Renamed(EmptyCache, p, from, q, to)
      BY EmptyIsCache DEF Weaker, Renamed, Sure
    <2> QED
      BY <2>1, <2>2
  <1>4. CASE Cached(c, p) /\ from \notin d.dir[p].names
    <2>1. Rename(c, p, from, q, to) = d
      BY <1>1, <1>4 DEF Rename
    <2> QED
      BY <1>2, <1>4, <2>1
  <1>5. CASE Cached(c, p) /\ from \in d.dir[p].names /\ from \in DirNames
    <2>1. PICK r : r = RemoveDir(d, p, from)
      OBVIOUS
    <2>2. /\ Weaker(r, d) /\ IsCache(r) /\ ~Sure(r, p)
          /\ \A s \in DOMAIN r.dir : s # Append(p, from) /\ ~Below(Append(p, from), s)
      BY <1>2, <2>1, RemoveDirWeakens DEF Weaker
    <2>3. PICK t : t = IF p = q THEN RemoveDir(r, p, to) ELSE r
      OBVIOUS
    <2>4. /\ Weaker(t, r) /\ IsCache(t)
          /\ p = q => \A s \in DOMAIN t.dir : s # Append(p, to) /\ ~Below(Append(p, to), s)
      <3>1. CASE p = q
        BY <2>2, <2>3, <3>1, RemoveDirWeakens DEF Weaker
      <3>2. CASE p # q
        BY <2>2, <2>3, <3>2, WeakerReflexive
      <3> QED
        BY <3>1, <3>2
    <2>5. PICK yes \in BOOLEAN : yes = TRUE
      OBVIOUS
    <2>6. PICK u : u = UpdateFile(t, q, to, yes)
      OBVIOUS
    <2>7. Weaker(u, t) /\ ~Sure(u, q)
      BY <2>4, <2>6, UpdateFileWeakens
    <2>8. Rename(c, p, from, q, to) = u
      BY <1>1, <1>5, <2>1, <2>3, <2>5, <2>6 DEF Rename
    <2>9. Weaker(u, r) /\ Weaker(u, c)
      BY <1>2, <2>2, <2>4, <2>7, WeakerTransitive
    <2>10. Renamed(u, p, from, q, to)
      BY <2>2, <2>4, <2>7, <2>9 DEF Renamed, Weaker
    <2> QED
      BY <2>8, <2>9, <2>10
  <1>6. CASE Cached(c, p) /\ from \in d.dir[p].names /\ from \notin DirNames /\ p = q
    <2>1. Rename(c, p, from, q, to) = RenameEntry(d, p, from, to)
      BY <1>1, <1>6 DEF Rename
    <2>2. Cached(d, p)
      BY <1>2, <1>6 DEF Cached
    <2>3. Weaker(RenameEntry(d, p, from, to), d) /\ ~Sure(RenameEntry(d, p, from, to), p)
      BY <1>2, <2>2, RenameEntryWeakens
    <2> QED
      BY <1>2, <1>6, <2>1, <2>3, WeakerTransitive DEF Renamed
  <1>7. CASE Cached(c, p) /\ from \in d.dir[p].names /\ from \notin DirNames /\ p # q
    <2>1. PICK r : r = RemoveFile(d, p, from)
      OBVIOUS
    <2>2. Weaker(r, d) /\ IsCache(r) /\ ~Sure(r, p)
      BY <1>2, <2>1, RemoveFileWeakens DEF Weaker
    <2>3. PICK yes \in BOOLEAN : yes = TRUE
      OBVIOUS
    <2>4. PICK u : u = UpdateFile(r, q, to, yes)
      OBVIOUS
    <2>5. Weaker(u, r) /\ ~Sure(u, q)
      BY <2>2, <2>4, UpdateFileWeakens
    <2>6. Rename(c, p, from, q, to) = u
      BY <1>1, <1>7, <2>1, <2>3, <2>4 DEF Rename
    <2>7. Weaker(u, c)
      BY <1>2, <2>2, <2>5, WeakerTransitive
    <2>8. Renamed(u, p, from, q, to)
      BY <1>7, <2>2, <2>5 DEF Renamed, Weaker
    <2> QED
      BY <2>6, <2>7, <2>8
  <1> QED
    BY <1>3, <1>4, <1>5, <1>6, <1>7


-----------------------------------------------------------------------------
(* What an operation is about in each state, and what it has sent.         *)

Strictly(p, q) == \E i \in 0 .. Len(q) - 1 : p = SubSeq(q, 1, i)

Subject(o) ==
    /\ o.cmd = "none" \/ o.path \in Dirs
    /\ o.cmd \in {"rmd", "delete", "chmod", "upload", "rename"} =>
         o.node \in Nodes /\ o.path = Front(o.node)
    /\ o.cmd = "rmd" => o.node \in Dirs
    /\ o.cmd \in {"delete", "chmod", "upload"} => o.node \notin Dirs
    /\ o.cmd = "rename" => /\ o.to \in Nodes /\ o.node # o.to /\ ~Below(o.node, o.to)
                           /\ o.node \in Dirs <=> o.to \in Dirs

Position(o, dir) ==
    /\ o.st = "list" => dir = o.path /\ o.cmd \in {"list", "upload"}
    /\ o.st \in {"findparent", "cwdsub", "mkdsub"} => Strictly(o.cur, o.path)
    /\ o.st = "rnfr" => o.cmd = "rename"
    /\ o.st = "work" => o.cmd \in {"rmd", "delete", "chmod", "upload", "rename"}

(* The command that is sent in each state.                                 *)
Request(w, o) ==
    \/ o.st \in {"cwd", "findparent", "cwdsub"} /\ w.verb = "CWD"
    \/ o.st = "mkdsub" /\ w.verb = "MKD" /\ w.arg = NextDir(o)
    \/ o.st = "tryfull" /\ w.verb = "MKD" /\ w.arg = o.path
    \/ o.st = "list" /\ w.verb = "LIST" /\ w.arg = o.path
    \/ o.st = "rnfr" /\ w.verb = "RNFR"
    \/ o.st = "work" /\ w.verb = Verb(o.cmd) /\ w.arg = o.node /\ w.to = o.to

(* Commands that change the tree are about what they can change.           *)
Sane(w) ==
    /\ w.verb \in {"CWD", "MKD", "LIST", "RNFR", "RMD", "DELE", "CHMOD", "STOR", "RNTO"}
    /\ w.verb \in {"MKD", "LIST"} => w.arg \in Dirs
    /\ w.verb \in {"RMD", "DELE", "STOR", "RNTO"} => w.arg \in Nodes
    /\ w.verb = "RMD" => w.arg \in Dirs
    /\ w.verb \in {"DELE", "STOR"} => w.arg \notin Dirs
    /\ w.verb = "RNTO" => /\ w.to \in Nodes /\ w.arg # w.to /\ ~Below(w.arg, w.to)
                          /\ w.arg \in Dirs <=> w.to \in Dirs

Orderly(o, w, dir) ==
    /\ Subject(o) /\ Position(o, dir)
    /\ w.st # "idle" => Sane(w) /\ (w.skip \/ Request(w, o))

WireInv == \A e \in Engines : Orderly(op[e], wire[e], cwd[e])

(* Listings under way, and what they are good for.                         *)
ListsHold ==
    \A e \in Engines : op[e].st = "list" /\ wire[e].st # "idle" =>
        /\ Holds(e, "list") /\ ~wire[e].skip
        /\ wire[e].st = "done" /\ wire[e].reply = "ok" =>
             wire[e].names \in seen[op[e].path]

Asks(e) == op[e].st = "list" /\ \E l \in locks : l.owner = e

FreshIsSeen ==
    \A e \in Engines : Asks(e) /\ op[e].fresh /\ Sure(cache, op[e].path) =>
        cache.dir[op[e].path].names \in seen[op[e].path]

SeenInv ==
    /\ IsCache(cache) /\ DOMAIN cache.dir \subseteq Dirs /\ ListsHold /\ FreshIsSeen
    /\ seen = [p \in Dirs |-> seen[p]]

(* A tree has the parents of all it has.                                   *)
Rooted(t) ==
    /\ t \subseteq Nodes
    /\ \A n \in t : \A i \in 1 .. Len(n) - 1 : SubSeq(n, 1, i) \in t

TreeInv == Rooted(tree)

(* The listings that the reply to w will make the cache give up.           *)
Cleans(w) ==
    IF w.verb # "RNTO" THEN Changed(w)
    ELSE {p \in Changed(w) : \/ p = Front(w.arg) \/ p = Front(w.to) \/ IsPrefix(w.arg, p)
                             \/ Front(w.arg) = Front(w.to)}

Right(p) == Exists(p) /\ cache.dir[p].names = Children(tree, p)

Covered(p) == \E e \in Engines : /\ wire[e].st = "done" /\ ~wire[e].skip
                                 /\ p \in Cleans(wire[e])

SureInv == \A p : Sure(cache, p) /\ p \notin missed => Right(p) \/ Covered(p)

-----------------------------------------------------------------------------
(* Paths.                                                                  *)

LEMMA PathsAreSequences ==
    /\ Nodes \subseteq Seq(Names) /\ Dirs \subseteq Seq(Names)
    /\ \A n \in Nodes : Len(n) \in Nat \ {0} /\ n # <<>>
    /\ \A d \in Dirs : d # <<>> => d \in Nodes
  BY NodesAssumption, EmptySeq DEF Dirs

LEMMA PrefixLength ==
    ASSUME NEW q \in Seq(Names), NEW i \in 0 .. Len(q)
    PROVE  /\ SubSeq(q, 1, i) \in Seq(Names) /\ Len(SubSeq(q, 1, i)) = i
           /\ \A k \in 1 .. i : SubSeq(q, 1, i)[k] = q[k]
  <1>1. \A k \in 1 .. i : q[k] \in Names
    BY ElementOfSeq, LenProperties
  <1> QED
    BY <1>1, LenProperties, SubSeqProperties

LEMMA PrefixOfPrefix ==
    ASSUME NEW q \in Seq(Names), NEW i \in 0 .. Len(q), NEW j \in 0 .. i
    PROVE  SubSeq(SubSeq(q, 1, i), 1, j) = SubSeq(q, 1, j)
  <1>1. PICK r : r = SubSeq(q, 1, i)
    OBVIOUS
  <1>2. Len(q) \in Nat
    BY LenProperties
  <1>3. j \in 0 .. Len(q)
    BY <1>2
  <1>4. r \in Seq(Names) /\ Len(r) = i /\ \A k \in 1 .. i : r[k] = q[k]
    BY <1>1, PrefixLength
  <1>5. PICK a : a = SubSeq(r, 1, j)
    OBVIOUS
  <1>6. a \in Seq(Names) /\ Len(a) = j /\ \A k \in 1 .. j : a[k] = r[k]
    BY <1>4, <1>5, PrefixLength
  <1>7. PICK b : b = SubSeq(q, 1, j)
    OBVIOUS
  <1>8. b \in Seq(Names) /\ Len(b) = j /\ \A k \in 1 .. j : b[k] = q[k]
    BY <1>3, <1>7, PrefixLength
  <1>9. a = b
    BY <1>2, <1>4, <1>6, <1>8, SeqEqual
  <1> QED
    BY <1>1, <1>5, <1>7, <1>9

LEMMA ParentIsDir ==
    ASSUME NEW n \in Nodes
    PROVE  Front(n) \in Dirs /\ Strictly(Front(n), n)
  <1>1. Len(n) - 1 \in 0 .. Len(n) - 1
    BY PathsAreSequences
  <1> QED
    BY <1>1, NodesAssumption DEF Front, Strictly

LEMMA PrefixIsDir ==
    ASSUME NEW q \in Dirs \cup Nodes, NEW p, Strictly(p, q)
    PROVE  /\ p \in Dirs /\ q \in Nodes /\ Len(p) \in 0 .. Len(q) - 1
           /\ p = SubSeq(q, 1, Len(p)) /\ Len(q) \in Nat /\ p \in Seq(Names)
  <1>1. q \in Seq(Names) /\ Len(q) \in Nat
    BY PathsAreSequences, LenProperties
  <1>2. PICK i \in 0 .. Len(q) - 1 : p = SubSeq(q, 1, i)
    BY DEF Strictly
  <1>3. Len(p) = i
    BY <1>1, <1>2, PrefixLength
  <1>4. q # <<>>
    BY <1>1, <1>2
  <1>5. q \in Nodes
    BY <1>4, PathsAreSequences
  <1> QED
    BY <1>1, <1>2, <1>3, <1>5, NodesAssumption, PathsAreSequences

LEMMA ParentOfPrefix ==
    ASSUME NEW q \in Dirs, NEW p, Strictly(p, q), p # <<>>
    PROVE  Strictly(Front(p), q)
  <1>1. Len(p) \in 0 .. Len(q) - 1 /\ p = SubSeq(q, 1, Len(p)) /\ q \in Seq(Names)
        /\ Len(q) \in Nat /\ p \in Seq(Names)
    BY PrefixIsDir, PathsAreSequences
  <1>2. Len(p) # 0
    BY <1>1, EmptySeq
  <1>3. PICK i : i = Len(p)
    OBVIOUS
  <1>4. SubSeq(SubSeq(q, 1, i), 1, i - 1) = SubSeq(q, 1, i - 1)
    BY <1>1, <1>2, <1>3, PrefixOfPrefix
  <1> QED
    BY <1>1, <1>2, <1>3, <1>4 DEF Front, Strictly

LEMMA NextDirIsNext ==
    ASSUME NEW o, o.path \in Dirs, Strictly(o.cur, o.path)
    PROVE  /\ NextDir(o) \in Dirs \cap Nodes /\ Front(NextDir(o)) = o.cur
           /\ NextDir(o) = o.path \/ Strictly(NextDir(o), o.path)
  <1>1. PICK q : q = o.path
    OBVIOUS
  <1>2. PICK i : i = Len(o.cur)
    OBVIOUS
  <1>3. /\ q \in Dirs /\ i \in 0 .. Len(q) - 1 /\ o.cur = SubSeq(q, 1, i)
        /\ q \in Seq(Names) /\ q \in Nodes /\ Len(q) \in Nat
    BY <1>1, <1>2, PrefixIsDir, PathsAreSequences
  <1>4. PICK d : d = SubSeq(q, 1, i + 1)
    OBVIOUS
  <1>5. i + 1 \in 0 .. Len(q) /\ i \in 0 .. (i + 1)
    BY <1>3
  <1>6. Len(d) = i + 1 /\ SubSeq(d, 1, i) = SubSeq(q, 1, i) /\ d \in Seq(Names)
    BY <1>3, <1>4, <1>5, PrefixLength, PrefixOfPrefix
  <1>7. Front(d) = o.cur
    BY <1>3, <1>6 DEF Front
  <1>8. d = q \/ Strictly(d, q)
    <2>1. CASE i + 1 = Len(q)
      BY <1>3, <1>4, <2>1, SubSeqFull
    <2>2. CASE i + 1 # Len(q)
      BY <1>3, <1>4, <2>2 DEF Strictly
    <2> QED
      BY <2>1, <2>2
  <1>9. d \in Dirs
    BY <1>3, <1>8, PrefixIsDir
  <1>10. d # <<>>
    BY <1>3, <1>6, EmptySeq
  <1>11. d \in Nodes
    BY <1>9, <1>10, PathsAreSequences
  <1> QED
    BY <1>1, <1>2, <1>4, <1>7, <1>8, <1>9, <1>11 DEF NextDir

-----------------------------------------------------------------------------
(* The actions keep operations and wires in step.                          *)

LEMMA SameOrderly ==
    ASSUME NEW a, NEW b, NEW w, NEW dir, SameOp(a, b), Orderly(b, w, dir)
    PROVE  Orderly(a, w, dir)
  BY DEF SameOp, Orderly, Subject, Position, Request, NextDir

LEMMA RequestIsSane ==
    ASSUME NEW o, NEW w, NEW dir, Subject(o), Position(o, dir), Request(w, o), OpFits(o),
           o.cmd # "none"
    PROVE  Sane(w)
  <1>1. CASE o.st = "mkdsub" /\ w.verb = "MKD" /\ w.arg = NextDir(o)
    BY <1>1, NextDirIsNext DEF Sane, Subject, Position
  <1>2. CASE o.st = "work" /\ w.verb = Verb(o.cmd) /\ w.arg = o.node /\ w.to = o.to
    <2>1. o.cmd \in {"rmd", "delete", "chmod", "upload", "rename"}
      BY <1>2 DEF Position
    <2>2. CASE o.cmd = "rmd"
      BY <1>2, <2>2 DEF Sane, Verb, Subject
    <2>3. CASE o.cmd = "delete"
      BY <1>2, <2>3 DEF Sane, Verb, Subject
    <2>4. CASE o.cmd = "chmod"
      BY <1>2, <2>4 DEF Sane, Verb, Subject
    <2>5. CASE o.cmd = "upload"
      BY <1>2, <2>5 DEF Sane, Verb, Subject
    <2>6. CASE o.cmd = "rename"
      BY <1>2, <2>6 DEF Sane, Verb, Subject
    <2> QED
      BY <2>1, <2>2, <2>3, <2>4, <2>5, <2>6
  <1>3. CASE w.verb \in {"CWD", "RNFR"}
    BY <1>3 DEF Sane
  <1>4. CASE w.verb \in {"MKD", "LIST"} /\ w.arg = o.path
    BY <1>4 DEF Sane, Subject
  <1> QED
    BY <1>1, <1>2, <1>3, <1>4 DEF Request

(* A step of one engine leaves the others in step.                         *)
Alone(e) ==
    \A f \in Engines : f # e => /\ SameOp(op'[f], op[f])
                                /\ wire'[f] = wire[f] /\ cwd'[f] = cwd[f]

LEMMA OrderlyAlone ==
    ASSUME WireInv, NEW e \in Engines, Alone(e), Orderly(op'[e], wire'[e], cwd'[e])
    PROVE  WireInv'
  BY SameOrderly DEF WireInv, Alone

LEMMA EndKeepsOrder ==
    ASSUME LockInv, WireInv, NEW e \in Engines, NEW ok, NEW path, NEW w,
           End(e, ok, path), Puts(e, w), w.st # "idle" => Sane(w) /\ w.skip
    PROVE  WireInv'
  <1>1. op' = [op EXCEPT ![e] = NoOp] /\ wire' = [wire EXCEPT ![e] = w]
        /\ cwd' = [cwd EXCEPT ![e] = cwd'[e]]
    BY DEF End, Puts, LockInv, Records
  <1>2. Alone(e) /\ op'[e] = NoOp /\ wire'[e] = w
    BY <1>1 DEF Alone, SameOp, LockInv, Records
  <1>3. Subject(NoOp) /\ Position(NoOp, cwd'[e])
    BY NoOpFits DEF Subject, Position
  <1>4. Orderly(NoOp, w, cwd'[e])
    BY <1>3 DEF Orderly
  <1> QED
    BY <1>2, <1>4, OrderlyAlone

LEMMA GoOnKeepsOrder ==
    ASSUME LockInv, WireInv, NEW e \in Engines, NEW o, NEW keys, NEW path, NEW w,
           GoOn(e, o, keys, path), Puts(e, w), w.st = "idle", Subject(o), Position(o, path)
    PROVE  WireInv'
  <1>1. op' = [op EXCEPT ![e] = o] /\ wire' = [wire EXCEPT ![e] = w]
        /\ cwd' = [cwd EXCEPT ![e] = path]
    BY DEF GoOn, Puts
  <1>2. Alone(e) /\ op'[e] = o /\ wire'[e] = w /\ cwd'[e] = path
    BY <1>1 DEF Alone, SameOp, LockInv, Records
  <1>3. Orderly(o, w, path)
    BY DEF Orderly
  <1> QED
    BY <1>2, <1>3, OrderlyAlone

LEMMA SendKeepsOrder ==
    ASSUME LockInv, WireInv, NEW e \in Engines, NEW o, NEW w,
           op' = [op EXCEPT ![e] = o], SameOp(o, op[e]), Puts(e, w),
           op[e].cmd # "none", Request(w, op[e]) \/ w = wire[e],
           cwd' = [cwd EXCEPT ![e] = cwd'[e]], cwd'[e] = cwd[e] \/ op[e].st # "list"
    PROVE  WireInv'
  <1>1. Alone(e) /\ op'[e] = o /\ wire'[e] = w
    BY DEF Alone, SameOp, LockInv, Records, Puts
  <1>2. Orderly(op[e], wire[e], cwd[e])
    BY DEF WireInv
  <1>3. Subject(op[e]) /\ Position(op[e], cwd'[e])
    BY <1>2 DEF Orderly, Position
  <1>4. CASE Request(w, op[e])
    <2>1. Sane(w)
      BY <1>3, <1>4, OpNow, RequestIsSane
    <2> QED
      BY <1>1, <1>3, <1>4, <2>1, SameOrderly, OrderlyAlone DEF Orderly
  <1>5. CASE w = wire[e]
    BY <1>1, <1>2, <1>3, <1>5, SameOrderly, OrderlyAlone DEF Orderly
  <1> QED
    BY <1>4, <1>5

LEMMA SamePlace ==
    ASSUME NEW n, NEW o, n.cmd = o.cmd, n.path = o.path, n.node = o.node, n.to = o.to,
           Subject(o)
    PROVE  Subject(n)
  BY DEF Subject

LEMMA SubjectNow ==
    ASSUME WireInv, NEW e \in Engines
    PROVE  Subject(op[e]) /\ Position(op[e], cwd[e])
  BY DEF WireInv, Orderly

LEMMA CwdDoneKeepsOrder ==
    ASSUME LockInv, WireInv, NEW e \in Engines, NEW ok \in BOOLEAN, NEW path, NEW w,
           op[e].st \in {"cwd_init", "cwd"}, CwdDone(e, ok, path),
           Puts(e, w), w.st = "idle", ok => path = op[e].path
    PROVE  WireInv'
  <1> DEFINE o == op[e]
  <1>1. OpRecord(o) /\ OpFits(o) /\ Subject(o)
    BY OpNow, SubjectNow
  <1>2. ASSUME NEW n, n.cmd = o.cmd, n.path = o.path, n.node = o.node, n.to = o.to,
               n.st \in {"list", "rnfr", "work"}, GoOn(e, n, {"cwd"}, path),
               Position(n, path)
        PROVE  WireInv'
    BY <1>1, <1>2, SamePlace, GoOnKeepsOrder
  <1>3. CASE End(e, FALSE, path)
    <2>1. PICK no \in BOOLEAN : no = FALSE
      OBVIOUS
    <2>2. End(e, no, path)
      BY <1>3, <2>1
    <2> QED
      BY <2>2, EndKeepsOrder
  <1>4. ASSUME NEW st, GoOn(e, [o EXCEPT !.st = st], {"cwd"}, path),
               \/ st = "list" /\ path = o.path /\ o.cmd = "list"
               \/ st = "rnfr" /\ o.cmd = "rename"
               \/ st = "work" /\ o.cmd \in {"rmd", "delete", "chmod", "upload"}
        PROVE  WireInv'
    <2>1. PICK n : n = [o EXCEPT !.st = st]
      OBVIOUS
    <2>2. n.cmd = o.cmd /\ n.st = st /\ n.path = o.path /\ n.node = o.node /\ n.to = o.to
      BY <2>1, <1>1, NextState
    <2>3. GoOn(e, n, {"cwd"}, path)
      BY <2>1, <1>4
    <2>4. Position(n, path)
      BY <1>4, <2>2 DEF Position
    <2>5. n.st \in {"list", "rnfr", "work"}
      BY <1>4, <2>2
    <2> QED
      BY <1>2, <2>2, <2>3, <2>4, <2>5
  <1>5. CASE /\ ok /\ o.cmd = "upload"
             /\ GoOn(e, [o EXCEPT !.st = "list", !.refresh = TRUE], {"cwd"}, path)
    <2>1. PICK n : n = [o EXCEPT !.st = "list", !.refresh = TRUE]
      OBVIOUS
    <2>2. n.cmd = o.cmd /\ n.st = "list" /\ n.path = o.path /\ n.node = o.node /\ n.to = o.to
      BY <2>1, <1>1 DEF OpRecord
    <2>3. GoOn(e, n, {"cwd"}, path)
      BY <2>1, <1>5
    <2>4. Position(n, path)
      BY <1>5, <2>2 DEF Position
    <2> QED
      BY <1>2, <2>2, <2>3, <2>4
  <1> HIDE DEF o
  <1> QED
    BY <1>3, <1>4, <1>5 DEF CwdDone, o


LEMMA MkdDoneKeepsOrder ==
    ASSUME LockInv, WireInv, NEW e \in Engines, NEW ok, NEW path, NEW w,
           op[e].st \in MkdStates, MkdDone(e, ok, path), Puts(e, w), w.st = "idle"
    PROVE  WireInv'
  <1>1. CASE End(e, ok, path)
    BY <1>1, EndKeepsOrder
  <1>2. CASE GoOn(e, [op[e] EXCEPT !.st = "cwd"], {"mkd"}, path)
    <2>1. PICK n : n = [op[e] EXCEPT !.st = "cwd"]
      OBVIOUS
    <2>2. n.cmd = op[e].cmd /\ n.st = "cwd" /\ n.path = op[e].path
          /\ n.node = op[e].node /\ n.to = op[e].to
      BY <2>1, OpNow, NextState
    <2>3. GoOn(e, n, {"mkd"}, path)
      BY <1>2, <2>1
    <2>4. Subject(n) /\ Position(n, path)
      BY <2>2, SubjectNow, SamePlace DEF Position
    <2> QED
      BY <2>3, <2>4, GoOnKeepsOrder
  <1> QED
    BY <1>1, <1>2 DEF MkdDone

LEMMA NewOpIsSane ==
    ASSUME NEW cmd, NEW path, NEW node, NEW to, NEW refresh, cmd # "none", NEW dir,
           path \in Dirs,
           cmd \in {"rmd", "delete", "chmod", "upload", "rename"} =>
              node \in Nodes /\ path = Front(node),
           cmd = "rmd" => node \in Dirs,
           cmd \in {"delete", "chmod", "upload"} => node \notin Dirs,
           cmd = "rename" => /\ to \in Nodes /\ node # to /\ ~Below(node, to)
                             /\ node \in Dirs <=> to \in Dirs
    PROVE  LET o == NewOp(cmd, path, node, to, refresh) IN Subject(o) /\ Position(o, dir)
  <1>1. PICK o : o = NewOp(cmd, path, node, to, refresh)
    OBVIOUS
  <1>2. o.cmd = cmd /\ o.path = path /\ o.node = node /\ o.to = to
        /\ o.st \in {"mkd_init", "cwd_init"}
    BY <1>1, NewOpFits
  <1> QED
    BY <1>1, <1>2 DEF Subject, Position

LEMMA CommandKeepsOrder ==
    ASSUME LockInv, WireInv, NEW e \in Engines, Command(e)
    PROVE  WireInv'
  <1>1. ASSUME NEW o, Start(e, o), Subject(o), Position(o, cwd[e]) PROVE WireInv'
    <2>1. op' = [op EXCEPT ![e] = o] /\ UNCHANGED <<wire, cwd>>
      BY <1>1 DEF Start
    <2>2. Alone(e) /\ op'[e] = o
      BY <2>1 DEF Alone, SameOp, LockInv, Records
    <2>3. op[e].cmd = "none"
      BY <1>1 DEF Start
    <2>4. op[e].st = "none"
      BY <2>3, OpNow DEF OpFits
    <2>5. Orderly(op[e], wire[e], cwd[e])
      BY DEF WireInv
    <2>6. wire[e].st # "idle" => Sane(wire[e]) /\ wire[e].skip
      BY <2>4, <2>5 DEF Orderly, Request
    <2>7. Orderly(o, wire[e], cwd[e])
      BY <1>1, <2>6 DEF Orderly
    <2> QED
      BY <2>1, <2>2, <2>7, OrderlyAlone
  <1>2. ASSUME NEW cmd, cmd # "none", NEW path \in Dirs, NEW node, NEW to, NEW refresh,
               Start(e, NewOp(cmd, path, node, to, refresh)),
               cmd \in {"rmd", "delete", "chmod", "upload", "rename"} =>
                  node \in Nodes /\ path = Front(node),
               cmd = "rmd" => node \in Dirs,
               cmd \in {"delete", "chmod", "upload"} => node \notin Dirs,
               cmd = "rename" => /\ to \in Nodes /\ node # to /\ ~Below(node, to)
                                 /\ node \in Dirs <=> to \in Dirs
        PROVE  WireInv'
    <2>1. PICK o : o = NewOp(cmd, path, node, to, refresh)
      OBVIOUS
    <2>2. Subject(o) /\ Position(o, cwd[e])
      BY <1>2, <2>1, NewOpIsSane
    <2>3. Start(e, o)
      BY <1>2, <2>1
    <2> QED
      BY <1>1, <2>2, <2>3
  <1>3. ASSUME NEW p \in Dirs, NEW refresh, List(e, p, refresh) PROVE WireInv'
    <2>1. PICK r : Start(e, NewOp("list", p, NoPath, NoPath, r))
      BY <1>3 DEF List
    <2> QED
      BY <1>2, <2>1
  <1>4. ASSUME NEW p \in Dirs, ListFromCache(e, p) PROVE WireInv'
    BY <1>4 DEF ListFromCache, WireInv
  <1>5. ASSUME NEW p \in Dirs, Start(e, NewOp("mkdir", p, p, NoPath, FALSE)) PROVE WireInv'
    <2>1. PICK no \in BOOLEAN : no = FALSE
      OBVIOUS
    <2>2. Start(e, NewOp("mkdir", p, p, NoPath, no))
      BY <1>5, <2>1
    <2> QED
      BY <1>2, <2>2
  <1>6. ASSUME NEW n \in Nodes \ Dirs, NEW cmd \in {"upload", "chmod"},
               Start(e, NewOp(cmd, Front(n), n, NoPath, FALSE))
        PROVE  WireInv'
    <2>1. Front(n) \in Dirs
      BY ParentIsDir
    <2> QED
      BY <1>2, <1>6, <2>1
  <1>7. ASSUME NEW n \in Nodes, Start(e, NewOp(IF n \in Dirs THEN "rmd" ELSE "delete",
                                               Front(n), n, NoPath, FALSE))
        PROVE  WireInv'
    <2>1. Front(n) \in Dirs
      BY ParentIsDir
    <2>2. PICK cmd : cmd = IF n \in Dirs THEN "rmd" ELSE "delete"
      OBVIOUS
    <2>3. PICK no \in BOOLEAN : no = FALSE
      OBVIOUS
    <2>4. Start(e, NewOp(cmd, Front(n), n, NoPath, no))
      BY <1>7, <2>2, <2>3
    <2>5. cmd \in {"rmd", "delete"} /\ (cmd = "rmd" <=> n \in Dirs)
      BY <2>2
    <2> QED
      BY <1>2, <2>1, <2>4, <2>5
  <1>8. ASSUME NEW n \in Nodes, NEW m \in Nodes,
               n # m, n \in Dirs <=> m \in Dirs, ~Below(n, m),
               Start(e, NewOp("rename", Front(n), n, m, FALSE))
        PROVE  WireInv'
    <2>1. Front(n) \in Dirs
      BY ParentIsDir
    <2> QED
      BY <1>2, <1>8, <2>1
  <1> QED
    BY <1>3, <1>4, <1>5, <1>6, <1>7, <1>8 DEF Command

LEMMA CwdInitKeepsOrder ==
    ASSUME LockInv, WireInv, NEW e \in Engines, CwdInit(e)
    PROVE  WireInv'
  <1>1. op[e].st = "cwd_init" /\ wire[e].st = "idle" /\ Puts(e, wire[e])
    BY WireNow DEF CwdInit, Runs
  <1>2. CASE cwd[e] = op[e].path /\ CwdDone(e, TRUE, cwd[e])
    <2>1. PICK yes \in BOOLEAN : yes = TRUE
      OBVIOUS
    <2>2. CwdDone(e, yes, cwd[e])
      BY <1>2, <2>1
    <2> QED
      BY <1>1, <1>2, <2>2, CwdDoneKeepsOrder
  <1>3. CASE GoOn(e, [op[e] EXCEPT !.st = "cwd"], {}, cwd[e])
    <2>1. PICK n : n = [op[e] EXCEPT !.st = "cwd"]
      OBVIOUS
    <2>2. n.cmd = op[e].cmd /\ n.st = "cwd" /\ n.path = op[e].path
          /\ n.node = op[e].node /\ n.to = op[e].to
      BY <2>1, OpNow, NextState
    <2>3. GoOn(e, n, {}, cwd[e])
      BY <2>1, <1>3
    <2>4. Subject(n) /\ Position(n, cwd[e])
      BY <2>2, SubjectNow, SamePlace DEF Position
    <2> QED
      BY <1>1, <2>3, <2>4, GoOnKeepsOrder
  <1> QED
    BY <1>2, <1>3 DEF CwdInit

LEMMA CwdSendKeepsOrder ==
    ASSUME LockInv, WireInv, NEW e \in Engines, CwdSend(e)
    PROVE  WireInv'
  <1>1. op[e].st = "cwd" /\ wire[e].st = "idle"
    BY DEF CwdSend, Runs
  <1>2. OpRecord(op[e]) /\ op[e].cmd # "none"
    BY <1>1, OpNow DEF OpFits
  <1>3. CASE op' = [op EXCEPT ![e].mkd = FALSE] /\ UNCHANGED <<wire, cwd>>
    <2>1. PICK no \in BOOLEAN : no = FALSE
      OBVIOUS
    <2>2. PICK o : o = [op[e] EXCEPT !.mkd = no]
      OBVIOUS
    <2>3. op' = [op EXCEPT ![e] = o]
      BY <1>3, <2>1, <2>2
    <2>4. /\ o.cmd = op[e].cmd /\ o.st = "cwd" /\ o.path = op[e].path
          /\ o.node = op[e].node /\ o.to = op[e].to
      BY <2>2, <1>1, <1>2 DEF OpRecord
    <2>5. Subject(o) /\ Position(o, cwd[e])
      BY <2>4, SubjectNow, SamePlace DEF Position
    <2>6. Alone(e) /\ op'[e] = o
      BY <2>3, <1>3 DEF Alone, SameOp, LockInv, Records
    <2>7. Orderly(o, wire[e], cwd[e])
      BY <1>1, <2>5 DEF Orderly
    <2> QED
      BY <1>3, <2>6, <2>7, OrderlyAlone
  <1>4. CASE Sends(e, "CWD", op[e].path, NoPath) /\ cwd' = [cwd EXCEPT ![e] = NoPath]
             /\ UNCHANGED op
    <2>1. PICK w : Puts(e, w) /\ w.verb = "CWD"
      BY <1>4, SendsPuts
    <2>2. Request(w, op[e])
      BY <1>1, <2>1 DEF Request
    <2>3. op' = [op EXCEPT ![e] = op[e]] /\ cwd' = [cwd EXCEPT ![e] = cwd'[e]]
      BY <1>4 DEF LockInv, Records
    <2> QED
      BY <1>1, <1>2, <2>1, <2>2, <2>3, SendKeepsOrder DEF SameOp
  <1> QED
    BY <1>3, <1>4 DEF CwdSend

LEMMA MkdInitKeepsOrder ==
    ASSUME LockInv, WireInv, NEW e \in Engines, MkdInit(e)
    PROVE  WireInv'
  <1>1. op[e].st = "mkd_init" /\ wire[e].st = "idle" /\ Puts(e, wire[e])
        /\ op[e].st \in MkdStates
    BY WireNow DEF MkdInit, Runs, MkdStates
  <1>2. CASE MkdDone(e, TRUE, cwd[e])
    <2>1. PICK yes \in BOOLEAN : yes = TRUE
      OBVIOUS
    <2>2. MkdDone(e, yes, cwd[e])
      BY <1>2, <2>1
    <2> QED
      BY <1>1, <2>2, MkdDoneKeepsOrder
  <1>3. CASE ~(cwd[e] # NoPath /\ IsPrefix(op[e].path, cwd[e]))
    <2>1. PICK st : st = FirstMkdState(op[e].path, cwd[e])
      OBVIOUS
    <2>2. PICK cur : cur = IF op[e].path = <<>> THEN NoPath ELSE Front(op[e].path)
      OBVIOUS
    <2>3. PICK common : common = IF op[e].path = <<>> THEN NoPath
                                 ELSE CommonParent(op[e].path, cwd[e])
      OBVIOUS
    <2>4. PICK n : n = [op[e] EXCEPT !.st = st, !.cur = cur, !.common = common]
      OBVIOUS
    <2>5. GoOn(e, n, {}, cwd[e])
      BY <1>3, <2>1, <2>2, <2>3, <2>4 DEF MkdInit
    <2>6. OpRecord(op[e]) /\ OpFits(op[e])
      BY OpNow
    <2>7. n.cmd = op[e].cmd /\ n.st = st /\ n.path = op[e].path
          /\ n.node = op[e].node /\ n.to = op[e].to /\ n.cur = cur
      BY <2>4, <2>6 DEF OpRecord
    <2>8. Subject(op[e]) /\ op[e].path \in Dirs
      BY <1>1, <2>6, SubjectNow DEF Subject, OpFits
    <2>9. Position(n, cwd[e])
      <3>1. CASE op[e].path = <<>>
        BY <2>1, <2>7, <3>1 DEF FirstMkdState, Position
      <3>2. CASE op[e].path # <<>>
        <4>1. Strictly(cur, op[e].path)
          BY <2>2, <2>8, <3>2, PathsAreSequences, ParentIsDir
        <4> QED
          BY <2>1, <2>7, <4>1 DEF FirstMkdState, Position
      <3> QED
        BY <3>1, <3>2
    <2> QED
      BY <1>1, <2>5, <2>7, <2>8, <2>9, SamePlace, GoOnKeepsOrder
  <1> QED
    BY <1>2, <1>3 DEF MkdInit

LEMMA MkdSendKeepsOrder ==
    ASSUME LockInv, WireInv, NEW e \in Engines, MkdSend(e)
    PROVE  WireInv'
  <1>1. /\ op[e].st \in MkdStates \ {"mkd_init"} /\ op[e].st # "list"
        /\ op' = [op EXCEPT ![e] = op[e]]
        /\ cwd' = [cwd EXCEPT ![e] = cwd'[e]]
    BY DEF MkdSend, Runs, MkdStates, LockInv, Records
  <1>2. op[e].cmd # "none"
    BY <1>1, OpNow DEF OpFits, MkdStates
  <1>3. ASSUME NEW verb, NEW arg, Sends(e, verb, arg, NoPath),
               \/ op[e].st \in {"findparent", "cwdsub"} /\ verb = "CWD"
               \/ op[e].st = "mkdsub" /\ verb = "MKD" /\ arg = NextDir(op[e])
               \/ op[e].st = "tryfull" /\ verb = "MKD" /\ arg = op[e].path
        PROVE  WireInv'
    <2>1. PICK w : Puts(e, w) /\ w.verb = verb /\ w.arg = arg
      BY <1>3, SendsPuts
    <2>2. Request(w, op[e])
      BY <1>3, <2>1 DEF Request
    <2> QED
      BY <1>1, <1>2, <2>1, <2>2, SendKeepsOrder DEF SameOp
  <1> QED
    BY <1>3 DEF MkdSend, Runs


LEMMA StutterKeepsOrder ==
    ASSUME WireInv, UNCHANGED <<op, wire, cwd>>
    PROVE  WireInv'
  BY DEF WireInv

LEMMA ListDoneKeepsOrder ==
    ASSUME LockInv, WireInv, NEW e \in Engines, NEW ok, NEW w, op[e].st = "list",
           op[e].cmd \in {"list", "upload"}, ListDone(e, ok), Puts(e, w), w.st = "idle"
    PROVE  WireInv'
  <1>1. CASE End(e, ok, cwd[e])
    BY <1>1, EndKeepsOrder
  <1>2. CASE op[e].cmd # "list" /\ GoOn(e, [op[e] EXCEPT !.st = "work"], {"list"}, cwd[e])
    <2>1. PICK n : n = [op[e] EXCEPT !.st = "work"]
      OBVIOUS
    <2>2. n.cmd = op[e].cmd /\ n.st = "work" /\ n.path = op[e].path
          /\ n.node = op[e].node /\ n.to = op[e].to
      BY <2>1, OpNow, NextState
    <2>3. GoOn(e, n, {"list"}, cwd[e])
      BY <1>2, <2>1
    <2>4. Subject(n) /\ Position(n, cwd[e])
      BY <1>2, <2>2, SubjectNow, SamePlace DEF Position
    <2> QED
      BY <2>3, <2>4, GoOnKeepsOrder
  <1> QED
    BY <1>1, <1>2 DEF ListDone

LEMMA ListSendKeepsOrder ==
    ASSUME LockInv, WireInv, NEW e \in Engines, ListSend(e)
    PROVE  WireInv'
  <1>1. op[e].st = "list" /\ wire[e].st = "idle"
    BY DEF ListSend, Runs
  <1>2. OpRecord(op[e]) /\ op[e].cmd # "none"
    BY <1>1, OpNow DEF OpFits
  <1>3. op[e].cmd \in {"list", "upload"} /\ cwd[e] = op[e].path
    BY <1>1, SubjectNow DEF Position
  <1>4. CASE ListDone(e, TRUE) /\ UNCHANGED wire
    <2>1. PICK yes \in BOOLEAN : yes = TRUE
      OBVIOUS
    <2>2. ListDone(e, yes)
      BY <1>4, <2>1
    <2> QED
      BY <1>1, <1>3, <1>4, <2>2, WireNow, ListDoneKeepsOrder
  <1>5. ASSUME NEW w, Puts(e, w), UNCHANGED cwd,
               w = wire[e] \/ (w.verb = "LIST" /\ w.arg = cwd[e]),
               NEW o, op' = [op EXCEPT ![e] = o], SameOp(o, op[e])
        PROVE  WireInv'
    <2>1. Request(w, op[e]) \/ w = wire[e]
      BY <1>1, <1>3, <1>5 DEF Request
    <2>2. cwd' = [cwd EXCEPT ![e] = cwd'[e]] /\ cwd'[e] = cwd[e]
      BY <1>5 DEF LockInv, Records
    <2> QED
      BY <1>2, <1>5, <2>1, <2>2, SendKeepsOrder
  <1>6. CASE op' = [op EXCEPT ![e].fresh = FALSE] /\ UNCHANGED cwd
             /\ (UNCHANGED wire \/ Sends(e, "LIST", cwd[e], NoPath))
    <2>1. PICK no \in BOOLEAN : no = FALSE
      OBVIOUS
    <2>2. PICK o : o = [op[e] EXCEPT !.fresh = no]
      OBVIOUS
    <2>3. op' = [op EXCEPT ![e] = o]
      BY <1>6, <2>1, <2>2
    <2>4. SameOp(o, op[e])
      BY <1>2, <2>2 DEF OpRecord, SameOp
    <2>5. CASE UNCHANGED wire
      BY <1>5, <1>6, <2>3, <2>4, <2>5, WireNow
    <2>6. CASE Sends(e, "LIST", cwd[e], NoPath)
      <3>1. PICK w : Puts(e, w) /\ w.verb = "LIST" /\ w.arg = cwd[e]
        BY <2>6, SendsPuts
      <3> QED
        BY <1>5, <1>6, <2>3, <2>4, <3>1
    <2> QED
      BY <1>6, <2>5, <2>6
  <1>7. CASE Sends(e, "LIST", cwd[e], NoPath) /\ UNCHANGED <<op, cwd>>
    <2>1. PICK w : Puts(e, w) /\ w.verb = "LIST" /\ w.arg = cwd[e]
      BY <1>7, SendsPuts
    <2>2. op' = [op EXCEPT ![e] = op[e]] /\ SameOp(op[e], op[e])
      BY <1>7 DEF LockInv, Records, SameOp
    <2> QED
      BY <1>5, <1>7, <2>1, <2>2
  <1> QED
    BY <1>4, <1>6, <1>7 DEF ListSend

LEMMA WorkSendKeepsOrder ==
    ASSUME LockInv, WireInv, NEW e \in Engines, WorkSend(e)
    PROVE  WireInv'
  <1>1. /\ op[e].st \in {"rnfr", "work"} /\ op' = [op EXCEPT ![e] = op[e]]
        /\ cwd' = [cwd EXCEPT ![e] = cwd'[e]] /\ cwd'[e] = cwd[e]
    BY DEF WorkSend, Runs, LockInv, Records
  <1>2. op[e].cmd # "none"
    BY <1>1, OpNow DEF OpFits
  <1>3. ASSUME NEW verb, NEW arg, NEW to, Sends(e, verb, arg, to),
               \/ op[e].st = "rnfr" /\ verb = "RNFR"
               \/ op[e].st = "work" /\ verb = Verb(op[e].cmd)
                    /\ arg = op[e].node /\ to = op[e].to
        PROVE  WireInv'
    <2>1. PICK w : Puts(e, w) /\ w.verb = verb /\ w.arg = arg /\ w.to = to
      BY <1>3, SendsPuts
    <2>2. Request(w, op[e])
      BY <1>3, <2>1 DEF Request
    <2> QED
      BY <1>1, <1>2, <2>1, <2>2, SendKeepsOrder DEF SameOp
  <1> QED
    BY <1>3 DEF WorkSend, Runs

LEMMA SkipReplyKeepsOrder ==
    ASSUME LockInv, WireInv, NEW e \in Engines, SkipReply(e)
    PROVE  WireInv'
  <1>1. UNCHANGED <<op, cwd>> /\ wire' = [wire EXCEPT ![e] = Idle]
    BY DEF SkipReply
  <1>2. Alone(e) /\ wire'[e] = Idle
    BY <1>1 DEF Alone, SameOp, LockInv, Records
  <1>3. Orderly(op[e], Idle, cwd[e])
    BY SubjectNow, NoOpFits DEF Orderly
  <1> QED
    BY <1>1, <1>2, <1>3, OrderlyAlone

LEMMA ParseCwdKeepsOrder ==
    ASSUME LockInv, WireInv, NEW e \in Engines, ParseCwd(e)
    PROVE  WireInv'
  <1>1. op[e].st = "cwd" /\ Puts(e, Idle) /\ Idle.st = "idle"
    BY RepliedPuts DEF ParseCwd
  <1>2. CASE GoOn(e, [op[e] EXCEPT !.mkd = FALSE, !.st = "mkd_init"], {}, NoPath)
    <2>1. PICK no \in BOOLEAN : no = FALSE
      OBVIOUS
    <2>2. PICK n : n = [op[e] EXCEPT !.mkd = no, !.st = "mkd_init"]
      OBVIOUS
    <2>3. OpRecord(op[e])
      BY OpNow
    <2>4. n.cmd = op[e].cmd /\ n.path = op[e].path /\ n.st = "mkd_init"
          /\ n.node = op[e].node /\ n.to = op[e].to
      BY <2>2, <2>3 DEF OpRecord
    <2>5. GoOn(e, n, {}, NoPath)
      BY <2>1, <2>2, <1>2
    <2>6. Subject(n) /\ Position(n, NoPath)
      BY <2>4, SubjectNow, SamePlace DEF Position
    <2> QED
      BY <1>1, <2>5, <2>6, GoOnKeepsOrder
  <1>3. CASE CwdDone(e, TRUE, op[e].path)
    <2>1. PICK yes \in BOOLEAN : yes = TRUE
      OBVIOUS
    <2>2. CwdDone(e, yes, op[e].path)
      BY <1>3, <2>1
    <2> QED
      BY <1>1, <2>2, CwdDoneKeepsOrder
  <1>4. CASE CwdDone(e, FALSE, NoPath)
    <2>1. PICK no \in BOOLEAN : no = FALSE
      OBVIOUS
    <2>2. CwdDone(e, no, NoPath)
      BY <1>4, <2>1
    <2> QED
      BY <1>1, <2>1, <2>2, CwdDoneKeepsOrder
  <1> QED
    BY <1>2, <1>3, <1>4 DEF ParseCwd

(* The steps of a mkd operation.                                           *)
LEMMA MkdStepKeepsOrder ==
    ASSUME LockInv, WireInv, NEW e \in Engines, NEW n, NEW path, Replied(e, MkdStates),
           GoOn(e, n, {}, path), n.cmd = op[e].cmd, n.path = op[e].path,
           n.node = op[e].node, n.to = op[e].to,
           \/ n.st = "tryfull"
           \/ n.st \in {"findparent", "cwdsub", "mkdsub"} /\ Strictly(n.cur, n.path)
    PROVE  WireInv'
  <1>1. Puts(e, Idle) /\ Idle.st = "idle"
    BY RepliedPuts
  <1>2. Subject(n)
    BY SubjectNow, SamePlace
  <1>3. Position(n, path)
    BY DEF Position
  <1> QED
    BY <1>1, <1>2, <1>3, GoOnKeepsOrder

LEMMA MkdEndKeepsOrder ==
    ASSUME LockInv, WireInv, NEW e \in Engines, NEW ok, NEW path,
           Replied(e, MkdStates), MkdDone(e, ok, path)
    PROVE  WireInv'
  BY RepliedPuts, MkdDoneKeepsOrder

LEMMA MkdPosition ==
    ASSUME LockInv, WireInv, NEW e \in Engines, op[e].st \in MkdStates
    PROVE  /\ op[e].path \in Dirs /\ OpRecord(op[e])
           /\ op[e].st \in {"findparent", "cwdsub", "mkdsub"} =>
                Strictly(op[e].cur, op[e].path)
  BY OpNow, SubjectNow DEF OpFits, MkdStates, Subject, Position

LEMMA ParseFindParentKeepsOrder ==
    ASSUME LockInv, WireInv, NEW e \in Engines, ParseFindParent(e)
    PROVE  WireInv'
  <1>1. Replied(e, MkdStates) /\ op[e].st = "findparent"
    BY RepliedMkd DEF ParseFindParent, Replied, MkdStates
  <1>2. op[e].path \in Dirs /\ OpRecord(op[e]) /\ Strictly(op[e].cur, op[e].path)
    BY <1>1, MkdPosition DEF MkdStates
  <1>3. ASSUME NEW st \in {"mkdsub", "tryfull"}, NEW path,
               GoOn(e, [op[e] EXCEPT !.st = st], {}, path)
        PROVE  WireInv'
    <2>1. PICK n : n = [op[e] EXCEPT !.st = st]
      OBVIOUS
    <2>2. n.cmd = op[e].cmd /\ n.path = op[e].path /\ n.st = st /\ n.cur = op[e].cur
          /\ n.node = op[e].node /\ n.to = op[e].to
      BY <2>1, <1>2, NextState
    <2>3. GoOn(e, n, {}, path)
      BY <2>1, <1>3
    <2> QED
      BY <1>1, <1>2, <2>2, <2>3, MkdStepKeepsOrder
  <1>4. CASE op[e].cur # <<>> /\ GoOn(e, [op[e] EXCEPT !.cur = Front(op[e].cur)], {}, NoPath)
    <2>1. PICK n : n = [op[e] EXCEPT !.cur = Front(op[e].cur)]
      OBVIOUS
    <2>2. n.cmd = op[e].cmd /\ n.path = op[e].path /\ n.st = "findparent"
          /\ n.cur = Front(op[e].cur) /\ n.node = op[e].node /\ n.to = op[e].to
      BY <2>1, <1>1, <1>2 DEF OpRecord
    <2>3. GoOn(e, n, {}, NoPath)
      BY <2>1, <1>4
    <2>4. Strictly(n.cur, n.path)
      BY <1>2, <1>4, <2>2, ParentOfPrefix
    <2> QED
      BY <1>1, <2>2, <2>3, <2>4, MkdStepKeepsOrder
  <1> QED
    BY <1>3, <1>4 DEF ParseFindParent

LEMMA ParseMkdSubKeepsOrder ==
    ASSUME LockInv, WireInv, NEW e \in Engines, ParseMkdSub(e)
    PROVE  WireInv'
  <1>1. Replied(e, MkdStates) /\ op[e].st = "mkdsub"
    BY RepliedMkd DEF ParseMkdSub, Replied, MkdStates
  <1>2. op[e].path \in Dirs /\ OpRecord(op[e]) /\ Strictly(op[e].cur, op[e].path)
    BY <1>1, MkdPosition DEF MkdStates
  <1>3. ASSUME NEW ok \in BOOLEAN, MkdDone(e, ok, cwd[e]) PROVE WireInv'
    BY <1>1, <1>3, MkdEndKeepsOrder
  <1>4. CASE /\ NextDir(op[e]) # op[e].path
             /\ GoOn(e, [op[e] EXCEPT !.cur = NextDir(op[e]), !.st = "cwdsub"], {}, cwd[e])
    <2>1. PICK n : n = [op[e] EXCEPT !.cur = NextDir(op[e]), !.st = "cwdsub"]
      OBVIOUS
    <2>2. n.cmd = op[e].cmd /\ n.path = op[e].path /\ n.st = "cwdsub"
          /\ n.cur = NextDir(op[e]) /\ n.node = op[e].node /\ n.to = op[e].to
      BY <2>1, <1>2 DEF OpRecord
    <2>3. GoOn(e, n, {}, cwd[e])
      BY <2>1, <1>4
    <2>4. Strictly(n.cur, n.path)
      BY <1>2, <1>4, <2>2, NextDirIsNext
    <2> QED
      BY <1>1, <2>2, <2>3, <2>4, MkdStepKeepsOrder
  <1>5. CASE MkdDone(e, TRUE, cwd[e])
    <2>1. PICK yes \in BOOLEAN : yes = TRUE
      OBVIOUS
    <2> QED
      BY <1>3, <1>5, <2>1
  <1>6. CASE MkdDone(e, FALSE, cwd[e])
    <2>1. PICK no \in BOOLEAN : no = FALSE
      OBVIOUS
    <2> QED
      BY <1>3, <1>6, <2>1
  <1> QED
    BY <1>4, <1>5, <1>6 DEF ParseMkdSub

LEMMA ParseCwdSubKeepsOrder ==
    ASSUME LockInv, WireInv, NEW e \in Engines, ParseCwdSub(e)
    PROVE  WireInv'
  <1>1. Replied(e, MkdStates) /\ op[e].st = "cwdsub"
    BY RepliedMkd DEF ParseCwdSub, Replied, MkdStates
  <1>2. op[e].path \in Dirs /\ OpRecord(op[e]) /\ Strictly(op[e].cur, op[e].path)
    BY <1>1, MkdPosition DEF MkdStates
  <1>3. ASSUME NEW st \in {"mkdsub", "tryfull"}, NEW path,
               GoOn(e, [op[e] EXCEPT !.st = st], {}, path)
        PROVE  WireInv'
    <2>1. PICK n : n = [op[e] EXCEPT !.st = st]
      OBVIOUS
    <2>2. n.cmd = op[e].cmd /\ n.path = op[e].path /\ n.st = st /\ n.cur = op[e].cur
          /\ n.node = op[e].node /\ n.to = op[e].to
      BY <2>1, <1>2, NextState
    <2>3. GoOn(e, n, {}, path)
      BY <2>1, <1>3
    <2> QED
      BY <1>1, <1>2, <2>2, <2>3, MkdStepKeepsOrder
  <1> QED
    BY <1>3 DEF ParseCwdSub

LEMMA ParseTryFullKeepsOrder ==
    ASSUME LockInv, WireInv, NEW e \in Engines, ParseTryFull(e)
    PROVE  WireInv'
  <1>1. Replied(e, MkdStates)
    BY RepliedMkd DEF ParseTryFull, MkdStates
  <1>2. PICK ok : ok = Good(e)
    OBVIOUS
  <1>3. MkdDone(e, ok, cwd[e])
    BY <1>2 DEF ParseTryFull
  <1> QED
    BY <1>1, <1>3, MkdEndKeepsOrder


LEMMA ParseListKeepsOrder ==
    ASSUME LockInv, WireInv, NEW e \in Engines, ParseList(e)
    PROVE  WireInv'
  <1>1. /\ op[e].st = "list" /\ wire' = [wire EXCEPT ![e] = Idle]
        /\ cwd' = [cwd EXCEPT ![e] = cwd'[e]]
    BY DEF ParseList, Replied, LockInv, Records
  <1>2. Alone(e) /\ wire'[e] = Idle
    BY <1>1, ParseListOps DEF Alone, LockInv, Records
  <1>3. PICK o : o = op'[e]
    OBVIOUS
  <1>4. Subject(o) /\ Position(o, cwd'[e])
    <2>1. CASE op[e].cmd = "list"
      BY <1>3, <2>1, NoOpFits, ParseListOps DEF Subject, Position
    <2>2. CASE op[e].cmd # "list"
      <3>1. o = [op[e] EXCEPT !.st = "work"] /\ OpRecord(op[e])
        BY <1>3, <2>2, OpNow, ParseListOps
      <3>2. o.st = "work" /\ o.cmd = op[e].cmd /\ o.path = op[e].path
            /\ o.node = op[e].node /\ o.to = op[e].to
        BY <3>1, NextState
      <3> QED
        BY <1>1, <2>2, <3>2, SubjectNow, SamePlace DEF Position
    <2> QED
      BY <2>1, <2>2
  <1>5. Orderly(o, Idle, cwd'[e])
    BY <1>4, NoOpFits DEF Orderly
  <1> QED
    BY <1>2, <1>3, <1>5, OrderlyAlone

LEMMA ParseWorkKeepsOrder ==
    ASSUME LockInv, WireInv, NEW e \in Engines, ParseWork(e)
    PROVE  WireInv'
  <1>1. Puts(e, Idle) /\ Idle.st = "idle"
    BY RepliedPuts DEF ParseWork
  <1>2. ASSUME NEW ok, End(e, ok, cwd[e]) PROVE WireInv'
    BY <1>1, <1>2, EndKeepsOrder
  <1>3. CASE op[e].st = "rnfr" /\ GoOn(e, [op[e] EXCEPT !.st = "work"], {}, cwd[e])
    <2>1. PICK n : n = [op[e] EXCEPT !.st = "work"]
      OBVIOUS
    <2>2. n.cmd = op[e].cmd /\ n.st = "work" /\ n.path = op[e].path
          /\ n.node = op[e].node /\ n.to = op[e].to
      BY <2>1, OpNow, NextState
    <2>3. GoOn(e, n, {}, cwd[e])
      BY <2>1, <1>3
    <2>4. Subject(n) /\ Position(n, cwd[e])
      BY <1>3, <2>2, SubjectNow, SamePlace DEF Position
    <2> QED
      BY <1>1, <2>3, <2>4, GoOnKeepsOrder
  <1>4. CASE End(e, FALSE, cwd[e])
    <2>1. PICK no \in BOOLEAN : no = FALSE
      OBVIOUS
    <2> QED
      BY <1>2, <1>4, <2>1
  <1>5. CASE End(e, Good(e), cwd[e])
    <2>1. PICK ok : ok = Good(e)
      OBVIOUS
    <2> QED
      BY <1>2, <1>5, <2>1
  <1> QED
    BY <1>3, <1>4, <1>5 DEF ParseWork, Replied

LEMMA OnInvalidateCwdKeepsOrder ==
    ASSUME LockInv, WireInv, NEW e \in Engines, OnInvalidateCwd(e)
    PROVE  WireInv'
  <1>1. /\ UNCHANGED <<op, wire>> /\ cwd' = [cwd EXCEPT ![e] = cwd'[e]]
        /\ op[e].cmd # "none" => UNCHANGED cwd
    BY DEF OnInvalidateCwd, LockInv, Records
  <1>2. Alone(e)
    BY <1>1 DEF Alone, SameOp, LockInv, Records
  <1>3. Orderly(op[e], wire[e], cwd[e])
    BY DEF WireInv
  <1>4. op[e].cmd = "none" => op[e].st = "none"
    BY OpNow DEF OpFits
  <1>5. Orderly(op[e], wire[e], cwd'[e])
    BY <1>1, <1>3, <1>4 DEF Orderly, Position
  <1> QED
    BY <1>1, <1>2, <1>5, OrderlyAlone

(* What an interrupted engine has on its wire.                             *)
LEMMA InterruptPuts ==
    ASSUME LockInv, NEW e \in Engines, Cancel(e) \/ Disconnected(e)
    PROVE  \E w, path : /\ Interrupted(e, path) /\ Puts(e, w)
                        /\ w.st # "idle" => w.skip /\ w.verb = wire[e].verb /\ w.arg = wire[e].arg
                                            /\ w.to = wire[e].to /\ w.st = wire[e].st
  <1>1. CASE Disconnected(e)
    <2>1. Interrupted(e, NoPath) /\ Puts(e, Idle) /\ Idle.st = "idle"
      BY <1>1, NoOpFits DEF Disconnected, Puts
    <2> QED
      BY <2>1
  <1>2. CASE Cancel(e) /\ wire[e].st = "idle"
    <2>1. Interrupted(e, cwd[e]) /\ Puts(e, wire[e])
      BY <1>2, WireNow DEF Cancel
    <2> QED
      BY <1>2, <2>1
  <1>3. CASE Cancel(e) /\ wire[e].st # "idle"
    <2>1. PICK yes \in BOOLEAN : yes = TRUE
      OBVIOUS
    <2>2. PICK w : w = [wire[e] EXCEPT !.skip = yes]
      OBVIOUS
    <2>3. WireRecord(wire[e])
      BY WireNow
    <2>4. /\ WireRecord(w) /\ w.skip = yes /\ w.verb = wire[e].verb /\ w.arg = wire[e].arg
          /\ w.to = wire[e].to /\ w.st = wire[e].st
      BY <2>2, <2>3 DEF WireRecord
    <2>5. wire' = [wire EXCEPT ![e] = w]
      BY <1>3, <2>1, <2>2 DEF Cancel
    <2>6. Interrupted(e, cwd[e]) /\ Puts(e, w)
      BY <1>3, <2>4, <2>5 DEF Cancel, Puts
    <2> QED
      BY <2>1, <2>4, <2>6
  <1> QED
    BY <1>1, <1>2, <1>3

LEMMA SaneSame ==
    ASSUME NEW w, NEW v, w.verb = v.verb, w.arg = v.arg, w.to = v.to, Sane(v)
    PROVE  Sane(w)
  BY DEF Sane

LEMMA InterruptKeepsOrder ==
    ASSUME LockInv, WireInv, NEW e \in Engines, Cancel(e) \/ Disconnected(e)
    PROVE  WireInv'
  <1>1. PICK w, path : /\ Interrupted(e, path) /\ Puts(e, w)
                       /\ w.st # "idle" => w.skip /\ w.verb = wire[e].verb /\ w.arg = wire[e].arg
                                           /\ w.to = wire[e].to /\ w.st = wire[e].st
    BY InterruptPuts
  <1>2. PICK yes \in BOOLEAN : yes = TRUE
    OBVIOUS
  <1>3. End(e, yes, path)
    BY <1>1, <1>2 DEF Interrupted
  <1>4. wire[e].st # "idle" => Sane(wire[e])
    BY DEF WireInv, Orderly
  <1>5. w.st # "idle" => Sane(w) /\ w.skip
    BY <1>1, <1>4, SaneSame
  <1> QED
    BY <1>1, <1>3, <1>5, EndKeepsOrder

LEMMA ServerKeepsOrder ==
    ASSUME LockInv, WireInv, NEW e \in Engines, ServerExecutes(e)
    PROVE  WireInv'
  <1>1. UNCHANGED <<cwd, op>> /\ wire[e].st = "sent"
    BY DEF ServerExecutes
  <1>2. PICK w : /\ Puts(e, w) /\ w.st = "done" /\ w.verb = wire[e].verb
                 /\ w.arg = wire[e].arg /\ w.to = wire[e].to /\ w.skip = wire[e].skip
    BY ServerPuts
  <1>3. Alone(e) /\ wire'[e] = w
    BY <1>1, <1>2 DEF Alone, SameOp, LockInv, Records, Puts
  <1>4. Orderly(op[e], wire[e], cwd[e])
    BY DEF WireInv
  <1>5. Sane(w) /\ (w.skip \/ Request(w, op[e]))
    BY <1>1, <1>2, <1>4, SaneSame DEF Orderly, Request
  <1>6. Orderly(op[e], w, cwd[e])
    BY <1>4, <1>5 DEF Orderly
  <1> QED
    BY <1>1, <1>3, <1>6, OrderlyAlone

LEMMA OrderInitially == ASSUME Init PROVE WireInv
  <1>1. \A e \in Engines : op[e] = NoOp /\ wire[e] = Idle
    BY DEF Init
  <1>2. \A dir : Orderly(NoOp, Idle, dir)
    BY NoOpFits DEF Orderly, Subject, Position
  <1> QED
    BY <1>1, <1>2 DEF WireInv

LEMMA OrderStep == ASSUME LockInv, WireInv, [Next]_vars PROVE WireInv'
  <1>1. ASSUME NEW e \in Engines, AwaitReplies(e) \/ MkdLock(e) \/ OnObtainLock(e)
        PROVE  WireInv'
    BY <1>1, StutterKeepsOrder DEF AwaitReplies, Blocks, MkdLock, OnObtainLock
  <1>2. ASSUME NEW e \in Engines, Send(e) PROVE WireInv'
    BY <1>1, <1>2, CwdInitKeepsOrder, CwdSendKeepsOrder, MkdInitKeepsOrder,
       MkdSendKeepsOrder, ListSendKeepsOrder, WorkSendKeepsOrder DEF Send
  <1>3. ASSUME NEW e \in Engines, ParseResponse(e) PROVE WireInv'
    BY <1>3, SkipReplyKeepsOrder, ParseCwdKeepsOrder, ParseFindParentKeepsOrder,
       ParseMkdSubKeepsOrder, ParseCwdSubKeepsOrder, ParseTryFullKeepsOrder,
       ParseListKeepsOrder, ParseWorkKeepsOrder DEF ParseResponse
  <1>4. ASSUME NEW e \in Engines, Handler(e) PROVE WireInv'
    BY <1>1, <1>2, <1>3, <1>4, OnInvalidateCwdKeepsOrder DEF Handler
  <1>5. CASE OthersChange \/ UNCHANGED vars
    BY <1>5, StutterKeepsOrder DEF OthersChange, vars
  <1> QED
    BY <1>4, <1>5, CommandKeepsOrder, InterruptKeepsOrder, ServerKeepsOrder DEF Next


-----------------------------------------------------------------------------
(* What the steps do to the cache.                                         *)

LEMMA NodeIsChild ==
    ASSUME NEW n \in Nodes
    PROVE  /\ n = Append(Front(n), Last(n)) /\ Front(n) \in Seq(Names) /\ Last(n) \in Names
           /\ Len(Front(n)) = Len(n) - 1
  <1>1. n \in Seq(Names) /\ Len(n) \in Nat \ {0}
    BY PathsAreSequences
  <1>2. PICK i : i = Len(n) - 1
    OBVIOUS
  <1>3. i \in 0 .. Len(n) /\ i + 1 = Len(n) /\ Len(n) \in 1 .. Len(n)
    BY <1>1, <1>2
  <1>4. PICK f : f = SubSeq(n, 1, i)
    OBVIOUS
  <1>5. f \in Seq(Names) /\ Len(f) = i /\ \A k \in 1 .. i : f[k] = n[k]
    BY <1>1, <1>3, <1>4, PrefixLength
  <1>6. PICK x : x = n[Len(n)]
    OBVIOUS
  <1>7. x \in Names
    BY <1>1, <1>3, <1>6, ElementOfSeq
  <1>8. PICK a : a = Append(f, x)
    OBVIOUS
  <1>9. a \in Seq(Names) /\ Len(a) = i + 1 /\ \A k \in 1 .. i : a[k] = f[k]
    BY <1>5, <1>7, <1>8, AppendProperties
  <1>10. a[i + 1] = x
    BY <1>5, <1>7, <1>8, AppendProperties
  <1>11. \A k \in 1 .. Len(n) : a[k] = n[k]
    BY <1>1, <1>3, <1>5, <1>6, <1>9, <1>10
  <1>12. a = n
    BY <1>1, <1>3, <1>9, <1>11, SeqEqual
  <1>13. Front(n) = f /\ Last(n) = x
    BY <1>2, <1>4, <1>6 DEF Front, Last
  <1> QED
    BY <1>2, <1>5, <1>7, <1>8, <1>12, <1>13

LEMMA OtherName ==
    ASSUME NEW n \in Nodes, NEW m \in Nodes, n # m
    PROVE  Front(n) # Front(m) \/ Last(n) # Last(m)
  BY NodeIsChild

LEMMA InvalidatedWeakens ==
    ASSUME IsCache(cache), NEW o
    PROVE  Weaker(Invalidated(o), cache)
  <1>1. PICK c : c = InvalidateFile(cache, Front(o.node), Last(o.node))
    OBVIOUS
  <1>2. Weaker(c, cache) /\ IsCache(c)
    BY <1>1, InvalidateFileWeakens DEF Weaker
  <1>3. PICK d : d = InvalidateFile(c, Front(o.to), Last(o.to))
    OBVIOUS
  <1>4. Weaker(d, c)
    BY <1>2, <1>3, InvalidateFileWeakens
  <1>5. Weaker(d, cache)
    BY <1>2, <1>4, WeakerTransitive
  <1> QED
    BY <1>1, <1>2, <1>3, <1>5 DEF Invalidated

LEMMA UpdatedWeakens ==
    ASSUME IsCache(cache), NEW o, Subject(o),
           o.cmd \in {"rmd", "delete", "chmod", "upload", "rename"}
    PROVE  Weaker(Updated(o), cache)
  <1>1. CASE o.cmd = "rmd"
    <2>1. Updated(o) = RemoveDir(cache, Front(o.node), Last(o.node))
      BY <1>1 DEF Updated
    <2> QED
      BY <2>1, RemoveDirWeakens
  <1>2. CASE o.cmd = "delete"
    <2>1. Updated(o) = RemoveFile(cache, Front(o.node), Last(o.node))
      BY <1>2 DEF Updated
    <2> QED
      BY <2>1, RemoveFileWeakens
  <1>3. CASE o.cmd = "rename"
    <2>1. Updated(o) = Rename(cache, Front(o.node), Last(o.node), Front(o.to), Last(o.to))
      BY <1>3 DEF Updated
    <2>2. o.node \in Nodes /\ o.to \in Nodes /\ o.node # o.to
      BY <1>3 DEF Subject
    <2>3. Front(o.node) # Front(o.to) \/ Last(o.node) # Last(o.to)
      BY <2>2, OtherName
    <2> QED
      BY <2>1, <2>3, RenameWeakens
  <1>4. CASE o.cmd \in {"chmod", "upload"}
    <2>1. PICK may \in BOOLEAN : may = (o.cmd = "upload")
      OBVIOUS
    <2>2. Updated(o) = UpdateFile(cache, Front(o.node), Last(o.node), may)
      BY <1>4, <2>1 DEF Updated
    <2> QED
      BY <2>2, UpdateFileWeakens
  <1> QED
    BY <1>1, <1>2, <1>3, <1>4

LEMMA UpdateWeakens ==
    ASSUME IsCache(cache), NEW p, NEW name
    PROVE  Weaker(UpdateFile(cache, p, name, TRUE), cache)
             /\ ~Sure(UpdateFile(cache, p, name, TRUE), p)
  <1>1. PICK yes \in BOOLEAN : yes = TRUE
    OBVIOUS
  <1>2. Weaker(UpdateFile(cache, p, name, yes), cache)
             /\ ~Sure(UpdateFile(cache, p, name, yes), p)
    BY UpdateFileWeakens
  <1> QED
    BY <1>1, <1>2

(* Only a listing that is stored makes the cache surer than it was.        *)
LEMMA CacheWeakens ==
    ASSUME IsCache(cache), LockInv, WireInv, [Next]_vars,
           \A e \in Engines : ~ParseList(e)
    PROVE  Weaker(cache', cache)
  <1>1. CASE UNCHANGED cache
    BY <1>1, WeakerReflexive
  <1>2. ASSUME NEW e \in Engines, Command(e) PROVE Weaker(cache', cache)
    BY <1>1, <1>2, LookupWeakens DEF Command, List, ListFromCache
  <1>3. ASSUME NEW e \in Engines, Send(e) PROVE Weaker(cache', cache)
    <2>1. CASE ListSend(e)
      BY <2>1, LookupWeakens DEF ListSend
    <2>2. CASE WorkSend(e)
      BY <1>1, <2>2, InvalidatedWeakens DEF WorkSend
    <2> QED
      BY <1>1, <1>3, <2>1, <2>2
         DEF Send, AwaitReplies, Blocks, CwdInit, CwdSend, MkdLock, MkdInit, MkdSend
  <1>4. ASSUME NEW e \in Engines, ParseResponse(e) PROVE Weaker(cache', cache)
    <2>1. CASE ParseMkdSub(e)
      BY <1>1, <2>1, UpdateWeakens DEF ParseMkdSub
    <2>2. CASE ParseWork(e)
      <3>1. CASE op[e].st = "work" /\ cache' = Updated(op[e])
        BY <3>1, SubjectNow, UpdatedWeakens DEF Position
      <3> QED
        BY <1>1, <2>2, <3>1 DEF ParseWork, Replied
    <2> QED
      BY <1>1, <1>4, <2>1, <2>2
         DEF ParseResponse, SkipReply, ParseCwd, ParseFindParent, ParseCwdSub, ParseTryFull
  <1>5. ASSUME NEW e \in Engines, Cancel(e) \/ Disconnected(e) PROVE Weaker(cache', cache)
    BY <1>1, <1>5, UpdateWeakens DEF Cancel, Disconnected, Interrupted
  <1>6. CASE UNCHANGED vars \/ OthersChange
    BY <1>1, <1>6 DEF vars, OthersChange
  <1>7. ASSUME NEW e \in Engines, OnObtainLock(e) \/ OnInvalidateCwd(e) \/ ServerExecutes(e)
        PROVE  Weaker(cache', cache)
    BY <1>1, <1>7 DEF OnObtainLock, OnInvalidateCwd, ServerExecutes
  <1> QED
    BY <1>2, <1>3, <1>4, <1>5, <1>6, <1>7 DEF Next, Handler


-----------------------------------------------------------------------------
(* Listings that an engine waits for.                                      *)

(* A step that stores no listing leaves an engine's listing under way and  *)
(* its hope for one no better than they were.                              *)
Steady(f) ==
    op'[f].st = "list" =>
        /\ Asks(f)' /\ op'[f].fresh =>
             Asks(f) /\ op[f].fresh /\ op'[f].path = op[f].path
        /\ wire'[f].st # "idle" =>
             \/ Holds(f, "list")' /\ ~wire'[f].skip /\ wire'[f].st = "sent"
             \/ /\ wire'[f] = wire[f] /\ op[f].st = "list" /\ op'[f].path = op[f].path
                /\ Holds(f, "list") => Holds(f, "list")'

(* The locks of other engines than e stay as they are.                     *)
LocksApart(e) ==
    \A l : l.owner # e => (l \in held' <=> l \in held) /\ (l \in waiting' <=> l \in waiting)

LEMMA LocksElsewhere ==
    ASSUME NEW e,
           \/ UNCHANGED locksVars
           \/ \E keys : ReleaseAll(LocksOf(e, keys))
           \/ \E l : l.owner = e /\ Acquire(l)
           \/ \E G : Grant(G) /\ \A l \in G : l.owner = e
    PROVE  LocksApart(e)
  BY DEF LocksApart, locksVars, ReleaseAll, LocksOf, Acquire, Grant

LEMMA SteadyElsewhere ==
    ASSUME LockInv, NEW e \in Engines, LocksApart(e), Steady(e),
           op' = [op EXCEPT ![e] = op'[e]], wire' = [wire EXCEPT ![e] = wire'[e]]
    PROVE  \A f \in Engines : Steady(f)
  <1> SUFFICES ASSUME NEW f \in Engines, f # e PROVE Steady(f)
    OBVIOUS
  <1>1. op'[f] = op[f] /\ wire'[f] = wire[f]
    BY DEF LockInv, Records
  <1>2. Asks(f)' => Asks(f)
    BY <1>1 DEF Asks, LocksApart, locks
  <1>3. Holds(f, "list") => Holds(f, "list")'
    BY DEF Holds, LocksApart
  <1> QED
    BY <1>1, <1>2, <1>3 DEF Steady

(* A handler that ends its operation or goes on with it.                   *)
Moves(e) ==
    op' = [op EXCEPT ![e] = op'[e]] /\ \E keys : ReleaseAll(LocksOf(e, keys))

LEMMA EndMoves ==
    ASSUME LockInv, NEW e \in Engines, NEW ok, NEW path, End(e, ok, path)
    PROVE  Moves(e) /\ op'[e].st = "none"
  BY NoOpFits DEF End, Moves, LockInv, Records

LEMMA GoOnMoves ==
    ASSUME LockInv, NEW e \in Engines, NEW o, NEW keys, NEW path, GoOn(e, o, keys, path)
    PROVE  Moves(e) /\ op'[e] = o
  BY DEF GoOn, Moves, LockInv, Records

LEMMA CwdDoneMoves ==
    ASSUME LockInv, NEW e \in Engines, NEW ok, NEW path, CwdDone(e, ok, path)
    PROVE  Moves(e)
  <1>1. CASE End(e, FALSE, path)
    <2>1. PICK no \in BOOLEAN : no = FALSE
      OBVIOUS
    <2> QED
      BY <1>1, <2>1, EndMoves
  <1>2. CASE \E o, keys : GoOn(e, o, keys, path)
    BY <1>2, GoOnMoves
  <1>3. ASSUME NEW st, GoOn(e, [op[e] EXCEPT !.st = st], {"cwd"}, path)
        PROVE  Moves(e)
    BY <1>2, <1>3
  <1>4. CASE GoOn(e, [op[e] EXCEPT !.st = "list", !.refresh = TRUE], {"cwd"}, path)
    <2>1. PICK n : n = [op[e] EXCEPT !.st = "list", !.refresh = TRUE]
      OBVIOUS
    <2> QED
      BY <1>2, <1>4, <2>1
  <1> QED
    BY <1>1, <1>3, <1>4 DEF CwdDone

LEMMA MkdDoneMoves ==
    ASSUME LockInv, NEW e \in Engines, NEW ok, NEW path, MkdDone(e, ok, path)
    PROVE  Moves(e)
  BY EndMoves, GoOnMoves DEF MkdDone

LEMMA ListDoneMoves ==
    ASSUME LockInv, NEW e \in Engines, NEW ok, ListDone(e, ok)
    PROVE  Moves(e) /\ op'[e].st # "list"
  <1>1. CASE GoOn(e, [op[e] EXCEPT !.st = "work"], {"list"}, cwd[e])
    <2>1. PICK n : n = [op[e] EXCEPT !.st = "work"]
      OBVIOUS
    <2>2. n.st = "work"
      BY <2>1, OpNow, NextState
    <2> QED
      BY <1>1, <2>1, <2>2, GoOnMoves
  <1>2. CASE End(e, ok, cwd[e])
    BY <1>2, EndMoves
  <1> QED
    BY <1>1, <1>2 DEF ListDone

(* The locks that an engine keeps are not for a listing, and an engine     *)
(* that begins to list has none.                                           *)
LEMMA MovesIsSteady ==
    ASSUME LockInv, LockInv', NEW e \in Engines, NEW w, Moves(e), Puts(e, w),
           op'[e].st # "list" \/ (op[e].st # "list" /\ w.st = "idle")
    PROVE  \A f \in Engines : Steady(f)
  <1>1. LocksApart(e)
    BY LocksElsewhere DEF Moves
  <1>2. wire' = [wire EXCEPT ![e] = wire'[e]] /\ wire'[e] = w
    BY DEF Puts, LockInv, Records
  <1>3. Steady(e)
    <2>1. CASE op'[e].st # "list"
      BY <2>1 DEF Steady
    <2>2. CASE op[e].st # "list" /\ op'[e].st = "list" /\ w.st = "idle"
      <3>1. ~Asks(e)'
        <4> SUFFICES ASSUME NEW l \in locks', l.owner = e PROVE FALSE
          BY DEF Asks
        <4>1. l \in locks
          BY DEF Moves, ReleaseAll, locks
        <4>2. LockFits(l, op[e], cwd[e])
          BY <4>1, LocksNow
        <4>3. LockFits(l, op'[e], cwd'[e])
          BY DEF LockInv, LocksFit
        <4> QED
          BY <2>2, <4>2, <4>3 DEF LockFits, MkdStates
      <3> QED
        BY <1>2, <2>2, <3>1 DEF Steady
    <2> QED
      BY <2>1, <2>2
  <1> QED
    BY <1>1, <1>2, <1>3, SteadyElsewhere DEF Moves

(* Steps that leave the operation alone.                                   *)
LEMMA SameOpIsSteady ==
    ASSUME LockInv, NEW e \in Engines, NEW w, UNCHANGED op, LocksApart(e), Puts(e, w),
           \A l \in locks' : l.owner = e => l \in locks \/ op[e].st # "list",
           \A h \in held : h.owner = e => h \in held',
           w = wire[e] \/ w.st = "idle" \/ op[e].st # "list"
             \/ (w.st = "sent" /\ ~w.skip /\ Holds(e, "list")')
    PROVE  \A f \in Engines : Steady(f)
  <1>1. /\ wire' = [wire EXCEPT ![e] = wire'[e]] /\ wire'[e] = w
        /\ op' = [op EXCEPT ![e] = op'[e]]
    BY DEF Puts, LockInv, Records
  <1>2. op[e].st = "list" => (Asks(e)' => Asks(e))
    BY DEF Asks
  <1>3. Holds(e, "list") => Holds(e, "list")'
    BY DEF Holds
  <1>4. Steady(e)
    BY <1>1, <1>2, <1>3 DEF Steady
  <1> QED
    BY <1>1, <1>4, SteadyElsewhere

LEMMA StutterIsSteady ==
    ASSUME UNCHANGED <<op, wire, held, waiting>>
    PROVE  \A f \in Engines : Steady(f)
  BY DEF Steady, Asks, Holds, locks

LEMMA CommandIsSteady ==
    ASSUME LockInv, LockInv', NEW e \in Engines, Command(e)
    PROVE  \A f \in Engines : Steady(f)
  <1>1. ASSUME NEW o, Fresh(o), Start(e, o) PROVE \A f \in Engines : Steady(f)
    <2>1. op' = [op EXCEPT ![e] = op'[e]] /\ op'[e] = o /\ UNCHANGED <<held, waiting, wire>>
      BY <1>1 DEF Start, LockInv, Records
    <2>2. ReleaseAll(LocksOf(e, {}))
      BY <2>1 DEF ReleaseAll, LocksOf
    <2>3. Moves(e) /\ Puts(e, wire[e]) /\ op'[e].st # "list"
      BY <1>1, <2>1, <2>2, WireNow DEF Moves, Fresh
    <2> QED
      BY <2>3, MovesIsSteady
  <1> QED
    BY <1>1, CommandStarts, StutterIsSteady

LEMMA SentIsSteady ==
    ASSUME LockInv, NEW e \in Engines, op[e].st # "list", UNCHANGED op, LocksApart(e),
           \A h \in held : h.owner = e => h \in held',
           NEW verb, NEW arg, NEW to, Sends(e, verb, arg, to)
    PROVE  \A f \in Engines : Steady(f)
  <1>1. PICK w : Puts(e, w)
    BY SendsPuts
  <1> QED
    BY <1>1, SameOpIsSteady

LEMMA CwdSendIsSteady ==
    ASSUME LockInv, LockInv', NEW e \in Engines, CwdSend(e)
    PROVE  \A f \in Engines : Steady(f)
  <1>1. PICK lock : lock = NewLock(e, "cwd", "mkdir", op[e].path)
    OBVIOUS
  <1>2. lock.owner = e /\ (Acquire(lock) \/ UNCHANGED locksVars) /\ op[e].st = "cwd"
    BY <1>1 DEF NewLock, CwdSend, Runs
  <1>3. LocksApart(e) /\ \A h \in held : h \in held'
    BY <1>2, LocksElsewhere DEF Acquire, locksVars
  <1>4. CASE op' = [op EXCEPT ![e].mkd = FALSE] /\ UNCHANGED wire
    <2>1. PICK no \in BOOLEAN : no = FALSE
      OBVIOUS
    <2>2. PICK o : o = [op[e] EXCEPT !.mkd = no]
      OBVIOUS
    <2>3. op' = [op EXCEPT ![e] = o]
      BY <1>4, <2>1, <2>2
    <2>4. OpRecord(op[e])
      BY OpNow
    <2>5. o.st = "cwd"
      BY <1>2, <2>2, <2>4 DEF OpRecord
    <2>6. op' = [op EXCEPT ![e] = op'[e]] /\ op'[e] = o
          /\ wire' = [wire EXCEPT ![e] = wire'[e]]
      BY <1>4, <2>3 DEF LockInv, Records
    <2>7. Steady(e)
      BY <2>5, <2>6 DEF Steady
    <2> QED
      BY <1>3, <2>6, <2>7, SteadyElsewhere
  <1>5. CASE UNCHANGED op /\ Sends(e, "CWD", op[e].path, NoPath)
    BY <1>2, <1>3, <1>5, SentIsSteady
  <1> QED
    BY <1>4, <1>5 DEF CwdSend

LEMMA ListSendIsSteady ==
    ASSUME LockInv, LockInv', NEW e \in Engines, ListSend(e)
    PROVE  \A f \in Engines : Steady(f)
  <1>1. op[e].st = "list" /\ wire[e].st = "idle"
    BY DEF ListSend, Runs
  <1>2. PICK lock : lock = NewLock(e, "list", "list", cwd[e])
    OBVIOUS
  <1>3. lock.owner = e /\ lock.key = "list"
    BY <1>2 DEF NewLock
  <1>4. CASE ListDone(e, TRUE) /\ UNCHANGED wire
    <2>1. PICK yes \in BOOLEAN : yes = TRUE
      OBVIOUS
    <2>2. ListDone(e, yes)
      BY <1>4, <2>1
    <2> QED
      BY <1>4, <2>2, ListDoneMoves, MovesIsSteady, WireNow
  <1>5. CASE /\ Acquire(lock) /\ op' = [op EXCEPT ![e].fresh = FALSE]
             /\ IF Blocked(lock) THEN loop' = NoEngine /\ UNCHANGED wire
                ELSE Sends(e, "LIST", cwd[e], NoPath)
    <2>1. PICK no \in BOOLEAN : no = FALSE
      OBVIOUS
    <2>2. PICK o : o = [op[e] EXCEPT !.fresh = no]
      OBVIOUS
    <2>3. op' = [op EXCEPT ![e] = o]
      BY <1>5, <2>1, <2>2
    <2>4. OpRecord(op[e])
      BY OpNow
    <2>5. o.fresh = no
      BY <2>2, <2>4 DEF OpRecord
    <2>6. op' = [op EXCEPT ![e] = op'[e]] /\ op'[e] = o
      BY <2>3 DEF LockInv, Records
    <2>7. LocksApart(e)
      BY <1>3, <1>5, LocksElsewhere
    <2>8. CASE Blocked(lock) /\ UNCHANGED wire
      <3>1. Steady(e) /\ wire' = [wire EXCEPT ![e] = wire'[e]]
        BY <1>1, <2>1, <2>5, <2>6, <2>8 DEF Steady, LockInv, Records
      <3> QED
        BY <2>6, <2>7, <3>1, SteadyElsewhere
    <2>9. CASE ~Blocked(lock) /\ Sends(e, "LIST", cwd[e], NoPath)
      <3>1. PICK w : Puts(e, w) /\ w.st = "sent" /\ ~w.skip
        BY <2>9, SendsPuts
      <3>2. wire' = [wire EXCEPT ![e] = wire'[e]] /\ wire'[e] = w
        BY <3>1 DEF Puts, LockInv, Records
      <3>3. Holds(e, "list")'
        BY <1>3, <1>5, <2>9 DEF Holds, Acquire
      <3>4. Steady(e)
        BY <2>1, <2>5, <2>6, <3>1, <3>2, <3>3 DEF Steady
      <3> QED
        BY <2>6, <2>7, <3>2, <3>4, SteadyElsewhere
    <2> QED
      BY <1>5, <2>8, <2>9
  <1>6. CASE /\ Holds(e, "list") /\ Sends(e, "LIST", cwd[e], NoPath)
             /\ UNCHANGED <<op, held, waiting>>
    <2>1. PICK w : Puts(e, w) /\ w.st = "sent" /\ ~w.skip
      BY <1>6, SendsPuts
    <2>2. LocksApart(e) /\ Holds(e, "list")' /\ locks' = locks
      BY <1>6 DEF LocksApart, Holds, locks
    <2> QED
      BY <1>6, <2>1, <2>2, SameOpIsSteady
  <1> QED
    BY <1>2, <1>4, <1>5, <1>6 DEF ListSend

LEMMA SendIsSteady ==
    ASSUME LockInv, LockInv', NEW e \in Engines, Send(e)
    PROVE  \A f \in Engines : Steady(f)
  <1>1. CASE AwaitReplies(e)
    BY <1>1, StutterIsSteady DEF AwaitReplies, Blocks
  <1>2. CASE CwdInit(e)
    <2>1. op[e].st # "list" /\ wire[e].st = "idle" /\ Puts(e, wire[e])
      BY <1>2, WireNow DEF CwdInit, Runs
    <2>2. PICK yes \in BOOLEAN : yes = TRUE
      OBVIOUS
    <2>3. CASE CwdDone(e, TRUE, cwd[e])
      BY <2>2, <2>3, CwdDoneMoves, <2>1, MovesIsSteady
    <2>4. CASE GoOn(e, [op[e] EXCEPT !.st = "cwd"], {}, cwd[e])
      BY <2>4, GoOnMoves, <2>1, MovesIsSteady
    <2> QED
      BY <1>2, <2>3, <2>4 DEF CwdInit
  <1>3. CASE MkdLock(e)
    <2>1. PICK lock : lock = NewLock(e, "mkd", "mkdir", op[e].path)
      OBVIOUS
    <2>2. lock.owner = e /\ Acquire(lock) /\ op[e].st # "list" /\ UNCHANGED <<op, wire>>
      BY <1>3, <2>1 DEF NewLock, MkdLock, Runs
    <2>3. LocksApart(e) /\ \A h \in held : h \in held'
      BY <2>2, LocksElsewhere DEF Acquire
    <2> QED
      BY <2>2, <2>3, SameOpIsSteady, WireNow
  <1>4. CASE MkdInit(e)
    <2>1. op[e].st # "list" /\ wire[e].st = "idle" /\ Puts(e, wire[e])
      BY <1>4, WireNow DEF MkdInit, Runs
    <2>2. PICK yes \in BOOLEAN : yes = TRUE
      OBVIOUS
    <2>3. CASE MkdDone(e, TRUE, cwd[e])
      BY <2>2, <2>3, MkdDoneMoves, <2>1, MovesIsSteady
    <2>4. CASE \E o, path : GoOn(e, o, {}, path)
      BY <2>4, GoOnMoves, <2>1, MovesIsSteady
    <2> QED
      BY <1>4, <2>3, <2>4 DEF MkdInit
  <1>5. CASE MkdSend(e)
    <2>1. op[e].st # "list" /\ UNCHANGED <<op, held, waiting>>
          /\ \E verb, arg, to : Sends(e, verb, arg, to)
      BY <1>5 DEF MkdSend, Runs
    <2> QED
      BY <2>1, SentIsSteady DEF LocksApart
  <1>6. CASE WorkSend(e)
    <2>1. op[e].st # "list" /\ UNCHANGED <<op, held, waiting>>
          /\ \E verb, arg, to : Sends(e, verb, arg, to)
      BY <1>6 DEF WorkSend, Runs
    <2> QED
      BY <2>1, SentIsSteady DEF LocksApart
  <1> QED
    BY <1>1, <1>2, <1>3, <1>4, <1>5, <1>6, CwdSendIsSteady, ListSendIsSteady DEF Send

LEMMA RepliedIsSteady ==
    ASSUME LockInv, LockInv', NEW e \in Engines, NEW states, Replied(e, states),
           "list" \notin states,
           \/ \E ok \in BOOLEAN : \E path : \/ End(e, ok, path) \/ MkdDone(e, ok, path)
                                            \/ CwdDone(e, ok, path)
           \/ \E o, keys, path : GoOn(e, o, keys, path)
    PROVE  \A f \in Engines : Steady(f)
  <1>1. op[e].st # "list" /\ Puts(e, Idle) /\ Idle.st = "idle"
    BY RepliedPuts
  <1>2. Moves(e)
    BY EndMoves, MkdDoneMoves, CwdDoneMoves, GoOnMoves
  <1> QED
    BY <1>1, <1>2, MovesIsSteady

LEMMA ParseIsSteady ==
    ASSUME LockInv, LockInv', NEW e \in Engines, ParseResponse(e), ~ParseList(e)
    PROVE  \A f \in Engines : Steady(f)
  <1>1. PICK yes \in BOOLEAN : yes = TRUE
    OBVIOUS
  <1>2. PICK no \in BOOLEAN : no = FALSE
    OBVIOUS
  <1>3. PICK good \in BOOLEAN : good = Good(e)
    BY DEF Good
  <1>4. CASE SkipReply(e)
    <2>1. Puts(e, Idle) /\ Idle.st = "idle" /\ UNCHANGED <<op, held, waiting>>
      BY <1>4, NoOpFits DEF SkipReply, Puts
    <2>2. LocksApart(e) /\ locks' = locks
      BY <2>1 DEF LocksApart, locks
    <2> QED
      BY <2>1, <2>2, SameOpIsSteady
  <1>5. CASE ParseCwd(e)
    <2>1. CASE CwdDone(e, TRUE, op[e].path)
      <3>1. CwdDone(e, yes, op[e].path)
        BY <1>1, <2>1
      <3> QED
        BY <1>5, <3>1, RepliedIsSteady DEF ParseCwd
    <2>2. CASE CwdDone(e, FALSE, NoPath)
      <3>1. CwdDone(e, no, NoPath)
        BY <1>2, <2>2
      <3> QED
        BY <1>5, <3>1, RepliedIsSteady DEF ParseCwd
    <2>3. CASE GoOn(e, [op[e] EXCEPT !.mkd = FALSE, !.st = "mkd_init"], {}, NoPath)
      <3>1. PICK n : n = [op[e] EXCEPT !.mkd = FALSE, !.st = "mkd_init"]
        OBVIOUS
      <3>2. GoOn(e, n, {}, NoPath)
        BY <2>3, <3>1
      <3> QED
        BY <1>5, <3>2, RepliedIsSteady DEF ParseCwd
    <2> QED
      BY <1>5, <2>1, <2>2, <2>3 DEF ParseCwd
  <1>6. CASE ParseFindParent(e)
    <2>1. Replied(e, {"findparent"}) /\ \E o, keys, path : GoOn(e, o, keys, path)
      BY <1>6 DEF ParseFindParent
    <2> QED
      BY <2>1, RepliedIsSteady
  <1>7. CASE ParseMkdSub(e)
    <2>1. Replied(e, {"mkdsub"})
      BY <1>7 DEF ParseMkdSub
    <2>2. CASE MkdDone(e, TRUE, cwd[e])
      BY <1>1, <2>1, <2>2, RepliedIsSteady
    <2>3. CASE MkdDone(e, FALSE, cwd[e])
      BY <1>2, <2>1, <2>3, RepliedIsSteady
    <2>4. CASE \E o, keys, path : GoOn(e, o, keys, path)
      BY <2>1, <2>4, RepliedIsSteady
    <2> QED
      BY <1>7, <2>2, <2>3, <2>4 DEF ParseMkdSub
  <1>8. CASE ParseCwdSub(e)
    <2>1. Replied(e, {"cwdsub"}) /\ \E o, keys, path : GoOn(e, o, keys, path)
      BY <1>8 DEF ParseCwdSub
    <2> QED
      BY <2>1, RepliedIsSteady
  <1>9. CASE ParseTryFull(e)
    <2>1. Replied(e, {"tryfull"}) /\ MkdDone(e, good, cwd[e])
      BY <1>3, <1>9 DEF ParseTryFull
    <2> QED
      BY <2>1, RepliedIsSteady
  <1>10. CASE ParseWork(e)
    <2>1. CASE Replied(e, {"rnfr"}) /\ GoOn(e, [op[e] EXCEPT !.st = "work"], {}, cwd[e])
      BY <2>1, RepliedIsSteady
    <2>2. CASE Replied(e, {"rnfr"}) /\ End(e, FALSE, cwd[e])
      <3>1. End(e, no, cwd[e])
        BY <1>2, <2>2
      <3> QED
        BY <2>2, <3>1, RepliedIsSteady
    <2>3. CASE Replied(e, {"work"}) /\ End(e, Good(e), cwd[e])
      <3>1. End(e, good, cwd[e])
        BY <1>3, <2>3
      <3> QED
        BY <2>3, <3>1, RepliedIsSteady
    <2> QED
      BY <1>10, <2>1, <2>2, <2>3 DEF ParseWork
  <1> QED
    BY <1>4, <1>5, <1>6, <1>7, <1>8, <1>9, <1>10 DEF ParseResponse

LEMMA StepIsSteady ==
    ASSUME LockInv, LockInv', [Next]_vars,
           \A e \in Engines : ~ParseList(e) /\ ~ServerExecutes(e)
    PROVE  \A f \in Engines : Steady(f)
  <1>1. ASSUME NEW e \in Engines, OnObtainLock(e) PROVE \A f \in Engines : Steady(f)
    <2>1. PICK G : Grant(G) /\ \A l \in G : l.owner = e
      BY <1>1 DEF OnObtainLock
    <2>2. LocksApart(e) /\ locks' \subseteq locks /\ \A h \in held : h \in held'
      BY <2>1, LocksElsewhere DEF Grant, locks
    <2>3. UNCHANGED <<op, wire>>
      BY <1>1 DEF OnObtainLock
    <2> QED
      BY <2>2, <2>3, SameOpIsSteady, WireNow
  <1>2. ASSUME NEW e \in Engines, OnInvalidateCwd(e) PROVE \A f \in Engines : Steady(f)
    BY <1>2, StutterIsSteady DEF OnInvalidateCwd
  <1>3. ASSUME NEW e \in Engines, Cancel(e) \/ Disconnected(e)
        PROVE  \A f \in Engines : Steady(f)
    <2>1. PICK w, path : Interrupted(e, path) /\ Puts(e, w)
      BY <1>3, InterruptPuts
    <2>2. PICK yes \in BOOLEAN : yes = TRUE
      OBVIOUS
    <2>3. End(e, yes, path)
      BY <2>1, <2>2 DEF Interrupted
    <2>4. Moves(e) /\ op'[e].st # "list"
      BY <2>3, EndMoves
    <2> QED
      BY <2>1, <2>4, MovesIsSteady
  <1>4. CASE OthersChange \/ UNCHANGED vars
    BY <1>4, StutterIsSteady DEF OthersChange, vars
  <1> QED
    BY <1>1, <1>2, <1>3, <1>4, CommandIsSteady, SendIsSteady, ParseIsSteady DEF Next, Handler

(* While an engine has or waits for the lock of a listing, what the        *)
(* directory held is kept.                                                 *)
LEMMA SeenGrows ==
    ASSUME LockInv', WireInv', Observe, NEW f \in Engines, op'[f].st = "list",
           NEW l \in locks', l.owner = f
    PROVE  LET p == op'[f].path
           IN  /\ p \in Dirs /\ seen[p] \subseteq seen'[p]
               /\ Children(tree, p) \in seen'[p]
  <1>1. PICK o : o = op'[f]
    OBVIOUS
  <1>2. Orderly(o, wire'[f], cwd'[f])
    BY <1>1 DEF WireInv
  <1>3. cwd'[f] = o.path /\ o.path \in Dirs
    BY <1>1, <1>2 DEF Orderly, Subject, Position
  <1>4. LockFits(l, o, cwd'[f])
    BY <1>1 DEF LockInv, LocksFit
  <1>5. l.what = <<"list", o.path>>
    BY <1>1, <1>3, <1>4 DEF LockFits, MkdStates
  <1> QED
    BY <1>1, <1>3, <1>5 DEF Observe

LEMMA SteadyKeepsSeen ==
    ASSUME LockInv, LockInv', WireInv', SeenInv, Observe, Weaker(cache', cache),
           \A f \in Engines : Steady(f)
    PROVE  SeenInv'
  <1>1. IsCache(cache') /\ DOMAIN cache'.dir \subseteq Dirs
    BY DEF Weaker, SeenInv
  <1>2. seen' = [p \in Dirs |-> seen'[p]]
    BY DEF Observe
  <1>3. ListsHold'
    <2> SUFFICES ASSUME NEW f \in Engines, op'[f].st = "list", wire'[f].st # "idle"
                 PROVE  /\ Holds(f, "list")' /\ ~wire'[f].skip
                        /\ wire'[f].st = "done" /\ wire'[f].reply = "ok" =>
                             wire'[f].names \in seen'[op'[f].path]
      BY DEF ListsHold
    <2>1. CASE Holds(f, "list")' /\ ~wire'[f].skip /\ wire'[f].st = "sent"
      BY <2>1
    <2>2. CASE /\ wire'[f] = wire[f] /\ op[f].st = "list" /\ op'[f].path = op[f].path
               /\ Holds(f, "list") => Holds(f, "list")'
      <3>1. /\ Holds(f, "list") /\ ~wire[f].skip
            /\ wire[f].st = "done" /\ wire[f].reply = "ok" =>
                 wire[f].names \in seen[op[f].path]
        BY <2>2 DEF SeenInv, ListsHold
      <3>2. PICK l \in locks' : l.owner = f
        BY <2>2, <3>1 DEF Holds, locks
      <3>3. seen[op'[f].path] \subseteq seen'[op'[f].path]
        BY <3>2, SeenGrows
      <3> QED
        BY <2>2, <3>1, <3>3
    <2> QED
      BY <2>1, <2>2 DEF Steady
  <1>4. FreshIsSeen'
    <2> SUFFICES ASSUME NEW f \in Engines, Asks(f)', op'[f].fresh, Sure(cache', op'[f].path)
                 PROVE  cache'.dir[op'[f].path].names \in seen'[op'[f].path]
      BY DEF FreshIsSeen
    <2>1. Asks(f) /\ op[f].fresh /\ op'[f].path = op[f].path
      BY DEF Steady, Asks
    <2>2. Sure(cache, op'[f].path)
          /\ cache'.dir[op'[f].path].names = cache.dir[op'[f].path].names
      BY DEF Weaker
    <2>3. cache.dir[op[f].path].names \in seen[op[f].path]
      BY <2>1, <2>2 DEF SeenInv, FreshIsSeen
    <2>4. seen[op'[f].path] \subseteq seen'[op'[f].path]
      BY SeenGrows DEF Asks
    <2> QED
      BY <2>1, <2>2, <2>3, <2>4
  <1> QED
    BY <1>1, <1>2, <1>3, <1>4 DEF SeenInv

LEMMA ServerKeepsSeen ==
    ASSUME LockInv, LockInv', WireInv, WireInv', SeenInv, Observe,
           NEW e \in Engines, ServerExecutes(e)
    PROVE  SeenInv'
  <1>1. UNCHANGED <<cache, held, waiting, op>> /\ locks' = locks
    BY DEF ServerExecutes, locks
  <1>2. PICK w : /\ Puts(e, w) /\ w.verb = wire[e].verb /\ w.skip = wire[e].skip
                 /\ w.names = IF wire[e].verb = "LIST" /\ w.reply = "ok"
                              THEN Children(tree, wire[e].arg) ELSE {}
    BY ServerPuts
  <1>3. wire'[e] = w /\ \A f \in Engines : f # e => wire'[f] = wire[f]
    BY <1>2 DEF Puts, LockInv, Records
  <1>4. wire[e].st # "idle"
    BY DEF ServerExecutes
  <1>5. ListsHold'
    <2> SUFFICES ASSUME NEW f \in Engines, op[f].st = "list", wire'[f].st # "idle"
                 PROVE  /\ Holds(f, "list") /\ ~wire'[f].skip
                        /\ wire'[f].st = "done" /\ wire'[f].reply = "ok" =>
                             wire'[f].names \in seen'[op[f].path]
      BY <1>1 DEF ListsHold, Holds
    <2>1. /\ Holds(f, "list") /\ ~wire[f].skip
          /\ wire[f].st = "done" /\ wire[f].reply = "ok" =>
               wire[f].names \in seen[op[f].path]
      BY <1>3, <1>4 DEF SeenInv, ListsHold
    <2>2. PICK l \in locks' : l.owner = f
      BY <1>1, <2>1 DEF Holds, locks
    <2>3. seen[op[f].path] \subseteq seen'[op[f].path]
          /\ Children(tree, op[f].path) \in seen'[op[f].path]
      BY <1>1, <2>2, SeenGrows
    <2>4. CASE f = e
      <3>1. Request(wire[e], op[e])
        BY <1>4, <2>1, <2>4 DEF WireInv, Orderly
      <3>2. wire[e].verb = "LIST" /\ wire[e].arg = op[e].path
        BY <2>4, <3>1 DEF Request
      <3> QED
        BY <1>2, <1>3, <2>1, <2>3, <2>4, <3>2
    <2>5. CASE f # e
      BY <1>3, <2>1, <2>3, <2>5
    <2> QED
      BY <2>4, <2>5
  <1>6. FreshIsSeen'
    <2> SUFFICES ASSUME NEW f \in Engines, Asks(f), op[f].fresh, Sure(cache, op[f].path)
                 PROVE  cache.dir[op[f].path].names \in seen'[op[f].path]
      BY <1>1 DEF FreshIsSeen, Asks
    <2>1. cache.dir[op[f].path].names \in seen[op[f].path]
      BY DEF SeenInv, FreshIsSeen
    <2>2. seen[op[f].path] \subseteq seen'[op[f].path]
      BY <1>1, SeenGrows DEF Asks
    <2> QED
      BY <2>1, <2>2
  <1> QED
    BY <1>1, <1>5, <1>6 DEF SeenInv, Observe

(* Another engine's operation after a listing of p was stored.             *)
LEMMA ParseListFreshens ==
    ASSUME LockInv, NEW e \in Engines, ParseList(e), NEW f \in Engines, f # e
    PROVE  /\ op'[f].st = op[f].st /\ op'[f].path = op[f].path
           /\ op'[f].fresh => op[f].fresh \/ (Good(e) /\ op[f].st = "list" /\ op[f].path = cwd[e])
  <1>1. CASE ~Good(e)
    <2>1. PICK mine : op' = [op EXCEPT ![e] = mine]
      BY <1>1 DEF ParseList
    <2> QED
      BY <2>1 DEF LockInv, Records
  <1>2. CASE Good(e)
    <2>1. PICK mine : op' = [g \in Engines |-> IF g # e THEN Freshen(op[g], cwd[e]) ELSE mine]
      BY <1>2 DEF ParseList
    <2>2. op'[f] = Freshen(op[f], cwd[e])
      BY <2>1
    <2>3. PICK n : n = Freshen(op[f], cwd[e])
      OBVIOUS
    <2>4. /\ n.st = op[f].st /\ n.path = op[f].path
          /\ n.fresh => op[f].fresh \/ (op[f].st = "list" /\ op[f].path = cwd[e])
      BY <2>3, OpNow, FreshenKeeps
    <2> QED
      BY <1>2, <2>2, <2>3, <2>4
  <1> QED
    BY <1>1, <1>2

LEMMA ParseListKeepsSeen ==
    ASSUME LockInv, LockInv', WireInv, WireInv', SeenInv, Observe,
           NEW e \in Engines, ParseList(e)
    PROVE  SeenInv'
  <1>1. /\ op[e].st = "list" /\ wire[e].st = "done" /\ wire' = [wire EXCEPT ![e] = Idle]
        /\ \E keys : ReleaseAll(LocksOf(e, keys))
    BY DEF ParseList, Replied
  <1>2. LocksApart(e)
    BY <1>1, LocksElsewhere
  <1>3. \A f \in Engines : f # e => wire'[f] = wire[f]
    BY <1>1 DEF LockInv, Records
  <1>4. op'[e].st # "list"
    <2>1. CASE op[e].cmd = "list"
      BY <2>1, ParseListOps, NoOpFits
    <2>2. CASE op[e].cmd # "list"
      <3>1. OpRecord(op[e]) /\ op'[e] = [op[e] EXCEPT !.st = "work"]
        BY <2>2, ParseListOps, OpNow
      <3> QED
        BY <3>1, NextState
    <2> QED
      BY <2>1, <2>2
  <1>5. cwd[e] = op[e].path /\ op[e].path \in Dirs
    BY <1>1, SubjectNow DEF Subject, Position
  <1>6. ASSUME NEW f \in Engines, op'[f].st = "list"
        PROVE  /\ f # e /\ op[f].st = "list" /\ op'[f].path = op[f].path
               /\ wire'[f] = wire[f] /\ (Asks(f)' => Asks(f))
               /\ Holds(f, "list") => Holds(f, "list")'
    <2>1. f # e /\ op[f].st = "list" /\ op'[f].path = op[f].path /\ wire'[f] = wire[f]
      BY <1>3, <1>4, <1>6, ParseListFreshens
    <2>2. Asks(f)' => Asks(f)
      BY <1>2, <2>1 DEF Asks, LocksApart, locks
    <2>3. Holds(f, "list") => Holds(f, "list")'
      BY <1>2, <2>1 DEF Holds, LocksApart
    <2> QED
      BY <2>1, <2>2, <2>3
  <1>7. ListsHold'
    <2> SUFFICES ASSUME NEW f \in Engines, op'[f].st = "list", wire'[f].st # "idle"
                 PROVE  /\ Holds(f, "list")' /\ ~wire'[f].skip
                        /\ wire'[f].st = "done" /\ wire'[f].reply = "ok" =>
                             wire'[f].names \in seen'[op'[f].path]
      BY DEF ListsHold
    <2>1. /\ Holds(f, "list") /\ ~wire[f].skip
          /\ wire[f].st = "done" /\ wire[f].reply = "ok" =>
               wire[f].names \in seen[op[f].path]
      BY <1>6 DEF SeenInv, ListsHold
    <2>2. PICK l \in locks' : l.owner = f
      BY <1>6, <2>1 DEF Holds, locks
    <2>3. seen[op'[f].path] \subseteq seen'[op'[f].path]
      BY <2>2, SeenGrows
    <2> QED
      BY <1>6, <2>1, <2>3
  <1>8. /\ IsCache(cache') /\ DOMAIN cache'.dir \subseteq Dirs
        /\ \A q : Sure(cache', q) =>
             \/ Good(e) /\ q = cwd[e] /\ cache'.dir[q].names = wire[e].names
             \/ /\ q # cwd[e] \/ ~Good(e)
                /\ Sure(cache, q) /\ cache'.dir[q].names = cache.dir[q].names
    <2>1. CASE ~Good(e)
      BY <2>1 DEF ParseList, SeenInv
    <2>2. CASE Good(e)
      <3>1. cache' = Store(cache, cwd[e], wire[e].names) /\ IsCache(cache)
            /\ DOMAIN cache.dir \subseteq Dirs
        BY <2>2 DEF ParseList, SeenInv
      <3>2. PICK d : d = Store(cache, cwd[e], wire[e].names)
        OBVIOUS
      <3>3. /\ IsCache(d) /\ DOMAIN d.dir \subseteq DOMAIN cache.dir \cup {cwd[e]}
            /\ \A q : Sure(d, q) =>
                 IF q = cwd[e] THEN d.dir[q].names = wire[e].names
                 ELSE Sure(cache, q) /\ d.dir[q].names = cache.dir[q].names
        BY <3>1, <3>2, StoreEffect
      <3>4. cache' = d
        BY <3>1, <3>2
      <3> QED
        BY <1>5, <2>2, <3>1, <3>3, <3>4
    <2> QED
      BY <2>1, <2>2
  <1>9. FreshIsSeen'
    <2> SUFFICES ASSUME NEW f \in Engines, Asks(f)', op'[f].fresh, Sure(cache', op'[f].path)
                 PROVE  cache'.dir[op'[f].path].names \in seen'[op'[f].path]
      BY DEF FreshIsSeen
    <2>1. op'[f].st = "list"
      BY DEF Asks
    <2>2. f # e /\ op[f].st = "list" /\ op'[f].path = op[f].path /\ Asks(f)
      BY <1>6, <2>1
    <2>3. seen[op'[f].path] \subseteq seen'[op'[f].path]
      BY <2>1, SeenGrows DEF Asks
    <2>4. CASE Good(e) /\ op[f].path = cwd[e] /\ cache'.dir[op[f].path].names = wire[e].names
      <3>1. wire[e].names \in seen[op[e].path]
        BY <1>1, <2>4 DEF SeenInv, ListsHold, Good
      <3> QED
        BY <1>5, <2>2, <2>3, <2>4, <3>1
    <2>5. CASE /\ op[f].path # cwd[e] \/ ~Good(e)
               /\ Sure(cache, op[f].path)
               /\ cache'.dir[op[f].path].names = cache.dir[op[f].path].names
      <3>1. op[f].fresh
        BY <2>2, <2>5, ParseListFreshens
      <3>2. cache.dir[op[f].path].names \in seen[op[f].path]
        BY <2>2, <2>5, <3>1 DEF SeenInv, FreshIsSeen
      <3> QED
        BY <2>2, <2>3, <2>5, <3>2
    <2> QED
      BY <1>8, <2>2, <2>4, <2>5
  <1> QED
    BY <1>7, <1>8, <1>9 DEF SeenInv, Observe

LEMMA SeenInitially == ASSUME Init PROVE SeenInv
  <1>1. \A e \in Engines : op[e] = NoOp
    BY DEF Init
  <1>2. IsCache(cache) /\ DOMAIN cache.dir = {}
    BY EmptyIsCache DEF Init
  <1> QED
    BY <1>1, <1>2, NoOpFits DEF Init, SeenInv, ListsHold, FreshIsSeen, Asks

LEMMA SeenStep ==
    ASSUME LockInv, LockInv', WireInv, WireInv', SeenInv, [Next]_vars
    PROVE  SeenInv'
  <1>1. CASE UNCHANGED vars
    <2>1. locks' = locks
      BY <1>1 DEF vars, locks
    <2> QED
      BY <1>1, <2>1 DEF vars, SeenInv, ListsHold, FreshIsSeen, Asks, Holds
  <1>2. CASE Next
    <2>1. Observe
      BY <1>2 DEF Next
    <2>2. CASE \A e \in Engines : ~ParseList(e) /\ ~ServerExecutes(e)
      <3>1. IsCache(cache)
        BY DEF SeenInv
      <3>2. Weaker(cache', cache)
        BY <2>2, <3>1, CacheWeakens
      <3>3. \A f \in Engines : Steady(f)
        BY <2>2, StepIsSteady
      <3> QED
        BY <2>1, <3>2, <3>3, SteadyKeepsSeen
    <2> QED
      BY <2>1, <2>2, ServerKeepsSeen, ParseListKeepsSeen
  <1> QED
    BY <1>1, <1>2

(* A refresh that is answered from the cache gets what the directory held  *)
(* while engines were listing it.                                          *)
THEOREM RefreshesAreRecent == Spec => []RefreshIsRecent
  <1>1. LockInv /\ WireInv /\ SeenInv => RefreshIsRecent
    <2> SUFFICES ASSUME LockInv, WireInv, SeenInv, NEW e \in Engines,
                        Runs(e, {"list"}), op[e].refresh, Usable(e)
                 PROVE  cache.dir[cwd[e]].names \in seen[cwd[e]]
      BY DEF RefreshIsRecent
    <2>1. op[e].st = "list" /\ Holds(e, "list") /\ op[e].fresh /\ Found(cache, cwd[e], FALSE)
      BY DEF Runs, Usable
    <2>2. cwd[e] = op[e].path
      BY <2>1, SubjectNow DEF Position
    <2>3. Asks(e)
      BY <2>1 DEF Asks, Holds, locks
    <2>4. Sure(cache, op[e].path)
      BY <2>1, <2>2 DEF Found, Cached, Sure
    <2> QED
      BY <2>1, <2>2, <2>3, <2>4 DEF SeenInv, FreshIsSeen
  <1>2. Init => LockInv /\ WireInv /\ SeenInv
    BY LocksInitially, OrderInitially, SeenInitially
  <1>3. LockInv /\ WireInv /\ SeenInv /\ [Next]_vars => (LockInv /\ WireInv /\ SeenInv)'
    BY LocksStep, OrderStep, SeenStep
  <1> QED
    BY <1>1, <1>2, <1>3, PTL DEF Spec


-----------------------------------------------------------------------------
(* Prefixes.                                                               *)

LEMMA PrefixMeans ==
    ASSUME NEW s \in Seq(Names), NEW t \in Seq(Names)
    PROVE  IsPrefix(s, t) <=> Len(s) <= Len(t) /\ \A k \in 1 .. Len(s) : s[k] = t[k]
  <1>1. Len(s) \in Nat /\ Len(t) \in Nat /\ SubSeq(s, 1, Len(s)) = s
    BY LenProperties, SubSeqFull
  <1>2. CASE Len(s) <= Len(t)
    <2>1. PICK r : r = SubSeq(t, 1, Len(s))
      OBVIOUS
    <2>2. Len(s) \in 0 .. Len(t)
      BY <1>1, <1>2
    <2>3. r \in Seq(Names) /\ Len(r) = Len(s) /\ \A k \in 1 .. Len(s) : r[k] = t[k]
      BY <2>1, <2>2, PrefixLength
    <2>4. s = r <=> \A k \in 1 .. Len(s) : s[k] = r[k]
      BY <2>3, SeqEqual
    <2> QED
      BY <1>1, <1>2, <2>1, <2>3, <2>4 DEF IsPrefix
  <1>3. CASE ~(Len(s) <= Len(t))
    BY <1>3 DEF IsPrefix
  <1> QED
    BY <1>2, <1>3

LEMMA PrefixIsSubSeq ==
    ASSUME NEW s \in Seq(Names), NEW t \in Seq(Names), IsPrefix(s, t)
    PROVE  Len(s) \in 0 .. Len(t) /\ s = SubSeq(t, 1, Len(s)) /\ (s # t => Strictly(s, t))
  <1>1. Len(s) \in Nat /\ Len(t) \in Nat /\ SubSeq(s, 1, Len(s)) = s /\ SubSeq(t, 1, Len(t)) = t
    BY LenProperties, SubSeqFull
  <1>2. Len(s) <= Len(t) /\ s = SubSeq(t, 1, Len(s))
    BY <1>1 DEF IsPrefix
  <1>3. s # t => Len(s) \in 0 .. Len(t) - 1
    BY <1>1, <1>2
  <1>4. s # t => Strictly(s, t)
    BY <1>2, <1>3, Zenon DEF Strictly
  <1> QED
    BY <1>1, <1>2, <1>4

LEMMA SubSeqIsPrefix ==
    ASSUME NEW t \in Seq(Names), NEW i \in 0 .. Len(t)
    PROVE  IsPrefix(SubSeq(t, 1, i), t)
  <1>1. PICK r : r = SubSeq(t, 1, i)
    OBVIOUS
  <1>2. r \in Seq(Names) /\ Len(r) = i /\ \A k \in 1 .. i : r[k] = t[k]
    BY <1>1, PrefixLength
  <1>3. Len(t) \in Nat
    BY LenProperties
  <1>4. Len(r) <= Len(t)
    BY <1>2, <1>3
  <1>5. IsPrefix(r, t)
    BY <1>2, <1>4, PrefixMeans
  <1> QED
    BY <1>1, <1>5

LEMMA PrefixTransitive ==
    ASSUME NEW a \in Seq(Names), NEW b \in Seq(Names), NEW c \in Seq(Names),
           IsPrefix(a, b), IsPrefix(b, c)
    PROVE  IsPrefix(a, c)
  <1>1. Len(a) \in Nat /\ Len(b) \in Nat /\ Len(c) \in Nat
    BY LenProperties
  <1>2. Len(a) <= Len(b) /\ \A k \in 1 .. Len(a) : a[k] = b[k]
    BY PrefixMeans
  <1>3. Len(b) <= Len(c) /\ \A k \in 1 .. Len(b) : b[k] = c[k]
    BY PrefixMeans
  <1>4. Len(a) <= Len(c) /\ \A k \in 1 .. Len(a) : a[k] = c[k]
    BY <1>1, <1>2, <1>3
  <1> QED
    BY <1>4, PrefixMeans

(* What is at or above m is m or at or above its parent.                   *)
LEMMA PrefixOfChild ==
    ASSUME NEW a \in Seq(Names), NEW m \in Nodes
    PROVE  IsPrefix(a, m) <=> a = m \/ IsPrefix(a, Front(m))
  <1>1. m \in Seq(Names) /\ Len(m) \in Nat \ {0} /\ Len(a) \in Nat
    BY PathsAreSequences, LenProperties
  <1>2. PICK f : f = Front(m)
    OBVIOUS
  <1>3. PICK i : i = Len(m) - 1
    OBVIOUS
  <1>4. i \in 0 .. Len(m) /\ f = SubSeq(m, 1, i)
    BY <1>1, <1>2, <1>3 DEF Front
  <1>5. f \in Seq(Names) /\ Len(f) = i /\ \A k \in 1 .. i : f[k] = m[k]
    BY <1>1, <1>4, PrefixLength
  <1>6. IsPrefix(f, m)
    BY <1>1, <1>4, SubSeqIsPrefix
  <1>7. IsPrefix(m, m)
    BY <1>1, PrefixMeans
  <1>8. ASSUME IsPrefix(a, m), a # m PROVE IsPrefix(a, f)
    <2>1. Len(a) <= Len(m) /\ \A k \in 1 .. Len(a) : a[k] = m[k]
      BY <1>1, <1>8, PrefixMeans
    <2>2. Len(a) # Len(m)
      BY <1>1, <1>8, <2>1, SeqEqual
    <2>3. Len(a) <= Len(f) /\ \A k \in 1 .. Len(a) : a[k] = f[k]
      BY <1>1, <1>3, <1>5, <2>1, <2>2
    <2> QED
      BY <1>5, <2>3, PrefixMeans
  <1> QED
    BY <1>1, <1>2, <1>5, <1>6, <1>7, <1>8, PrefixTransitive

LEMMA NothingAboveRoot ==
    ASSUME NEW a \in Seq(Names), NEW b \in Seq(Names), IsPrefix(a, b), a # <<>>
    PROVE  b # <<>>
  <1>1. Len(a) \in Nat /\ Len(a) # 0 /\ Len(b) \in Nat
    BY LenProperties, EmptySeq
  <1>2. Len(a) <= Len(b)
    BY PrefixMeans
  <1>3. Len(b) # 0
    BY <1>1, <1>2
  <1> QED
    BY <1>3, EmptySeq

-----------------------------------------------------------------------------
(* What the server does to the tree.                                       *)

LEMMA RootedMeans ==
    ASSUME NEW t
    PROVE  Rooted(t) <=> /\ t \subseteq Nodes
                         /\ \A n \in t : \A a \in Seq(Names) :
                               a # <<>> /\ IsPrefix(a, n) => a \in t
  <1>1. ASSUME Rooted(t), NEW n \in t, NEW a \in Seq(Names), a # <<>>, IsPrefix(a, n), a # n
        PROVE  a \in t
    <2>1. n \in Seq(Names) /\ Len(n) \in Nat /\ Len(a) \in Nat
      BY <1>1, PathsAreSequences, LenProperties DEF Rooted
    <2>2. Len(a) # 0
      BY <1>1, EmptySeq
    <2>3. a = SubSeq(n, 1, Len(a)) /\ Strictly(a, n)
      BY <1>1, <2>1, PrefixIsSubSeq
    <2>4. Len(a) \in 0 .. Len(n) - 1
      BY <1>1, <2>3, PrefixIsDir DEF Rooted
    <2>5. Len(a) \in 1 .. Len(n) - 1
      BY <2>1, <2>2, <2>4
    <2> QED
      BY <1>1, <2>3, <2>5 DEF Rooted
  <1>2. ASSUME t \subseteq Nodes, NEW n \in t, NEW i \in 1 .. Len(n) - 1,
               \A a \in Seq(Names) : a # <<>> /\ IsPrefix(a, n) => a \in t
        PROVE  SubSeq(n, 1, i) \in t
    <2>1. n \in Seq(Names) /\ Len(n) \in Nat
      BY <1>2, PathsAreSequences, LenProperties
    <2>2. i \in 0 .. Len(n) /\ i # 0
      BY <2>1
    <2>3. PICK a : a = SubSeq(n, 1, i)
      OBVIOUS
    <2>4. a \in Seq(Names) /\ Len(a) = i /\ IsPrefix(a, n)
      BY <2>1, <2>2, <2>3, PrefixLength, SubSeqIsPrefix
    <2>5. a # <<>>
      BY <2>2, <2>4, EmptySeq
    <2> QED
      BY <1>2, <2>3, <2>4, <2>5
  <1>3. Rooted(t) => t \subseteq Nodes
    BY DEF Rooted
  <1>4. (t \subseteq Nodes /\ \A n \in t : \A a \in Seq(Names) :
            a # <<>> /\ IsPrefix(a, n) => a \in t) => Rooted(t)
    BY <1>2 DEF Rooted
  <1> QED
    BY <1>1, <1>3, <1>4

(* A path n at or below arg, once arg has been renamed to to.              *)
Moved(arg, to, n) == to \o SubSeq(n, Len(arg) + 1, Len(n))

Replaces(m, arg, to, n) ==
    /\ m \in Seq(Names) /\ Len(m) = Len(to) + Len(n) - Len(arg)
    /\ IsPrefix(to, m) /\ Len(arg) <= Len(n)
    /\ \A k \in 1 .. Len(m) :
          m[k] = IF k <= Len(to) THEN to[k] ELSE n[k - Len(to) + Len(arg)]

LEMMA MovedPath ==
    ASSUME NEW arg \in Seq(Names), NEW to \in Seq(Names), NEW n \in Seq(Names),
           IsPrefix(arg, n)
    PROVE  Replaces(Moved(arg, to, n), arg, to, n)
  <1>1. Len(arg) \in Nat /\ Len(to) \in Nat /\ Len(n) \in Nat /\ Len(arg) <= Len(n)
    BY LenProperties, PrefixMeans
  <1>2. PICK s : s = SubSeq(n, Len(arg) + 1, Len(n))
    OBVIOUS
  <1>3. \A i \in Len(arg) + 1 .. Len(n) : n[i] \in Names
    BY <1>1, ElementOfSeq
  <1>4. /\ s \in Seq(Names) /\ Len(s) = Len(n) - Len(arg)
        /\ \A i \in 1 .. Len(n) - Len(arg) : s[i] = n[Len(arg) + i]
    <2>1. PICK i, j : i = Len(arg) + 1 /\ j = Len(n)
      OBVIOUS
    <2>2. /\ s \in Seq(Names) /\ Len(s) = (IF i <= j THEN j - i + 1 ELSE 0)
          /\ \A k \in 1 .. j - i + 1 : s[k] = n[i + k - 1]
      <3>1. i \in Int /\ j \in Int /\ \A k \in i .. j : n[k] \in Names
        BY <1>1, <1>3, <2>1
      <3> QED
        BY <1>2, <2>1, <3>1, SubSeqProperties
    <2> QED
      BY <1>1, <2>1, <2>2
  <1>5. PICK m : m = to \o s
    OBVIOUS
  <1>6. /\ m \in Seq(Names) /\ Len(m) = Len(to) + Len(s)
        /\ \A i \in 1 .. Len(to) + Len(s) : m[i] = IF i <= Len(to) THEN to[i] ELSE s[i - Len(to)]
    BY <1>4, <1>5, ConcatProperties
  <1>7. Len(m) = Len(to) + Len(n) - Len(arg) /\ Len(m) \in Nat
    BY <1>1, <1>4, <1>6
  <1>8. \A k \in 1 .. Len(m) :
            m[k] = IF k <= Len(to) THEN to[k] ELSE n[k - Len(to) + Len(arg)]
    <2> SUFFICES ASSUME NEW k \in 1 .. Len(m)
                 PROVE  m[k] = IF k <= Len(to) THEN to[k] ELSE n[k - Len(to) + Len(arg)]
      OBVIOUS
    <2>1. k <= Len(to) => m[k] = to[k]
      BY <1>1, <1>6, <1>7
    <2>2. ASSUME ~(k <= Len(to)) PROVE m[k] = n[k - Len(to) + Len(arg)]
      <3>1. PICK i : i = k - Len(to)
        OBVIOUS
      <3>2. i \in 1 .. Len(n) - Len(arg) /\ m[k] = s[i] /\ Len(arg) + i = k - Len(to) + Len(arg)
        BY <1>1, <1>6, <1>7, <2>2, <3>1
      <3> QED
        BY <1>4, <3>2
    <2> QED
      BY <2>1, <2>2
  <1>9. Len(to) <= Len(m) /\ \A k \in 1 .. Len(to) : to[k] = m[k]
    BY <1>1, <1>7, <1>8
  <1>10. IsPrefix(to, m)
    BY <1>6, <1>9, PrefixMeans
  <1>11. Moved(arg, to, n) = m
    BY <1>2, <1>5 DEF Moved
  <1>12. Replaces(m, arg, to, n)
    BY <1>1, <1>6, <1>7, <1>8, <1>10 DEF Replaces
  <1> QED
    BY <1>11, <1>12

(* What is at or above a moved path is above its new place or was moved.   *)
LEMMA AboveMoved ==
    ASSUME NEW arg \in Seq(Names), NEW to \in Seq(Names), NEW n \in Seq(Names),
           IsPrefix(arg, n), NEW a \in Seq(Names), IsPrefix(a, Moved(arg, to, n)),
           Len(to) <= Len(a)
    PROVE  \E b \in Seq(Names) : /\ IsPrefix(arg, b) /\ IsPrefix(b, n)
                                 /\ a = Moved(arg, to, b)
  <1>1. PICK m : m = Moved(arg, to, n)
    OBVIOUS
  <1>2. /\ m \in Seq(Names) /\ Len(m) = Len(to) + Len(n) - Len(arg) /\ Len(arg) <= Len(n)
        /\ \A k \in 1 .. Len(m) :
              m[k] = IF k <= Len(to) THEN to[k] ELSE n[k - Len(to) + Len(arg)]
    <2>1. Replaces(m, arg, to, n)
      BY <1>1, MovedPath
    <2> QED
      BY <2>1 DEF Replaces
  <1>3. /\ Len(arg) \in Nat /\ Len(to) \in Nat /\ Len(n) \in Nat /\ Len(a) \in Nat
        /\ Len(m) \in Nat
    BY <1>2, LenProperties
  <1>4. Len(a) <= Len(m) /\ \A k \in 1 .. Len(a) : a[k] = m[k]
    BY <1>1, <1>2, PrefixMeans
  <1>5. PICK j : j = Len(a) - Len(to) + Len(arg)
    OBVIOUS
  <1>6. j \in 0 .. Len(n) /\ Len(arg) <= j
    BY <1>2, <1>3, <1>4, <1>5
  <1>7. PICK b : b = SubSeq(n, 1, j)
    OBVIOUS
  <1>8. b \in Seq(Names) /\ Len(b) = j /\ \A k \in 1 .. j : b[k] = n[k]
    BY <1>6, <1>7, PrefixLength
  <1>9. IsPrefix(b, n)
    BY <1>6, <1>7, SubSeqIsPrefix
  <1>10. \A k \in 1 .. Len(arg) : arg[k] = n[k]
    BY PrefixMeans
  <1>11. Len(arg) <= Len(b) /\ \A k \in 1 .. Len(arg) : arg[k] = b[k]
    BY <1>3, <1>6, <1>8, <1>10
  <1>12. IsPrefix(arg, b)
    BY <1>8, <1>11, PrefixMeans
  <1>13. PICK c : c = Moved(arg, to, b)
    OBVIOUS
  <1>14. /\ c \in Seq(Names) /\ Len(c) = Len(to) + Len(b) - Len(arg)
         /\ \A k \in 1 .. Len(c) :
               c[k] = IF k <= Len(to) THEN to[k] ELSE b[k - Len(to) + Len(arg)]
    <2>1. Replaces(c, arg, to, b)
      BY <1>8, <1>12, <1>13, MovedPath
    <2> QED
      BY <2>1 DEF Replaces
  <1>15. Len(c) = Len(a)
    BY <1>3, <1>5, <1>8, <1>14
  <1>16. \A k \in 1 .. Len(a) : a[k] = c[k]
    <2> SUFFICES ASSUME NEW k \in 1 .. Len(a) PROVE a[k] = c[k]
      OBVIOUS
    <2>1. k \in 1 .. Len(m) /\ k \in 1 .. Len(c)
      BY <1>3, <1>4, <1>15
    <2>2. CASE k <= Len(to)
      BY <1>2, <1>4, <1>14, <2>1, <2>2
    <2>3. CASE ~(k <= Len(to))
      <3>1. PICK i : i = k - Len(to) + Len(arg)
        OBVIOUS
      <3>2. i \in 1 .. j
        BY <1>3, <1>5, <2>3, <3>1
      <3>3. a[k] = n[i] /\ c[k] = b[i]
        BY <1>2, <1>4, <1>14, <2>1, <2>3, <3>1
      <3> QED
        BY <1>8, <3>2, <3>3
    <2> QED
      BY <2>2, <2>3
  <1>17. a = c
    BY <1>14, <1>15, <1>16, SeqEqual
  <1> QED
    BY <1>8, <1>9, <1>12, <1>13, <1>17

LEMMA AddedKeepsRooted ==
    ASSUME TreeInv, NEW n \in Nodes, Exists(Front(n))
    PROVE  Rooted(tree \cup {n})
  <1>1. PICK t : t = tree \cup {n}
    OBVIOUS
  <1>2. t \subseteq Nodes
    BY <1>1 DEF TreeInv, Rooted
  <1>3. ASSUME NEW m \in t, NEW a \in Seq(Names), a # <<>>, IsPrefix(a, m) PROVE a \in t
    <2>1. CASE m \in tree
      BY <1>1, <1>3, <2>1, RootedMeans DEF TreeInv
    <2>2. CASE m = n /\ a # n
      <3>1. IsPrefix(a, Front(n))
        BY <1>3, <2>2, PrefixOfChild
      <3>2. Front(n) # <<>>
        <4>1. Front(n) \in Seq(Names)
          BY NodeIsChild
        <4> QED
          BY <1>3, <3>1, <4>1, NothingAboveRoot
      <3> QED
        BY <1>1, <1>3, <3>1, <3>2, RootedMeans DEF TreeInv, Exists
    <2> QED
      BY <1>1, <1>3, <2>1, <2>2
  <1> QED
    BY <1>1, <1>2, <1>3, RootedMeans

LEMMA RemovedKeepsRooted ==
    ASSUME TreeInv, NEW n \in Nodes, n \notin Dirs \/ Children(tree, n) = {}
    PROVE  Rooted(tree \ {n})
  <1>1. PICK t : t = tree \ {n}
    OBVIOUS
  <1>2. t \subseteq Nodes
    BY <1>1 DEF TreeInv, Rooted
  <1>3. ASSUME NEW m \in t, NEW a \in Seq(Names), a # <<>>, IsPrefix(a, m) PROVE a \in t
    <2>1. a \in tree /\ m \in tree /\ m # n
      BY <1>1, <1>3, RootedMeans DEF TreeInv
    <2>2. ASSUME a = n PROVE FALSE
      <3>1. m \in Seq(Names) /\ Len(m) \in Nat /\ Len(n) \in Nat
        BY <1>2, <1>3, PathsAreSequences
      <3>2. Strictly(n, m)
        BY <1>3, <2>1, <2>2, <3>1, PrefixIsSubSeq
      <3>3. n \in Dirs /\ Len(n) \in 0 .. Len(m) - 1 /\ n = SubSeq(m, 1, Len(n))
        BY <1>2, <3>2, PrefixIsDir
      <3>4. PICK j : j = Len(n) + 1
        OBVIOUS
      <3>5. j \in 0 .. Len(m) /\ j - 1 = Len(n) /\ j # 0 /\ Len(n) \in 0 .. j
        BY <3>1, <3>3, <3>4
      <3>6. PICK b : b = SubSeq(m, 1, j)
        OBVIOUS
      <3>7. b \in Seq(Names) /\ Len(b) = j /\ IsPrefix(b, m) /\ SubSeq(b, 1, Len(n)) = n
        BY <3>1, <3>3, <3>5, <3>6, PrefixLength, SubSeqIsPrefix, PrefixOfPrefix
      <3>8. b # <<>>
        BY <3>5, <3>7, EmptySeq
      <3>9. b \in tree
        BY <2>1, <3>7, <3>8, RootedMeans DEF TreeInv
      <3>10. Front(b) = n
        BY <3>5, <3>7 DEF Front
      <3>11. Last(b) \in Children(tree, n)
        BY <3>9, <3>10 DEF Children
      <3> QED
        BY <3>3, <3>11
    <2> QED
      BY <1>1, <2>1, <2>2
  <1> QED
    BY <1>1, <1>2, <1>3, RootedMeans

(* The tree once arg has been renamed to to.                               *)
Renaming(t, arg, to) ==
    {n \in t : ~IsPrefix(arg, n)}
      \cup {Moved(arg, to, n) : n \in {m \in t : IsPrefix(arg, m)}}

LEMMA RenamedKeepsRooted ==
    ASSUME TreeInv, NEW arg \in Nodes, NEW to \in Nodes, arg # to, ~Below(arg, to),
           arg \in tree, Exists(Front(to)),
           \A n \in tree : IsPrefix(arg, n) => Moved(arg, to, n) \in Nodes
    PROVE  Rooted(Renaming(tree, arg, to))
  <1>1. PICK t : t = Renaming(tree, arg, to)
    OBVIOUS
  <1>2. tree \subseteq Nodes /\ tree \subseteq Seq(Names) /\ arg \in Seq(Names)
        /\ to \in Seq(Names) /\ Len(arg) \in Nat /\ Len(to) \in Nat
    BY PathsAreSequences DEF TreeInv, Rooted
  <1>3. t \subseteq Nodes
    BY <1>1, <1>2 DEF Renaming
  <1>4. ASSUME NEW n \in tree, ~IsPrefix(arg, n), NEW a \in Seq(Names), a # <<>>,
               IsPrefix(a, n)
        PROVE  a \in t
    <2>1. a \in tree
      BY <1>4, RootedMeans DEF TreeInv
    <2>2. ~IsPrefix(arg, a)
      BY <1>2, <1>4, PrefixTransitive
    <2> QED
      BY <1>1, <2>1, <2>2 DEF Renaming
  <1>5. ASSUME NEW n \in tree, IsPrefix(arg, n), NEW a \in Seq(Names), a # <<>>,
               IsPrefix(a, Moved(arg, to, n))
        PROVE  a \in t
    <2>1. n \in Seq(Names) /\ Len(a) \in Nat
      BY <1>2, LenProperties
    <2>2. CASE Len(to) <= Len(a)
      <3>1. PICK b \in Seq(Names) : /\ IsPrefix(arg, b) /\ IsPrefix(b, n)
                                    /\ a = Moved(arg, to, b)
        BY <1>2, <1>5, <2>1, <2>2, AboveMoved
      <3>2. b # <<>>
        <4>1. Len(arg) <= Len(b) /\ Len(arg) # 0
          BY <1>2, <3>1, PrefixMeans, PathsAreSequences
        <4> QED
          BY <1>2, <4>1, EmptySeq
      <3>3. b \in tree
        BY <1>5, <3>1, <3>2, RootedMeans DEF TreeInv
      <3> QED
        BY <1>1, <3>1, <3>3 DEF Renaming
    <2>3. CASE Len(a) < Len(to)
      <3>1. PICK m : m = Moved(arg, to, n)
        OBVIOUS
      <3>2. Replaces(m, arg, to, n)
        BY <1>2, <1>5, <2>1, <3>1, MovedPath
      <3>3. m \in Seq(Names) /\ IsPrefix(to, m)
        BY <3>2 DEF Replaces
      <3>4. \A k \in 1 .. Len(to) : to[k] = m[k]
        BY <1>2, <3>3, PrefixMeans
      <3>5. \A k \in 1 .. Len(a) : a[k] = m[k]
        BY <1>5, <3>1, <3>3, PrefixMeans
      <3>6. Len(a) <= Len(to) /\ \A k \in 1 .. Len(a) : a[k] = to[k]
        BY <1>2, <2>1, <2>3, <3>4, <3>5
      <3>7. IsPrefix(a, to) /\ a # to
        BY <1>2, <2>1, <2>3, <3>6, PrefixMeans
      <3>8. IsPrefix(a, Front(to))
        BY <3>7, PrefixOfChild
      <3>9. Front(to) # <<>>
        <4>1. Front(to) \in Seq(Names)
          BY NodeIsChild
        <4> QED
          BY <1>5, <3>8, <4>1, NothingAboveRoot
      <3>10. a \in tree
        BY <1>5, <3>8, <3>9, RootedMeans DEF TreeInv, Exists
      <3>11. ~IsPrefix(arg, a)
        <4>1. IsPrefix(arg, a) => IsPrefix(arg, to)
          BY <1>2, <3>7, PrefixTransitive
        <4> QED
          BY <4>1 DEF Below, IsStrictPrefix
      <3> QED
        BY <1>1, <3>10, <3>11 DEF Renaming
    <2> QED
      BY <1>2, <2>1, <2>2, <2>3
  <1>6. \A m \in t : \A a \in Seq(Names) : a # <<>> /\ IsPrefix(a, m) => a \in t
    BY <1>1, <1>4, <1>5 DEF Renaming
  <1> QED
    BY <1>1, <1>3, <1>6, RootedMeans

(* The verbs that change the tree, and what they found.                    *)
LEMMA TreeAfterVerbs ==
    ASSUME NEW w, Sane(w), Outcome(w) = "ok"
    PROVE  \/ w.verb = "MKD" /\ w.arg \in Dirs /\ ~Exists(w.arg) /\ Exists(Front(w.arg))
                /\ TreeAfter(w) = tree \cup {w.arg}
           \/ w.verb = "STOR" /\ w.arg \in Nodes \ Dirs /\ Exists(Front(w.arg))
                /\ TreeAfter(w) = tree \cup {w.arg}
           \/ w.verb = "RMD" /\ w.arg \in Nodes \cap Dirs /\ Children(tree, w.arg) = {}
                /\ TreeAfter(w) = tree \ {w.arg}
           \/ w.verb = "DELE" /\ w.arg \in Nodes \ Dirs /\ TreeAfter(w) = tree \ {w.arg}
           \/ w.verb \in {"CWD", "LIST", "RNFR", "CHMOD"} /\ TreeAfter(w) = tree
           \/ /\ w.verb = "RNTO" /\ w.arg \in Nodes /\ w.to \in Nodes /\ w.arg # w.to
              /\ ~Below(w.arg, w.to) /\ Exists(w.arg) /\ Exists(Front(w.to))
              /\ w.to \in Dirs => ~Exists(w.to)
              /\ \A n \in tree : IsPrefix(w.arg, n) => Moved(w.arg, w.to, n) \in Nodes
              /\ TreeAfter(w) = Renaming(tree, w.arg, w.to)
  <1>1. CASE w.verb = "MKD"
    BY <1>1 DEF Sane, Outcome, TreeAfter
  <1>2. CASE w.verb = "STOR"
    BY <1>2 DEF Sane, Outcome, TreeAfter
  <1>3. CASE w.verb = "RMD"
    BY <1>3 DEF Sane, Outcome, TreeAfter
  <1>4. CASE w.verb = "DELE"
    BY <1>4 DEF Sane, Outcome, TreeAfter
  <1>5. CASE w.verb \in {"CWD", "LIST", "RNFR", "CHMOD"}
    BY <1>5 DEF TreeAfter
  <1>6. CASE w.verb = "RNTO"
    <2>1. /\ w.arg \in Nodes /\ w.to \in Nodes /\ w.arg # w.to /\ ~Below(w.arg, w.to)
      BY <1>6 DEF Sane
    <2>2. /\ Exists(w.arg) /\ Exists(Front(w.to)) /\ (w.to \in Dirs => ~Exists(w.to))
          /\ \A n \in tree : IsPrefix(w.arg, n) => Moved(w.arg, w.to, n) \in Nodes
      BY <1>6 DEF Outcome, Moved
    <2>3. TreeAfter(w) = Renaming(tree, w.arg, w.to)
      BY <1>6 DEF TreeAfter, Renaming, Moved
    <2> QED
      BY <1>6, <2>1, <2>2, <2>3
  <1> QED
    BY <1>1, <1>2, <1>3, <1>4, <1>5, <1>6 DEF Sane

LEMMA TreeAfterRooted ==
    ASSUME TreeInv, NEW w, Sane(w), Outcome(w) = "ok"
    PROVE  Rooted(TreeAfter(w))
  <1>1. CASE w.verb = "MKD" /\ w.arg \in Dirs /\ ~Exists(w.arg) /\ Exists(Front(w.arg))
             /\ TreeAfter(w) = tree \cup {w.arg}
    <2>1. w.arg \in Nodes
      BY <1>1, PathsAreSequences DEF Exists
    <2> QED
      BY <1>1, <2>1, AddedKeepsRooted
  <1>2. CASE w.verb = "STOR" /\ w.arg \in Nodes \ Dirs /\ Exists(Front(w.arg))
             /\ TreeAfter(w) = tree \cup {w.arg}
    BY <1>2, AddedKeepsRooted
  <1>3. CASE w.verb = "RMD" /\ w.arg \in Nodes \cap Dirs /\ Children(tree, w.arg) = {}
             /\ TreeAfter(w) = tree \ {w.arg}
    BY <1>3, RemovedKeepsRooted
  <1>4. CASE w.verb = "DELE" /\ w.arg \in Nodes \ Dirs /\ TreeAfter(w) = tree \ {w.arg}
    BY <1>4, RemovedKeepsRooted
  <1>5. CASE w.verb \in {"CWD", "LIST", "RNFR", "CHMOD"} /\ TreeAfter(w) = tree
    BY <1>5 DEF TreeInv
  <1>6. CASE /\ w.arg \in Nodes /\ w.to \in Nodes /\ w.arg # w.to
             /\ ~Below(w.arg, w.to) /\ Exists(w.arg) /\ Exists(Front(w.to))
             /\ \A n \in tree : IsPrefix(w.arg, n) => Moved(w.arg, w.to, n) \in Nodes
             /\ TreeAfter(w) = Renaming(tree, w.arg, w.to)
    <2>1. w.arg \in tree
      BY <1>6, PathsAreSequences DEF Exists
    <2> QED
      BY <1>6, <2>1, RenamedKeepsRooted
  <1> QED
    BY <1>1, <1>2, <1>3, <1>4, <1>5, <1>6, TreeAfterVerbs

(* A directory that a command did not change.                              *)
LEMMA ChildrenSame ==
    ASSUME NEW t, NEW u, NEW p, \A m : Front(m) = p => (m \in t <=> m \in u)
    PROVE  Children(t, p) = Children(u, p)
  BY DEF Children

LEMMA ChangedBy ==
    ASSUME NEW w, w.reply = "ok"
    PROVE  /\ w.verb \in {"MKD", "DELE", "STOR"} => Changed(w) = {Front(w.arg)}
           /\ w.verb = "RMD" => Changed(w) = {Front(w.arg), w.arg}
           /\ w.verb = "RNTO" => Changed(w) = {p \in Dirs : \E n \in {w.arg, w.to} :
                                                  p = Front(n) \/ IsPrefix(n, p)}
           /\ w.verb \in {"CWD", "LIST", "RNFR", "CHMOD"} => Changed(w) = {}
  <1>1. CASE w.verb = "RNTO"
    BY <1>1 DEF Changed
  <1>2. CASE w.verb # "RNTO"
    BY <1>2 DEF Changed
  <1> QED
    BY <1>1, <1>2

LEMMA CleansChanged == ASSUME NEW w PROVE Cleans(w) \subseteq Changed(w)
  BY DEF Cleans

LEMMA Untouched ==
    ASSUME TreeInv, NEW w, Sane(w), w.reply = "ok", Outcome(w) = "ok",
           NEW p \in Dirs, Exists(p), p \notin Changed(w)
    PROVE  /\ p = <<>> \/ p \in TreeAfter(w)
           /\ Children(TreeAfter(w), p) = Children(tree, p)
  <1>1. CASE /\ w.verb \in {"MKD", "STOR"} /\ TreeAfter(w) = tree \cup {w.arg}
    <2>1. p # Front(w.arg)
      BY <1>1, ChangedBy
    <2>2. \A m : Front(m) = p => (m \in TreeAfter(w) <=> m \in tree)
      BY <1>1, <2>1
    <2> QED
      BY <1>1, <2>2, ChildrenSame DEF Exists
  <1>2. CASE /\ w.verb \in {"RMD", "DELE"} /\ TreeAfter(w) = tree \ {w.arg}
             /\ w.verb = "DELE" => w.arg \notin Dirs
    <2>1. p # Front(w.arg) /\ p # w.arg
      BY <1>2, ChangedBy
    <2>2. \A m : Front(m) = p => (m \in TreeAfter(w) <=> m \in tree)
      BY <1>2, <2>1
    <2> QED
      BY <1>2, <2>1, <2>2, ChildrenSame DEF Exists
  <1>3. CASE TreeAfter(w) = tree
    BY <1>3 DEF Exists
  <1>4. CASE /\ w.verb = "RNTO" /\ w.arg \in Nodes /\ w.to \in Nodes
             /\ \A n \in tree : IsPrefix(w.arg, n) => Moved(w.arg, w.to, n) \in Nodes
             /\ TreeAfter(w) = Renaming(tree, w.arg, w.to)
    <2>1. PICK arg, to : arg = w.arg /\ to = w.to
      OBVIOUS
    <2>2. arg \in Nodes /\ to \in Nodes /\ arg \in Seq(Names) /\ to \in Seq(Names)
          /\ tree \subseteq Nodes /\ tree \subseteq Seq(Names)
      BY <1>4, <2>1, PathsAreSequences DEF TreeInv, Rooted
    <2>3. p # Front(arg) /\ p # Front(to) /\ ~IsPrefix(arg, p) /\ ~IsPrefix(to, p)
      BY <1>4, <2>1, ChangedBy
    <2>4. ASSUME NEW n \in tree, IsPrefix(arg, n)
          PROVE  /\ n # p /\ Front(n) # p /\ Moved(arg, to, n) # p
                 /\ Front(Moved(arg, to, n)) # p
      <3>1. n # p /\ n \in Nodes
        BY <2>2, <2>3, <2>4
      <3>2. Front(n) # p
        BY <2>2, <2>3, <2>4, <3>1, PrefixOfChild
      <3>3. PICK m : m = Moved(arg, to, n)
        OBVIOUS
      <3>4. m \in Nodes
        BY <1>4, <2>1, <2>4, <3>3
      <3>5. Replaces(m, arg, to, n)
        BY <2>2, <2>4, <3>3, MovedPath
      <3>6. IsPrefix(to, m)
        BY <3>5 DEF Replaces
      <3>7. m # p
        BY <2>3, <3>6
      <3>8. Front(m) # p
        BY <2>2, <2>3, <3>4, <3>6, PrefixOfChild
      <3> QED
        BY <3>1, <3>2, <3>3, <3>7, <3>8
    <2>5. PICK t : t = Renaming(tree, arg, to)
      OBVIOUS
    <2>6. \A m : Front(m) = p => (m \in t <=> m \in tree)
      BY <2>4, <2>5 DEF Renaming
    <2>7. p \in t <=> p \in tree
      BY <2>4, <2>5 DEF Renaming
    <2>8. Children(t, p) = Children(tree, p)
      BY <2>6, ChildrenSame
    <2> QED
      BY <1>4, <2>1, <2>5, <2>7, <2>8 DEF Exists
  <1> QED
    BY <1>1, <1>2, <1>3, <1>4, TreeAfterVerbs

(* Nothing can be renamed to a directory that exists, so there was no such *)
(* directory before.                                                       *)
LEMMA NotThereBefore ==
    ASSUME TreeInv, NEW w, Sane(w), Outcome(w) = "ok", w.reply = "ok",
           NEW p \in Changed(w) \ Cleans(w)
    PROVE  ~Exists(p)
  <1>1. w.verb = "RNTO"
    BY DEF Cleans
  <1>2. p \in Dirs /\ IsPrefix(w.to, p)
    BY <1>1, ChangedBy DEF Cleans
  <1>3. w.to \in Nodes /\ (w.to \in Dirs => ~Exists(w.to))
    BY <1>1, TreeAfterVerbs
  <1>4. w.to \in Seq(Names) /\ p \in Seq(Names) /\ w.to # <<>>
    BY <1>2, <1>3, PathsAreSequences
  <1>5. w.to \in Dirs
    BY <1>2, <1>4, PrefixIsSubSeq, PrefixIsDir
  <1>6. p # <<>>
    BY <1>2, <1>4, NothingAboveRoot
  <1>7. p \in tree => w.to \in tree
    BY <1>2, <1>4, RootedMeans DEF TreeInv
  <1> QED
    BY <1>3, <1>5, <1>6, <1>7 DEF Exists

-----------------------------------------------------------------------------
(* What is sure is right, or about to be given up.                         *)

(* The changes that f has on its wire, answered, are not lost.             *)
Remembers(f) ==
    wire[f].st = "done" /\ ~wire[f].skip =>
        wire'[f] = wire[f] \/ \A p \in Cleans(wire[f]) : ~Sure(cache', p) \/ p \in missed'

LEMMA WeakerKeepsSure ==
    ASSUME SureInv, Weaker(cache', cache), UNCHANGED tree, missed \subseteq missed',
           \A f \in Engines : Remembers(f)
    PROVE  SureInv'
  <1> SUFFICES ASSUME NEW p, Sure(cache', p), p \notin missed'
               PROVE  Right(p)' \/ Covered(p)'
    BY DEF SureInv
  <1>1. Sure(cache, p) /\ cache'.dir[p].names = cache.dir[p].names /\ p \notin missed
    BY DEF Weaker
  <1>2. CASE Right(p)
    BY <1>1, <1>2 DEF Right, Exists
  <1>3. CASE Covered(p)
    BY <1>3 DEF Covered, Remembers
  <1> QED
    BY <1>1, <1>2, <1>3 DEF SureInv

LEMMA OthersRemember ==
    ASSUME LockInv, NEW e \in Engines, NEW w, Puts(e, w), Remembers(e)
    PROVE  \A f \in Engines : Remembers(f)
  <1>1. \A f \in Engines : f # e => wire'[f] = wire[f]
    BY DEF Puts, LockInv, Records
  <1> QED
    BY <1>1 DEF Remembers

(* A reply to a command that changes nothing.                              *)
LEMMA NothingToRemember ==
    ASSUME LockInv, WireInv, NEW e \in Engines,
           \/ wire[e].st # "done" \/ wire[e].skip \/ UNCHANGED wire
           \/ op[e].st \in {"cwd", "findparent", "cwdsub", "list", "rnfr"}
    PROVE  Remembers(e)
  <1>1. CASE wire[e].st # "done" \/ wire[e].skip \/ UNCHANGED wire
    BY <1>1 DEF Remembers
  <1>2. CASE /\ wire[e].st = "done" /\ ~wire[e].skip
             /\ op[e].st \in {"cwd", "findparent", "cwdsub", "list", "rnfr"}
    <2>1. Request(wire[e], op[e])
      BY <1>2 DEF WireInv, Orderly
    <2>2. wire[e].verb \in {"CWD", "LIST", "RNFR"}
      BY <1>2, <2>1 DEF Request
    <2>3. Changed(wire[e]) = {}
      BY <2>2 DEF Changed
    <2> QED
      BY <2>3, CleansChanged DEF Remembers
  <1> QED
    BY <1>1, <1>2

LEMMA SendsRemembers ==
    ASSUME LockInv, WireInv, NEW e \in Engines, wire[e].st = "idle",
           NEW verb, NEW arg, NEW to, Sends(e, verb, arg, to)
    PROVE  \A f \in Engines : Remembers(f)
  <1>1. PICK w : Puts(e, w)
    BY SendsPuts
  <1> QED
    BY <1>1, NothingToRemember, OthersRemember

LEMMA SendRemembers ==
    ASSUME LockInv, WireInv, NEW e \in Engines, Send(e)
    PROVE  UNCHANGED <<tree, missed>> /\ \A f \in Engines : Remembers(f)
  <1>1. UNCHANGED <<tree, missed>>
    BY DEF Send, AwaitReplies, Blocks, history, CwdInit, CwdSend, MkdLock, MkdInit, MkdSend,
           ListSend, WorkSend
  <1>2. CASE UNCHANGED wire
    BY <1>1, <1>2 DEF Remembers
  <1>3. CASE \E verb, arg, to : wire[e].st = "idle" /\ Sends(e, verb, arg, to)
    BY <1>1, <1>3, SendsRemembers
  <1>4. UNCHANGED wire \/ \E verb, arg, to : wire[e].st = "idle" /\ Sends(e, verb, arg, to)
    BY DEF Send, AwaitReplies, Blocks, CwdInit, CwdSend, MkdLock, MkdInit, MkdSend,
           ListSend, WorkSend, Runs
  <1> QED
    BY <1>1, <1>2, <1>3, <1>4

LEMMA MkdSubRemembers ==
    ASSUME LockInv, WireInv, IsCache(cache), NEW e \in Engines, ParseMkdSub(e)
    PROVE  Remembers(e)
  <1>1. op[e].st = "mkdsub" /\ wire[e].st = "done" /\ ~wire[e].skip
    BY DEF ParseMkdSub, Replied
  <1>2. Request(wire[e], op[e])
    BY <1>1 DEF WireInv, Orderly
  <1>3. wire[e].verb = "MKD" /\ wire[e].arg = NextDir(op[e])
    BY <1>1, <1>2 DEF Request
  <1>4. op[e].path \in Dirs /\ Strictly(op[e].cur, op[e].path)
    BY <1>1, MkdPosition DEF MkdStates
  <1>5. Front(wire[e].arg) = op[e].cur
    BY <1>3, <1>4, NextDirIsNext
  <1>6. CASE wire[e].reply = "ok"
    <2>1. cache' = UpdateFile(cache, op[e].cur, Last(NextDir(op[e])), TRUE)
      BY <1>6 DEF ParseMkdSub, Created
    <2>2. PICK d : d = UpdateFile(cache, op[e].cur, Last(NextDir(op[e])), TRUE)
      OBVIOUS
    <2>3. ~Sure(d, op[e].cur)
      BY <2>2, UpdateWeakens
    <2>4. Changed(wire[e]) = {op[e].cur}
      BY <1>3, <1>5, <1>6, ChangedBy
    <2>5. cache' = d
      BY <2>1, <2>2
    <2> QED
      BY <2>3, <2>4, <2>5, CleansChanged DEF Remembers
  <1>7. CASE wire[e].reply # "ok"
    <2>1. Changed(wire[e]) = {}
      BY <1>7 DEF Changed
    <2> QED
      BY <2>1, CleansChanged DEF Remembers
  <1> QED
    BY <1>6, <1>7

LEMMA TryFullRemembers ==
    ASSUME LockInv, WireInv, NEW e \in Engines, ParseTryFull(e)
    PROVE  Remembers(e) /\ missed \subseteq missed'
  <1>1. op[e].st = "tryfull" /\ wire[e].st = "done" /\ ~wire[e].skip
    BY DEF ParseTryFull, Replied
  <1>2. Request(wire[e], op[e])
    BY <1>1 DEF WireInv, Orderly
  <1>3. wire[e].verb = "MKD" /\ wire[e].arg = op[e].path
    BY <1>1, <1>2 DEF Request
  <1>4. CASE wire[e].reply = "ok"
    <2>1. Changed(wire[e]) = {Front(op[e].path)}
      BY <1>3, <1>4, ChangedBy
    <2>2. missed' = missed \cup {Front(op[e].path)}
      BY <1>4 DEF ParseTryFull, Good
    <2> QED
      BY <2>1, <2>2, CleansChanged DEF Remembers
  <1>5. CASE wire[e].reply # "ok"
    <2>1. Changed(wire[e]) = {} /\ missed' = missed
      BY <1>5 DEF Changed, ParseTryFull, Good
    <2> QED
      BY <2>1, CleansChanged DEF Remembers
  <1> QED
    BY <1>4, <1>5

(* The listings that the success of a renaming makes the cache give up.    *)
LEMMA RenameRemembers ==
    ASSUME LockInv, WireInv, IsCache(cache), DOMAIN cache.dir \subseteq Dirs,
           NEW o, Subject(o), o.cmd = "rename",
           NEW w, w.verb = "RNTO", w.reply = "ok", w.arg = o.node, w.to = o.to,
           NEW p \in Cleans(w)
    PROVE  ~Sure(Updated(o), p) \/ p \in Unnoticed(o)
  <1>1. PICK n, m : n = o.node /\ m = o.to
    OBVIOUS
  <1>2. n \in Nodes /\ m \in Nodes /\ n # m
    BY <1>1 DEF Subject
  <1>3. PICK d : d = Rename(cache, Front(n), Last(n), Front(m), Last(m))
    OBVIOUS
  <1>4. Updated(o) = d
    BY <1>1, <1>3 DEF Updated
  <1>5. Front(n) # Front(m) \/ Last(n) # Last(m)
    BY <1>2, OtherName
  <1>6. /\ Weaker(d, cache)
        /\ \/ Cached(cache, Front(n)) /\ Last(n) \notin cache.dir[Front(n)].names
           \/ Renamed(d, Front(n), Last(n), Front(m), Last(m))
    BY <1>3, <1>5, RenameWeakens
  <1>7. p \in {q \in Dirs : \E k \in {n, m} : q = Front(k) \/ IsPrefix(k, q)}
    BY <1>1, CleansChanged, ChangedBy
  <1>8. CASE Cached(cache, Front(n)) /\ Last(n) \notin cache.dir[Front(n)].names
    <2>1. Unnoticed(o) = {q \in Dirs : \E k \in {n, m} : q = Front(k) \/ IsPrefix(k, q)}
      BY <1>1, <1>8 DEF Unnoticed
    <2> QED
      BY <1>7, <2>1
  <1>9. CASE Renamed(d, Front(n), Last(n), Front(m), Last(m))
    <2>1. CASE p = Front(n) \/ p = Front(m)
      BY <1>4, <1>9, <2>1 DEF Renamed
    <2>2. ASSUME NEW k \in {n, m}, IsPrefix(k, p), k = n \/ Front(n) = Front(m)
          PROVE  ~Sure(d, p)
      <3>1. p \in Dirs /\ k \in Nodes /\ p \in Seq(Names) /\ k \in Seq(Names)
        BY <1>2, <1>7, PathsAreSequences
      <3>2. k \in Dirs
        BY <2>2, <3>1, PrefixIsSubSeq, PrefixIsDir
      <3>3. n \in Dirs
        BY <1>1, <3>2 DEF Subject
      <3>4. Last(n) \in DirNames
        BY <1>2, <3>3, PathsAreSequences DEF Dirs
      <3>5. k = Append(Front(k), Last(k))
        BY <3>1, NodeIsChild
      <3>6. \A r \in DOMAIN d.dir : r # k /\ ~Below(k, r)
        BY <1>9, <2>2, <3>4, <3>5 DEF Renamed
      <3> QED
        BY <2>2, <3>6 DEF Sure, Below, IsStrictPrefix
    <2>3. \/ p = Front(n) \/ p = Front(m) \/ IsPrefix(n, p)
          \/ Front(n) = Front(m)
      BY <1>1 DEF Cleans
    <2> QED
      BY <1>4, <1>7, <2>1, <2>2, <2>3
  <1> QED
    BY <1>6, <1>8, <1>9

LEMMA WorkRemembers ==
    ASSUME LockInv, WireInv, IsCache(cache), DOMAIN cache.dir \subseteq Dirs,
           NEW e \in Engines, ParseWork(e)
    PROVE  Remembers(e) /\ missed \subseteq missed'
  <1>1. missed \subseteq missed'
    BY DEF ParseWork
  <1>2. CASE op[e].st = "rnfr"
    BY <1>1, <1>2, NothingToRemember
  <1>3. CASE op[e].st = "work" /\ wire[e].reply # "ok"
    <2>1. Changed(wire[e]) = {}
      BY <1>3 DEF Changed
    <2> QED
      BY <1>1, <2>1, CleansChanged DEF Remembers
  <1>4. CASE op[e].st = "work" /\ wire[e].reply = "ok"
    <2>1. wire[e].st = "done" /\ ~wire[e].skip
      BY DEF ParseWork, Replied
    <2>2. PICK o, w : o = op[e] /\ w = wire[e]
      OBVIOUS
    <2>3. Request(w, o) /\ Subject(o) /\ Position(o, cwd[e])
      BY <2>1, <2>2 DEF WireInv, Orderly
    <2>4. w.verb = Verb(o.cmd) /\ w.arg = o.node /\ w.to = o.to
      BY <1>4, <2>2, <2>3 DEF Request
    <2>5. o.cmd \in {"rmd", "delete", "chmod", "upload", "rename"} /\ o.node \in Nodes
      BY <1>4, <2>2, <2>3 DEF Position, Subject
    <2>6. cache' = Updated(o) /\ missed' = missed \cup Unnoticed(o)
      BY <1>4, <2>2 DEF ParseWork, Replied, Good
    <2>7. PICK n : n = o.node
      OBVIOUS
    <2>8. n \in Nodes /\ n = Append(Front(n), Last(n))
      BY <2>5, <2>7, NodeIsChild
    <2>9. \A p \in Cleans(w) : ~Sure(cache', p) \/ p \in missed'
      <3>1. CASE o.cmd = "rmd"
        <4>1. PICK d : d = RemoveDir(cache, Front(n), Last(n))
          OBVIOUS
        <4>2. cache' = d
          BY <2>6, <2>7, <3>1, <4>1 DEF Updated
        <4>3. ~Sure(d, Front(n)) /\ \A q \in DOMAIN d.dir : q # n
          BY <2>8, <4>1, RemoveDirWeakens
        <4>4. Changed(w) = {Front(n), n}
          BY <1>4, <2>2, <2>4, <2>7, <3>1, ChangedBy DEF Verb
        <4> QED
          BY <4>2, <4>3, <4>4, CleansChanged DEF Sure
      <3>2. CASE o.cmd = "delete"
        <4>1. PICK d : d = RemoveFile(cache, Front(n), Last(n))
          OBVIOUS
        <4>2. cache' = d
          BY <2>6, <2>7, <3>2, <4>1 DEF Updated
        <4>3. ~Sure(d, Front(n))
          BY <4>1, RemoveFileWeakens
        <4>4. Changed(w) = {Front(n)}
          BY <1>4, <2>2, <2>4, <2>7, <3>2, ChangedBy DEF Verb
        <4> QED
          BY <4>2, <4>3, <4>4, CleansChanged
      <3>3. CASE o.cmd = "chmod"
        <4>1. Changed(w) = {}
          BY <1>4, <2>2, <2>4, <3>3, ChangedBy DEF Verb
        <4> QED
          BY <4>1, CleansChanged
      <3>4. CASE o.cmd = "upload"
        <4>1. PICK d : d = UpdateFile(cache, Front(n), Last(n), TRUE)
          OBVIOUS
        <4>2. cache' = d
          BY <2>6, <2>7, <3>4, <4>1 DEF Updated
        <4>3. ~Sure(d, Front(n))
          BY <4>1, UpdateWeakens
        <4>4. Changed(w) = {Front(n)}
          BY <1>4, <2>2, <2>4, <2>7, <3>4, ChangedBy DEF Verb
        <4> QED
          BY <4>2, <4>3, <4>4, CleansChanged
      <3>5. CASE o.cmd = "rename"
        <4>1. w.verb = "RNTO" /\ w.reply = "ok"
          BY <1>4, <2>2, <2>4, <3>5 DEF Verb
        <4> QED
          BY <2>3, <2>4, <2>6, <3>5, <4>1, RenameRemembers
      <3> QED
        BY <2>5, <3>1, <3>2, <3>3, <3>4, <3>5
    <2> QED
      BY <1>1, <2>2, <2>9 DEF Remembers
  <1> QED
    BY <1>2, <1>3, <1>4 DEF ParseWork, Replied

(* Every step but those of the server, of other clients and of a listing.  *)
LEMMA StepRemembers ==
    ASSUME LockInv, WireInv, IsCache(cache), DOMAIN cache.dir \subseteq Dirs, [Next]_vars,
           ~OthersChange, \A e \in Engines : ~ParseList(e) /\ ~ServerExecutes(e)
    PROVE  UNCHANGED tree /\ missed \subseteq missed' /\ \A f \in Engines : Remembers(f)
  <1>1. ASSUME UNCHANGED <<tree, missed, wire>>
        PROVE  UNCHANGED tree /\ missed \subseteq missed' /\ \A f \in Engines : Remembers(f)
    BY <1>1 DEF Remembers
  <1>2. ASSUME NEW e \in Engines, Command(e)
        PROVE  UNCHANGED <<tree, missed, wire>>
    BY <1>2 DEF Command, List, ListFromCache, Start, history
  <1>3. ASSUME NEW e \in Engines, ParseResponse(e)
        PROVE  UNCHANGED tree /\ missed \subseteq missed' /\ \A f \in Engines : Remembers(f)
    <2>1. UNCHANGED tree /\ Puts(e, Idle)
      BY <1>3, NoOpFits
         DEF ParseResponse, SkipReply, ParseCwd, ParseFindParent, ParseMkdSub, ParseCwdSub,
             ParseTryFull, ParseWork, Replied, Puts
    <2>2. CASE SkipReply(e)
      BY <2>1, <2>2, NothingToRemember, OthersRemember DEF SkipReply, history
    <2>3. CASE ParseCwd(e) \/ ParseFindParent(e) \/ ParseCwdSub(e)
      <3>1. op[e].st \in {"cwd", "findparent", "cwdsub"} /\ missed' = missed
        BY <2>3 DEF ParseCwd, ParseFindParent, ParseCwdSub, Replied
      <3> QED
        BY <2>1, <3>1, NothingToRemember, OthersRemember
    <2>4. CASE ParseMkdSub(e)
      <3>1. missed' = missed
        BY <2>4 DEF ParseMkdSub
      <3> QED
        BY <2>1, <2>4, <3>1, MkdSubRemembers, OthersRemember
    <2>5. CASE ParseTryFull(e)
      BY <2>1, <2>5, TryFullRemembers, OthersRemember
    <2>6. CASE ParseWork(e)
      BY <2>1, <2>6, WorkRemembers, OthersRemember
    <2> QED
      BY <1>3, <2>2, <2>3, <2>4, <2>5, <2>6 DEF ParseResponse
  <1>4. ASSUME NEW e \in Engines, OnObtainLock(e) \/ OnInvalidateCwd(e)
        PROVE  UNCHANGED <<tree, missed, wire>>
    BY <1>4 DEF OnObtainLock, OnInvalidateCwd, history
  <1>5. ASSUME NEW e \in Engines, Cancel(e) \/ Disconnected(e)
        PROVE  UNCHANGED tree /\ missed \subseteq missed' /\ \A f \in Engines : Remembers(f)
    <2>1. PICK w, path : Interrupted(e, path) /\ Puts(e, w)
      BY <1>5, InterruptPuts
    <2>2. UNCHANGED tree
          /\ missed' = IF wire[e].skip THEN missed ELSE missed \cup Changed(wire[e])
      BY <2>1 DEF Interrupted
    <2>3. Remembers(e)
      BY <2>2, CleansChanged DEF Remembers
    <2> QED
      BY <2>1, <2>2, <2>3, OthersRemember
  <1>6. CASE UNCHANGED vars
    BY <1>1, <1>6 DEF vars
  <1>7. ASSUME NEW e \in Engines, Send(e)
        PROVE  UNCHANGED tree /\ missed \subseteq missed' /\ \A f \in Engines : Remembers(f)
    BY <1>7, SendRemembers
  <1> QED
    BY <1>1, <1>2, <1>3, <1>4, <1>5, <1>6, <1>7 DEF Next, Handler

LEMMA OutcomeSame ==
    ASSUME NEW v, NEW w, w.verb = v.verb, w.arg = v.arg, w.to = v.to
    PROVE  Outcome(w) = Outcome(v)
  BY DEF Outcome

(* The command that the server executes.                                   *)
LEMMA ServerWrites ==
    ASSUME LockInv, WireInv, NEW e \in Engines, ServerExecutes(e)
    PROVE  \E w : /\ Puts(e, w) /\ Sane(w) /\ w.st = "done"
                  /\ IF w.reply = "ok" THEN Outcome(w) = "ok" /\ tree' = TreeAfter(w)
                     ELSE UNCHANGED tree
                  /\ missed' = IF w.skip THEN missed \cup Changed(w) ELSE missed
  <1>1. PICK w : /\ Puts(e, w) /\ w.st = "done" /\ w.verb = wire[e].verb
                 /\ w.arg = wire[e].arg /\ w.to = wire[e].to /\ w.skip = wire[e].skip
                 /\ w.reply \in {Outcome(wire[e]), "fail"}
                 /\ tree' = IF w.reply = "ok" THEN TreeAfter(w) ELSE tree
                 /\ missed' = IF w.skip THEN missed \cup Changed(w) ELSE missed
    BY ServerPuts
  <1>2. wire[e].st # "idle"
    BY DEF ServerExecutes
  <1>3. Sane(wire[e])
    BY <1>2 DEF WireInv, Orderly
  <1>4. Sane(w)
    BY <1>1, <1>3, SaneSame
  <1>5. Outcome(w) = Outcome(wire[e])
    BY <1>1, OutcomeSame
  <1> QED
    BY <1>1, <1>4, <1>5

LEMMA ServerKeepsSure ==
    ASSUME LockInv, WireInv, DOMAIN cache.dir \subseteq Dirs, TreeInv, SureInv,
           NEW e \in Engines, ServerExecutes(e)
    PROVE  SureInv'
  <1>1. PICK w : /\ Puts(e, w) /\ Sane(w) /\ w.st = "done"
                 /\ IF w.reply = "ok" THEN Outcome(w) = "ok" /\ tree' = TreeAfter(w)
                    ELSE UNCHANGED tree
                 /\ missed' = IF w.skip THEN missed \cup Changed(w) ELSE missed
    BY ServerWrites
  <1>2. UNCHANGED cache /\ wire[e].st = "sent"
    BY DEF ServerExecutes
  <1>3. wire'[e] = w /\ \A f \in Engines : f # e => wire'[f] = wire[f]
    BY <1>1 DEF Puts, LockInv, Records
  <1> SUFFICES ASSUME NEW p, Sure(cache, p), p \notin missed'
               PROVE  Right(p)' \/ Covered(p)'
    BY <1>2 DEF SureInv
  <1>4. p \in Dirs /\ p \notin missed
    BY <1>1 DEF Sure
  <1>5. CASE Covered(p)
    <2>1. PICK f \in Engines : wire[f].st = "done" /\ ~wire[f].skip /\ p \in Cleans(wire[f])
      BY <1>5 DEF Covered
    <2>2. wire'[f] = wire[f]
      BY <1>2, <1>3, <2>1
    <2> QED
      BY <2>1, <2>2 DEF Covered
  <1>6. CASE Right(p) /\ w.reply # "ok"
    BY <1>1, <1>2, <1>6 DEF Right, Exists
  <1>7. CASE Right(p) /\ w.reply = "ok" /\ p \notin Changed(w)
    <2>1. Exists(p)
      BY <1>7 DEF Right
    <2>2. /\ p = <<>> \/ p \in TreeAfter(w)
          /\ Children(TreeAfter(w), p) = Children(tree, p)
      BY <1>1, <1>4, <1>7, <2>1, Untouched
    <2>3. tree' = TreeAfter(w)
      BY <1>1, <1>7
    <2> QED
      BY <1>2, <1>7, <2>2, <2>3 DEF Right, Exists
  <1>8. CASE Right(p) /\ w.reply = "ok" /\ p \in Changed(w)
    <2>1. ~w.skip
      BY <1>1, <1>8
    <2>2. p \in Cleans(w)
      BY <1>1, <1>8, NotThereBefore DEF Right
    <2> QED
      BY <1>1, <1>3, <2>1, <2>2 DEF Covered
  <1> QED
    BY <1>4, <1>5, <1>6, <1>7, <1>8 DEF SureInv

LEMMA OthersKeepSure ==
    ASSUME DOMAIN cache.dir \subseteq Dirs, SureInv, OthersChange
    PROVE  SureInv'
  <1>1. PICK n \in Nodes \ Dirs : /\ tree' = (IF n \in tree THEN tree \ {n} ELSE tree \cup {n})
                                  /\ missed' = missed \cup {Front(n)}
    BY DEF OthersChange
  <1>2. UNCHANGED <<cache, wire>>
    BY DEF OthersChange
  <1> SUFFICES ASSUME NEW p, Sure(cache, p), p \notin missed'
               PROVE  Right(p)' \/ Covered(p)'
    BY <1>2 DEF SureInv
  <1>3. p \in Dirs /\ p \notin missed /\ p # Front(n) /\ p # n
    BY <1>1 DEF Sure
  <1>4. \A m : Front(m) = p => (m \in tree' <=> m \in tree)
    BY <1>1, <1>3
  <1>5. Children(tree', p) = Children(tree, p)
    BY <1>4, ChildrenSame
  <1>6. Right(p) => Right(p)'
    BY <1>1, <1>2, <1>3, <1>5 DEF Right, Exists
  <1>7. Covered(p) => Covered(p)'
    BY <1>2 DEF Covered
  <1> QED
    BY <1>3, <1>6, <1>7 DEF SureInv

LEMMA ParseListKeepsSure ==
    ASSUME LockInv, WireInv, IsCache(cache), SureInv, NEW e \in Engines, ParseList(e)
    PROVE  SureInv'
  <1>1. UNCHANGED tree /\ Puts(e, Idle) /\ op[e].st = "list"
    BY NoOpFits DEF ParseList, Replied, Puts
  <1>2. \A f \in Engines : Remembers(f)
    BY <1>1, NothingToRemember, OthersRemember
  <1>3. CASE ~Good(e)
    <2>1. UNCHANGED <<cache, missed>>
      BY <1>3 DEF ParseList
    <2> QED
      BY <1>1, <1>2, <2>1, WeakerReflexive, WeakerKeepsSure
  <1>4. CASE Good(e)
    <2>1. PICK d : d = Store(cache, cwd[e], wire[e].names)
      OBVIOUS
    <2>2. cache' = d
      BY <1>4, <2>1 DEF ParseList
    <2>3. \A q : Sure(d, q) => IF q = cwd[e] THEN d.dir[q].names = wire[e].names
                               ELSE Sure(cache, q) /\ d.dir[q].names = cache.dir[q].names
      BY <2>1, StoreEffect
    <2>4. missed' = IF wire[e].names = Children(tree, cwd[e]) /\ Exists(cwd[e])
                    THEN missed \ {cwd[e]} ELSE missed \cup {cwd[e]}
      BY <1>4 DEF ParseList
    <2> SUFFICES ASSUME NEW p, Sure(d, p), p \notin missed'
                 PROVE  Right(p)' \/ Covered(p)'
      BY <2>2 DEF SureInv
    <2>5. CASE p = cwd[e]
      <3>1. wire[e].names = Children(tree, p) /\ Exists(p)
        BY <2>4, <2>5
      <3>2. d.dir[p].names = wire[e].names
        BY <2>3, <2>5
      <3> QED
        BY <1>1, <2>2, <3>1, <3>2 DEF Right, Exists
    <2>6. CASE p # cwd[e]
      <3>1. Sure(cache, p) /\ d.dir[p].names = cache.dir[p].names
        BY <2>3, <2>6
      <3>2. p \notin missed
        BY <2>4, <2>6
      <3>3. Right(p) => Right(p)'
        BY <1>1, <2>2, <3>1 DEF Right, Exists
      <3>4. Covered(p) => Covered(p)' \/ \E f \in Engines : p \in Cleans(wire[f])
                                          /\ (~Sure(cache', p) \/ p \in missed')
        BY <1>2 DEF Covered, Remembers
      <3> QED
        BY <2>2, <3>1, <3>2, <3>3, <3>4 DEF SureInv
    <2> QED
      BY <2>5, <2>6
  <1> QED
    BY <1>3, <1>4

LEMMA SureInitially == ASSUME Init PROVE TreeInv /\ SureInv
  <1>1. tree \in InitialTrees /\ cache = EmptyCache
    BY DEF Init
  <1>2. TreeInv
    BY <1>1, TreesAssumption DEF TreeInv, Rooted
  <1>3. SureInv
    BY <1>1, EmptyIsCache DEF SureInv, Sure
  <1> QED
    BY <1>2, <1>3

LEMMA TreeStep ==
    ASSUME LockInv, WireInv, IsCache(cache), DOMAIN cache.dir \subseteq Dirs, TreeInv,
           [Next]_vars
    PROVE  TreeInv'
  <1>1. ASSUME NEW e \in Engines, ServerExecutes(e) PROVE TreeInv'
    <2>1. PICK w : /\ Sane(w)
                   /\ IF w.reply = "ok" THEN Outcome(w) = "ok" /\ tree' = TreeAfter(w)
                      ELSE UNCHANGED tree
      BY <1>1, ServerWrites
    <2>2. CASE w.reply = "ok"
      <3>1. Rooted(TreeAfter(w))
        BY <2>1, <2>2, TreeAfterRooted
      <3> QED
        BY <2>1, <2>2, <3>1 DEF TreeInv
    <2> QED
      BY <2>1, <2>2 DEF TreeInv
  <1>2. CASE OthersChange
    <2>1. PICK n \in Nodes \ Dirs : /\ Exists(Front(n))
                                    /\ tree' = (IF n \in tree THEN tree \ {n} ELSE tree \cup {n})
      BY <1>2 DEF OthersChange
    <2>2. Rooted(tree \ {n}) /\ Rooted(tree \cup {n})
      BY <2>1, AddedKeepsRooted, RemovedKeepsRooted
    <2> QED
      BY <2>1, <2>2 DEF TreeInv
  <1>3. ASSUME NEW e \in Engines, ParseList(e) PROVE TreeInv'
    BY <1>3 DEF ParseList, TreeInv
  <1>4. CASE ~OthersChange /\ \A e \in Engines : ~ParseList(e) /\ ~ServerExecutes(e)
    BY <1>4, StepRemembers DEF TreeInv
  <1> QED
    BY <1>1, <1>2, <1>3, <1>4

LEMMA SureStep ==
    ASSUME LockInv, WireInv, IsCache(cache), DOMAIN cache.dir \subseteq Dirs, TreeInv,
           SureInv, [Next]_vars
    PROVE  SureInv'
  <1>1. CASE ~OthersChange /\ \A e \in Engines : ~ParseList(e) /\ ~ServerExecutes(e)
    <2>1. UNCHANGED tree /\ missed \subseteq missed' /\ \A f \in Engines : Remembers(f)
      BY <1>1, StepRemembers
    <2>2. Weaker(cache', cache)
      BY <1>1, CacheWeakens
    <2> QED
      BY <2>1, <2>2, WeakerKeepsSure
  <1> QED
    BY <1>1, ServerKeepsSure, OthersKeepSure, ParseListKeepsSure

(* A listing that the cache calls sure is what the directory holds, but    *)
(* for the moment until the reply to a change is parsed and for what the   *)
(* code does not notice.                                                   *)
THEOREM SureListingsAreRight == Spec => []SureIsRight
  <1> DEFINE Inv == LockInv /\ WireInv /\ SeenInv /\ TreeInv /\ SureInv
  <1>1. Inv => SureIsRight
    BY CleansChanged DEF SureIsRight, SureInv, Sure, Right, Covered
  <1>2. Init => Inv
    BY LocksInitially, OrderInitially, SeenInitially, SureInitially
  <1>3. Inv /\ [Next]_vars => Inv'
    <2> SUFFICES ASSUME Inv, [Next]_vars PROVE Inv'
      OBVIOUS
    <2>1. IsCache(cache) /\ DOMAIN cache.dir \subseteq Dirs
      BY DEF SeenInv
    <2>2. LockInv' /\ WireInv'
      BY LocksStep, OrderStep
    <2>3. SeenInv'
      BY <2>2, SeenStep
    <2>4. TreeInv' /\ SureInv'
      BY <2>1, TreeStep, SureStep
    <2> QED
      BY <2>2, <2>3, <2>4
  <1> QED
    BY <1>1, <1>2, <1>3, PTL DEF Spec
=============================================================================
