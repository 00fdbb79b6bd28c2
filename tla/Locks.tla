-------------------------------- MODULE Locks --------------------------------
(***************************************************************************)
(* What the operation locks promise to the control sockets, without the    *)
(* vectors, indices and events that OpLockManager keeps it with.           *)
(*                                                                         *)
(* A lock has an owner, a key that tells the owner's locks apart and what  *)
(* it locks.  It is held from the start unless a lock that somebody else   *)
(* holds excludes it; otherwise it waits.  Waiting locks of one owner are  *)
(* granted, all that can be or only some, once nothing that is held        *)
(* excludes them.  A lock leaves only when its owner releases it.          *)
(***************************************************************************)
CONSTANTS
    Locks,           \* all locks: records with an owner, a key and more
    Excludes(_, _)   \* two locks must not be held by two owners at once

VARIABLES
    held,      \* the locks that are granted
    waiting    \* the locks that wait

locks == held \cup waiting

Blocked(l) == \E h \in held : h.owner # l.owner /\ Excludes(h, l)

Acquire(l) ==
    /\ \A m \in locks : <<m.owner, m.key>> # <<l.owner, l.key>>
    /\ IF Blocked(l)
       THEN waiting' = waiting \cup {l} /\ UNCHANGED held
       ELSE held' = held \cup {l} /\ UNCHANGED waiting

(* G are waiting locks of one owner.                                       *)
Grant(G) ==
    /\ G \subseteq waiting /\ G # {}
    /\ \A l, m \in G : l.owner = m.owner
    /\ \A l \in G : ~Blocked(l)
    /\ held' = held \cup G
    /\ waiting' = waiting \ G

ReleaseAll(R) ==
    /\ held' = held \ R
    /\ waiting' = waiting \ R

Release(l) == l \in locks /\ ReleaseAll({l})

LocksInit == held = {} /\ waiting = {}

LocksNext ==
    \/ \E l \in locks' \ locks : l \in Locks /\ Acquire(l)
    \/ \E G \in SUBSET waiting : Grant(G)
    \/ \E l \in locks : Release(l)

LocksSpec == LocksInit /\ [][LocksNext]_<<held, waiting>>
=============================================================================
