---------------------------- MODULE OpLockManager ----------------------------
(***************************************************************************)
(* The operation locks of the engine (engine/oplock_manager.cpp).          *)
(*                                                                         *)
(* Several engines may work on the same server at once.  Before an         *)
(* operation lists or creates a directory its control socket takes a lock  *)
(* on (reason, path); while a control socket of the same server holds a    *)
(* conflicting lock the new one is only queued as "waiting".  Releasing a  *)
(* lock posts a CObtainLockEvent to every control socket with a waiting    *)
(* lock; the handler of that event, OnObtainLock, tries to turn waiting    *)
(* locks into granted ones.                                                *)
(*                                                                         *)
(* The manager keeps a vector of slots, one per control socket with locks, *)
(* each with a vector of locks.  An OpLock handle is a pair of indices     *)
(* into these vectors, which is why entries in the middle are only marked  *)
(* (released, null control socket) and the ends are trimmed.  Every entry  *)
(* point of the manager takes mtx_, so each is one action here.            *)
(***************************************************************************)
EXTENDS Integers, Sequences

CONSTANTS
    Sockets,     \* the control sockets
    Servers,     \* the servers they are connected to
    ServerOf,    \* CControlSocket::GetCurrentServer
    Reasons,     \* locking_reason
    Paths,       \* CServerPath
    Parent,      \* CServerPath::IsParentOf(path, false): a strict ancestor
    Inclusive,   \* values passed as "inclusive"
    NoSocket,    \* the null control_socket_ of an abandoned slot
    MaxCalls     \* bound: calls of Lock in a behaviour

ASSUME SocketsAssumption ==
    /\ ServerOf \in [Sockets -> Servers]
    /\ NoSocket \notin Sockets
ASSUME PathsAssumption ==
    /\ Parent \subseteq Paths \X Paths
    /\ Inclusive \subseteq BOOLEAN
ASSUME BoundAssumption == MaxCalls \in Nat

VARIABLES
    slots,       \* socket_locks_
    handles,     \* the OpLock objects with a manager, with their owner
    events,      \* CObtainLockEvents queued for each control socket
    life,        \* control socket: alive, closing (destructor runs), gone
    calls        \* calls of Lock so far

vars == <<slots, handles, events, life, calls>>

LockInfo == [path : Paths, reason : Reasons, inclusive : BOOLEAN,
             waiting : BOOLEAN, released : BOOLEAN]

Slot == [sock : Sockets \cup {NoSocket}, locks : Seq(LockInfo)]

Handle == [owner : Sockets, slot : Nat \ {0}, lock : Nat \ {0}]

-----------------------------------------------------------------------------
(* Two locks exclude each other: the path comparison of Lock and           *)
(* ObtainWaiting, which is symmetric in the two locks.                     *)
Conflict(a, b) ==
    /\ a.reason = b.reason
    /\ \/ a.path = b.path
       \/ a.inclusive /\ <<a.path, b.path>> \in Parent
       \/ b.inclusive /\ <<b.path, a.path>> \in Parent

Granted(l) == ~l.waiting /\ ~l.released

(* The slot of a control socket, or a new one at the end.                  *)
SlotOf(s) == {i \in DOMAIN slots : slots[i].sock = s}

(* Mutant: Lock compares the paths only for equality.                      *)
BlockedAtLockSamePath(s, info) ==
    \E i \in DOMAIN slots :
        /\ slots[i].sock \in Sockets \ {s}
        /\ ServerOf[slots[i].sock] = ServerOf[s]
        /\ \E k \in DOMAIN slots[i].locks :
              /\ Granted(slots[i].locks[k])
              /\ slots[i].locks[k].reason = info.reason
              /\ slots[i].locks[k].path = info.path

(* Lock only looks at slots of the same server.                            *)
BlockedAtLock(s, info) ==
    \E i \in DOMAIN slots :
        /\ slots[i].sock \in Sockets \ {s}
        /\ ServerOf[slots[i].sock] = ServerOf[s]
        /\ \E k \in DOMAIN slots[i].locks :
              Granted(slots[i].locks[k]) /\ Conflict(slots[i].locks[k], info)

(* ObtainWaiting looks at every other slot, whatever its server.           *)
BlockedAtObtain(i, info) ==
    \E j \in DOMAIN slots \ {i} : \E k \in DOMAIN slots[j].locks :
        Granted(slots[j].locks[k]) /\ Conflict(slots[j].locks[k], info)

(* n is what is left of a vector of length m after popping the last entry  *)
(* and then the trailing entries whose indices are in dead.                *)
TrimmedTo(n, m, dead) ==
    /\ n \in 0 .. m - 1
    /\ n + 1 .. m - 1 \subseteq dead
    /\ n > 0 => n \notin dead

HasWaiting(slot) == \E k \in DOMAIN slot.locks : slot.locks[k].waiting

(* Mutant: the break of Wakeup leaves the outer loop.                      *)
WakeupFirst(newSlots) ==
    events' = [s \in Sockets |->
                 IF life[s] = "alive"
                    /\ \E i \in DOMAIN newSlots :
                          /\ newSlots[i].sock = s /\ HasWaiting(newSlots[i])
                          /\ \A j \in 1 .. i - 1 : ~HasWaiting(newSlots[j])
                 THEN events[s] + 1 ELSE events[s]]

(* Wakeup posts one event to each control socket with a waiting lock; the  *)
(* event loop drops events for a handler that has been removed.            *)
Wakeup(newSlots) ==
    events' = [s \in Sockets |->
                 IF life[s] = "alive"
                    /\ \E i \in DOMAIN newSlots :
                          newSlots[i].sock = s /\ HasWaiting(newSlots[i])
                 THEN events[s] + 1 ELSE events[s]]

(* The index of the lock appended to locks.                                *)
LockIndex(locks) == Len(locks) + 1

-----------------------------------------------------------------------------
Init ==
    /\ slots = <<>>
    /\ handles = {}
    /\ events = [s \in Sockets |-> 0]
    /\ life = [s \in Sockets |-> "alive"]
    /\ calls = 0

(* OpLockManager::Lock                                                     *)
Lock(s, reason, path, inclusive) ==
    LET request == [path |-> path, reason |-> reason, inclusive |-> inclusive,
                    waiting |-> FALSE, released |-> FALSE]
        info == [request EXCEPT !.waiting = BlockedAtLock(s, request)]
    IN
    /\ life[s] = "alive"
    /\ calls < MaxCalls
    /\ calls' = calls + 1
    /\ \/ \E i \in SlotOf(s) :
            /\ slots' = [slots EXCEPT ![i].locks = Append(@, info)]
            /\ handles' = handles \cup
                 {[owner |-> s, slot |-> i, lock |-> LockIndex(slots[i].locks)]}
       \/ /\ SlotOf(s) = {}
          /\ slots' = Append(slots, [sock |-> s, locks |-> <<info>>])
          /\ handles' = handles \cup
               {[owner |-> s, slot |-> Len(slots) + 1, lock |-> LockIndex(<<>>)]}
    /\ UNCHANGED <<events, life>>

(* OpLockManager::Unlock, from ~OpLock or when a handle is assigned to:    *)
(* the last lock of a slot is popped together with the released ones in    *)
(* front of it, a slot left empty is popped or abandoned, any other lock   *)
(* is marked as released.                                                  *)
PopLock(h, n) ==
    slots' = [slots EXCEPT ![h.slot].locks = SubSeq(@, 1, n)]

AbandonSlot(h) ==
    slots' = [slots EXCEPT ![h.slot] = [sock |-> NoSocket, locks |-> <<>>]]

PopSlots(n) == slots' = SubSeq(slots, 1, n)

(* Mutant: a lock in the middle only stops waiting.                        *)
MarkNotWaiting(h) ==
    slots' = [slots EXCEPT ![h.slot].locks[h.lock].waiting = FALSE]

MarkReleased(h) ==
    slots' = [slots EXCEPT ![h.slot].locks[h.lock].waiting = FALSE,
                           ![h.slot].locks[h.lock].released = TRUE]

RemoveLock(h) ==
    LET locks == slots[h.slot].locks IN
    \/ /\ h.lock = Len(locks)
       /\ \E n \in 0 .. Len(locks) - 1 :
            /\ TrimmedTo(n, Len(locks), {k \in DOMAIN locks : locks[k].released})
            /\ \/ n > 0 /\ PopLock(h, n)
               \/ n = 0 /\ h.slot # Len(slots) /\ AbandonSlot(h)
               \/ /\ n = 0 /\ h.slot = Len(slots)
                  /\ \E m \in 0 .. Len(slots) - 1 :
                       /\ TrimmedTo(m, Len(slots),
                                    {i \in DOMAIN slots : slots[i].sock = NoSocket})
                       /\ PopSlots(m)
    \/ h.lock # Len(locks) /\ MarkReleased(h)

Unlock(h) ==
    /\ h \in handles
    /\ RemoveLock(h)
    /\ handles' = handles \ {h}
    /\ IF slots[h.slot].locks[h.lock].waiting
       THEN UNCHANGED events
       ELSE Wakeup(slots')
    /\ UNCHANGED <<life, calls>>

(* Mutant: locks that are granted already are tried again.                 *)
ObtainWaitingAgain(i) ==
    [k \in DOMAIN slots[i].locks |->
       [slots[i].locks[k] EXCEPT !.waiting =
          ~slots[i].locks[k].released /\ BlockedAtObtain(i, slots[i].locks[k])]]

(* The locks of slot i after ObtainWaiting tried each waiting one.         *)
ObtainWaiting(i) ==
    [k \in DOMAIN slots[i].locks |->
       [slots[i].locks[k] EXCEPT !.waiting =
          @ /\ BlockedAtObtain(i, slots[i].locks[k])]]

(* CControlSocket::OnObtainLock calling ObtainWaiting(this): every waiting *)
(* lock of the socket that no other slot blocks is granted.                *)
OnObtainLock(s) ==
    /\ life[s] = "alive"
    /\ events[s] > 0
    /\ events' = [events EXCEPT ![s] = @ - 1]
    /\ slots' = [i \in DOMAIN slots |->
                   IF slots[i].sock = s
                   THEN [sock |-> s, locks |-> ObtainWaiting(i)]
                   ELSE slots[i]]
    /\ UNCHANGED <<handles, life, calls>>

(* CControlSocket::~CControlSocket: remove_handler drops the queued        *)
(* events, then DoClose resets the operations, releasing their locks one   *)
(* by one; other sockets may run in between.                               *)
RemoveHandler(s) ==
    /\ life[s] = "alive"
    /\ life' = [life EXCEPT ![s] = "closing"]
    /\ events' = [events EXCEPT ![s] = 0]
    /\ UNCHANGED <<slots, handles, calls>>

Destroyed(s) ==
    /\ life[s] = "closing"
    /\ \A h \in handles : h.owner # s
    /\ life' = [life EXCEPT ![s] = "gone"]
    /\ UNCHANGED <<slots, handles, events, calls>>

Next ==
    \/ \E s \in Sockets, r \in Reasons, p \in Paths, inc \in Inclusive :
          Lock(s, r, p, inc)
    \/ \E h \in handles : Unlock(h)
    \/ \E s \in Sockets : OnObtainLock(s) \/ RemoveHandler(s) \/ Destroyed(s)

Spec == Init /\ [][Next]_vars

-----------------------------------------------------------------------------
(* Types of the manager's vectors, the OpLocks and the queued events.      *)
TypeOK ==
    /\ slots \in Seq(Slot)
    /\ handles \subseteq Handle
    /\ events \in [Sockets -> Nat]
    /\ life \in [Sockets -> {"alive", "closing", "gone"}]
    /\ calls \in 0 .. MaxCalls

(* Mutual exclusion, what Lock and ObtainWaiting are for: two control      *)
(* sockets of one server never hold conflicting granted locks.             *)
MutualExclusion ==
    \A i, j \in DOMAIN slots :
        (i # j /\ slots[i].sock \in Sockets /\ slots[j].sock \in Sockets
               /\ ServerOf[slots[i].sock] = ServerOf[slots[j].sock]) =>
        \A k \in DOMAIN slots[i].locks, m \in DOMAIN slots[j].locks :
            Granted(slots[i].locks[k]) /\ Granted(slots[j].locks[m])
                => ~Conflict(slots[i].locks[k], slots[j].locks[m])

(* The asserts of Unlock and Waiting, and more: the indices of an OpLock   *)
(* stay valid however the vectors are trimmed around it, and they lead to  *)
(* a lock of its own control socket that has not been released.            *)
HandlesValid ==
    \A h \in handles :
        /\ h.slot \in DOMAIN slots
        /\ slots[h.slot].sock = h.owner
        /\ h.lock \in DOMAIN slots[h.slot].locks
        /\ ~slots[h.slot].locks[h.lock].released

(* No lock outlives its OpLock: every entry that is not released belongs   *)
(* to a handle, so no granted entry can block other sockets for ever.      *)
NoOrphanLock ==
    \A i \in DOMAIN slots : \A k \in DOMAIN slots[i].locks :
        ~slots[i].locks[k].released =>
            [owner |-> slots[i].sock, slot |-> i, lock |-> k] \in handles

(* Wakeup calls control_socket_->send_event: no slot of a destroyed        *)
(* control socket is left behind, and an abandoned slot (null pointer)     *)
(* has no lock for which Wakeup could dereference it.                      *)
NoDanglingSocket ==
    \A i \in DOMAIN slots :
        /\ slots[i].sock = NoSocket => slots[i].locks = <<>>
        /\ slots[i].sock \in Sockets => life[slots[i].sock] # "gone"

(* No lost wakeup: a lock that waits is blocked by a lock somebody still   *)
(* holds, or its control socket has a CObtainLockEvent queued.             *)
NoLostWakeup ==
    \A i \in DOMAIN slots : \A k \in DOMAIN slots[i].locks :
        (slots[i].locks[k].waiting /\ life[slots[i].sock] = "alive") =>
            \/ BlockedAtObtain(i, slots[i].locks[k])
            \/ events[slots[i].sock] > 0

-----------------------------------------------------------------------------
(* The locks that the vectors stand for.  An index pair names one lock at  *)
(* a time, and released entries and abandoned slots stand for nothing.     *)
What(l) == [path |-> l.path, reason |-> l.reason, inclusive |-> l.inclusive]

AbstractLocks(waiting) ==
    UNION {{[owner |-> slots[i].sock, key |-> <<i, k>>, what |-> What(slots[i].locks[k])] :
              k \in {m \in DOMAIN slots[i].locks :
                       /\ ~slots[i].locks[m].released
                       /\ slots[i].locks[m].waiting = waiting}} :
           i \in DOMAIN slots}

Keys == (1 .. MaxCalls) \X (1 .. MaxCalls)

SameServerConflict(a, b) ==
    ServerOf[a.owner] = ServerOf[b.owner] /\ Conflict(a.what, b.what)

L == INSTANCE Locks WITH
        Locks <- [owner : Sockets, key : Keys,
                  what : [path : Paths, reason : Reasons, inclusive : BOOLEAN]],
        Excludes <- SameServerConflict,
        held <- AbstractLocks(FALSE),
        waiting <- AbstractLocks(TRUE)

(* The manager implements the abstract locks: whatever is trimmed, marked  *)
(* or woken, a lock waits only if another socket of its server holds a     *)
(* conflicting one, is granted only when nobody does, and goes only when   *)
(* its own OpLock is released.                                             *)
ImplementsLocks == L!LocksSpec
=============================================================================
