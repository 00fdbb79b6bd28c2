------------------------ MODULE OpLockManagerProofs ------------------------
(***************************************************************************)
(* Proofs about OpLockManager, for any sets of control sockets, servers    *)
(* and paths and any number of calls.                                      *)
(*                                                                         *)
(* What keeps the indices valid is in Consistent; exclusion and wakeups    *)
(* rest on it.  The last part shows that every step is a step of Locks or  *)
(* a stutter; the keys of the abstract locks are bounded, so the lengths   *)
(* of both vectors are bounded first (Bounded).                            *)
(***************************************************************************)
EXTENDS OpLockManager, TLAPS

(* What keeps the vectors of the manager consistent.  A control socket has *)
(* one slot; a slot of a control socket ends in a lock that is not         *)
(* released, so it never outlives the handles; a lock does not wait and    *)
(* count as released at the same time.                                     *)
OneSlot ==
    \A i, j \in DOMAIN slots :
        slots[i].sock = slots[j].sock /\ slots[i].sock \in Sockets => i = j

LastLockHeld ==
    \A i \in DOMAIN slots :
        slots[i].sock \in Sockets =>
            /\ Len(slots[i].locks) > 0
            /\ ~slots[i].locks[Len(slots[i].locks)].released

WaitingNotReleased ==
    \A i \in DOMAIN slots : \A k \in DOMAIN slots[i].locks :
        slots[i].locks[k].waiting => ~slots[i].locks[k].released

(* The inductive invariant.                                                *)
Consistent ==
    /\ TypeOK
    /\ OneSlot
    /\ LastLockHeld
    /\ WaitingNotReleased
    /\ HandlesValid
    /\ NoOrphanLock
    /\ NoDanglingSocket

IInv == Consistent /\ MutualExclusion /\ NoLostWakeup

-----------------------------------------------------------------------------
(* Sequences, as the actions use them.                                     *)
LEMMA UpdateSeq ==
    ASSUME NEW S, NEW q \in Seq(S), NEW i \in DOMAIN q, NEW x \in S
    PROVE  LET r == [q EXCEPT ![i] = x] IN
           /\ r \in Seq(S) /\ Len(r) = Len(q) /\ DOMAIN r = DOMAIN q
           /\ r[i] = x
           /\ \A j \in DOMAIN q : j # i => r[j] = q[j]
OBVIOUS

LEMMA AppendSeq ==
    ASSUME NEW S, NEW q \in Seq(S), NEW x \in S
    PROVE  /\ Append(q, x) \in Seq(S)
           /\ Len(Append(q, x)) = Len(q) + 1
           /\ DOMAIN Append(q, x) = DOMAIN q \cup {Len(q) + 1}
           /\ Append(q, x)[Len(q) + 1] = x
           /\ \A j \in DOMAIN q : Append(q, x)[j] = q[j]
OBVIOUS

LEMMA PrefixSeq ==
    ASSUME NEW S, NEW q \in Seq(S), NEW n \in 0 .. Len(q)
    PROVE  /\ SubSeq(q, 1, n) \in Seq(S)
           /\ Len(SubSeq(q, 1, n)) = n
           /\ DOMAIN SubSeq(q, 1, n) = 1 .. n
           /\ \A j \in 1 .. n : SubSeq(q, 1, n)[j] = q[j]
OBVIOUS

LEMMA FunctionIsSeq ==
    ASSUME NEW S, NEW n \in Nat, NEW f \in [1 .. n -> S]
    PROVE  f \in Seq(S) /\ Len(f) = n
OBVIOUS

(* The two locks of Conflict are interchangeable.                          *)
LEMMA ConflictSymmetric ==
    ASSUME NEW a, NEW b
    PROVE  Conflict(a, b) <=> Conflict(b, a)
BY DEF Conflict

-----------------------------------------------------------------------------
(* What the actions do to the vectors, without the case analysis of the    *)
(* code.  Lock appends info to the locks of the slot i of s, which is an   *)
(* old slot or a new one.                                                  *)
Appended(s, i, k, info) ==
    /\ slots' \in Seq(Slot)
    /\ DOMAIN slots' = DOMAIN slots \cup {i}
    /\ \A j \in DOMAIN slots : j # i => slots'[j] = slots[j]
    /\ slots'[i].sock = s
    /\ IF i \in DOMAIN slots
       THEN slots[i].sock = s /\ DOMAIN slots[i].locks = 1 .. k - 1
       ELSE SlotOf(s) = {} /\ k = 1
    /\ Len(slots'[i].locks) = k /\ DOMAIN slots'[i].locks = 1 .. k
    /\ slots'[i].locks[k] = info
    /\ \A m \in 1 .. k - 1 : slots'[i].locks[m] = slots[i].locks[m]
    /\ handles' = handles \cup {[owner |-> s, slot |-> i, lock |-> k]}

LEMMA LockAppends ==
    ASSUME TypeOK, NEW s \in Sockets, NEW r \in Reasons, NEW p \in Paths,
           NEW inc \in Inclusive, Lock(s, r, p, inc)
    PROVE  \E i, k \in Nat \ {0} : \E info \in LockInfo :
              /\ ~info.released
              /\ info.waiting <=> BlockedAtLock(s, info)
              /\ Appended(s, i, k, info)
<1> DEFINE request == [path |-> p, reason |-> r, inclusive |-> inc,
                       waiting |-> FALSE, released |-> FALSE]
           info == [request EXCEPT !.waiting = BlockedAtLock(s, request)]
<1>1. BlockedAtLock(s, request) \in BOOLEAN
  BY DEF BlockedAtLock
<1>2. /\ info \in LockInfo /\ ~info.released
      /\ info.waiting <=> BlockedAtLock(s, request)
      /\ info.reason = r /\ info.path = p /\ info.inclusive = inc
  BY <1>1, PathsAssumption DEF LockInfo
<1>3. BlockedAtLock(s, request) <=> BlockedAtLock(s, info)
  BY <1>2 DEF BlockedAtLock, Conflict
<1>4. slots \in Seq(Slot)
  BY DEF TypeOK
<1> HIDE DEF info
<1>5. ASSUME NEW i \in SlotOf(s),
             slots' = [slots EXCEPT ![i].locks = Append(@, info)],
             handles' = handles \cup
               {[owner |-> s, slot |-> i, lock |-> LockIndex(slots[i].locks)]}
      PROVE  Appended(s, i, Len(slots[i].locks) + 1, info)
  <2>1. i \in DOMAIN slots /\ slots[i] \in Slot /\ slots[i].sock = s
    BY <1>4, <1>5 DEF SlotOf
  <2> DEFINE new == [slots[i] EXCEPT !.locks = Append(@, info)]
  <2>2. /\ slots[i].locks \in Seq(LockInfo)
        /\ Len(slots[i].locks) \in Nat
        /\ DOMAIN slots[i].locks = 1 .. Len(slots[i].locks)
    BY <2>1 DEF Slot
  <2>3. /\ new \in Slot /\ new.sock = s
        /\ new.locks = Append(slots[i].locks, info)
    BY <2>1, <2>2, <1>2, AppendSeq DEF Slot
  <2>4. slots' = [slots EXCEPT ![i] = new]
    BY <1>5
  <2> HIDE DEF new
  <2>5. /\ slots' \in Seq(Slot) /\ DOMAIN slots' = DOMAIN slots
        /\ slots'[i] = new
        /\ \A j \in DOMAIN slots : j # i => slots'[j] = slots[j]
    BY <1>4, <2>1, <2>3, <2>4, UpdateSeq
  <2>6. /\ Len(new.locks) = Len(slots[i].locks) + 1
        /\ DOMAIN new.locks = 1 .. Len(slots[i].locks) + 1
        /\ new.locks[Len(slots[i].locks) + 1] = info
        /\ \A m \in DOMAIN slots[i].locks : new.locks[m] = slots[i].locks[m]
    BY <1>2, <2>2, <2>3, AppendSeq
  <2>7. 1 .. (Len(slots[i].locks) + 1) - 1 = DOMAIN slots[i].locks
    BY <2>2
  <2>8. DOMAIN slots' = DOMAIN slots \cup {i}
    BY <2>1, <2>5
  <2>9. handles' = handles \cup
           {[owner |-> s, slot |-> i, lock |-> Len(slots[i].locks) + 1]}
    BY <1>5 DEF LockIndex
  <2> QED
    BY <2>1, <2>3, <2>5, <2>6, <2>7, <2>8, <2>9 DEF Appended
<1>6. ASSUME SlotOf(s) = {},
             slots' = Append(slots, [sock |-> s, locks |-> <<info>>]),
             handles' = handles \cup
               {[owner |-> s, slot |-> Len(slots) + 1, lock |-> LockIndex(<<>>)]}
      PROVE  Appended(s, Len(slots) + 1, 1, info)
  <2> DEFINE new == [sock |-> s, locks |-> <<info>>]
  <2>1. new \in Slot /\ new.sock = s /\ new.locks = <<info>>
    BY <1>2 DEF Slot
  <2> HIDE DEF new
  <2>2. slots' = Append(slots, new)
    BY <1>6 DEF new
  <2>3. /\ slots' \in Seq(Slot)
        /\ DOMAIN slots' = DOMAIN slots \cup {Len(slots) + 1}
        /\ slots'[Len(slots) + 1] = new
        /\ \A j \in DOMAIN slots : slots'[j] = slots[j]
    BY <1>4, <2>1, <2>2, AppendSeq
  <2>4. Len(slots) + 1 \notin DOMAIN slots /\ Len(slots) \in Nat
    BY <1>4
  <2>5. Len(<<info>>) = 1 /\ DOMAIN <<info>> = 1 .. 1 /\ <<info>>[1] = info
    OBVIOUS
  <2>6. LockIndex(<<>>) = 1
    BY DEF LockIndex
  <2> QED
    BY <1>6, <2>1, <2>3, <2>4, <2>5, <2>6 DEF Appended
<1>7. CASE \E i \in SlotOf(s) :
             /\ slots' = [slots EXCEPT ![i].locks = Append(@, info)]
             /\ handles' = handles \cup
                  {[owner |-> s, slot |-> i, lock |-> LockIndex(slots[i].locks)]}
  <2>1. PICK i \in SlotOf(s) :
             /\ slots' = [slots EXCEPT ![i].locks = Append(@, info)]
             /\ handles' = handles \cup
                  {[owner |-> s, slot |-> i, lock |-> LockIndex(slots[i].locks)]}
    BY <1>7
  <2>2. i \in Nat \ {0} /\ Len(slots[i].locks) + 1 \in Nat \ {0}
    BY <1>4 DEF SlotOf, Slot
  <2> QED
    BY <1>2, <1>3, <1>5, <2>1, <2>2
<1>8. CASE /\ SlotOf(s) = {}
           /\ slots' = Append(slots, [sock |-> s, locks |-> <<info>>])
           /\ handles' = handles \cup
                {[owner |-> s, slot |-> Len(slots) + 1, lock |-> LockIndex(<<>>)]}
  <2>1. Len(slots) + 1 \in Nat \ {0}
    BY <1>4
  <2> QED
    BY <1>2, <1>3, <1>6, <1>8, <2>1
<1> QED
  BY <1>7, <1>8 DEF Lock, info

(* Unlock takes the lock of h away.  Other slots that disappear were       *)
(* abandoned, other locks that disappear were released, and a slot that    *)
(* keeps its control socket still ends in a lock that is not released.     *)
LeftIn(h, old, new) ==
    /\ new.sock = old.sock
    /\ DOMAIN new.locks \subseteq DOMAIN old.locks
    /\ \A k \in DOMAIN new.locks : k # h.lock => new.locks[k] = old.locks[k]
    /\ \A k \in DOMAIN old.locks \ DOMAIN new.locks :
          k = h.lock \/ old.locks[k].released
    /\ h.lock \in DOMAIN new.locks =>
          ~new.locks[h.lock].waiting /\ new.locks[h.lock].released
    /\ Len(new.locks) \in DOMAIN new.locks
    /\ ~new.locks[Len(new.locks)].released

OnlyLock(h) ==
    \A k \in DOMAIN slots[h.slot].locks :
        k = h.lock \/ slots[h.slot].locks[k].released

Removed(h) ==
    /\ slots' \in Seq(Slot)
    /\ DOMAIN slots' \subseteq DOMAIN slots
    /\ \A j \in DOMAIN slots' : j # h.slot => slots'[j] = slots[j]
    /\ \A j \in DOMAIN slots \ DOMAIN slots' :
          j = h.slot \/ slots[j].sock = NoSocket
    /\ h.slot \in DOMAIN slots' =>
          \/ LeftIn(h, slots[h.slot], slots'[h.slot])
          \/ slots'[h.slot] = [sock |-> NoSocket, locks |-> <<>>] /\ OnlyLock(h)
    /\ h.slot \notin DOMAIN slots' => OnlyLock(h)

LEMMA UnlockRemoves ==
    ASSUME TypeOK, LastLockHeld, HandlesValid, NEW h \in handles, RemoveLock(h)
    PROVE  Removed(h)
<1> DEFINE old == slots[h.slot]
           locks == slots[h.slot].locks
<1>1. /\ slots \in Seq(Slot) /\ Len(slots) \in Nat
      /\ DOMAIN slots = 1 .. Len(slots)
      /\ h.slot \in DOMAIN slots /\ h.lock \in DOMAIN locks
      /\ old \in Slot /\ old.sock \in Sockets
  BY DEF TypeOK, HandlesValid, Handle
<1>2. /\ locks \in Seq(LockInfo) /\ Len(locks) \in Nat
      /\ DOMAIN locks = 1 .. Len(locks)
  BY <1>1 DEF Slot
<1>3. Len(locks) > 0 /\ ~locks[Len(locks)].released
  BY <1>1 DEF LastLockHeld
<1>4. CASE h.lock # Len(locks) /\ MarkReleased(h)
  <2> DEFINE mark == [locks[h.lock] EXCEPT !.waiting = FALSE, !.released = TRUE]
             new == [old EXCEPT !.locks = [locks EXCEPT ![h.lock] = mark]]
  <2>1. locks[h.lock] \in LockInfo
    BY <1>1, <1>2
  <2>2. mark \in LockInfo /\ ~mark.waiting /\ mark.released
    BY <2>1 DEF LockInfo
  <2>3. slots' = [slots EXCEPT ![h.slot] = new]
    BY <1>1, <1>2, <1>4, <2>1 DEF MarkReleased, Slot, LockInfo
  <2> HIDE DEF mark
  <2>4. /\ [locks EXCEPT ![h.lock] = mark] \in Seq(LockInfo)
        /\ Len([locks EXCEPT ![h.lock] = mark]) = Len(locks)
        /\ DOMAIN [locks EXCEPT ![h.lock] = mark] = DOMAIN locks
        /\ [locks EXCEPT ![h.lock] = mark][h.lock] = mark
        /\ \A k \in DOMAIN locks :
              k # h.lock => [locks EXCEPT ![h.lock] = mark][k] = locks[k]
    BY <1>1, <1>2, <2>2, UpdateSeq
  <2>5. /\ new \in Slot /\ new.sock = old.sock
        /\ new.locks = [locks EXCEPT ![h.lock] = mark]
    BY <1>1, <2>4 DEF Slot
  <2> HIDE DEF new
  <2>6. LeftIn(h, old, new)
    BY <1>2, <1>3, <1>4, <2>2, <2>4, <2>5 DEF LeftIn
  <2>7. /\ slots' \in Seq(Slot) /\ DOMAIN slots' = DOMAIN slots
        /\ slots'[h.slot] = new
        /\ \A j \in DOMAIN slots : j # h.slot => slots'[j] = slots[j]
    BY <1>1, <2>3, <2>5, UpdateSeq
  <2> QED
    BY <1>1, <2>6, <2>7 DEF Removed
<1>5. ASSUME h.lock = Len(locks), NEW n \in 0 .. Len(locks) - 1,
             TrimmedTo(n, Len(locks), {k \in DOMAIN locks : locks[k].released}),
             n > 0, PopLock(h, n)
      PROVE  Removed(h)
  <2> DEFINE new == [old EXCEPT !.locks = SubSeq(locks, 1, n)]
  <2>1. slots' = [slots EXCEPT ![h.slot] = new]
    BY <1>1, <1>5 DEF PopLock, Slot
  <2>2. /\ SubSeq(locks, 1, n) \in Seq(LockInfo)
        /\ Len(SubSeq(locks, 1, n)) = n
        /\ DOMAIN SubSeq(locks, 1, n) = 1 .. n
        /\ \A j \in 1 .. n : SubSeq(locks, 1, n)[j] = locks[j]
    BY <1>2, <1>3, PrefixSeq
  <2>3. /\ new \in Slot /\ new.sock = old.sock
        /\ new.locks = SubSeq(locks, 1, n)
    BY <1>1, <2>2 DEF Slot
  <2> HIDE DEF new
  <2>4. \A k \in DOMAIN locks : k > n => k = h.lock \/ locks[k].released
    BY <1>2, <1>5 DEF TrimmedTo
  <2>5. ~locks[n].released /\ n \in 1 .. Len(locks) /\ h.lock \notin 1 .. n
    BY <1>2, <1>5 DEF TrimmedTo
  <2>6. LeftIn(h, old, new)
    BY <1>2, <2>2, <2>3, <2>4, <2>5 DEF LeftIn
  <2>7. /\ slots' \in Seq(Slot) /\ DOMAIN slots' = DOMAIN slots
        /\ slots'[h.slot] = new
        /\ \A j \in DOMAIN slots : j # h.slot => slots'[j] = slots[j]
    BY <1>1, <2>1, <2>3, UpdateSeq
  <2> QED
    BY <1>1, <2>6, <2>7 DEF Removed
<1>6. ASSUME h.lock = Len(locks),
             TrimmedTo(0, Len(locks), {k \in DOMAIN locks : locks[k].released})
      PROVE  OnlyLock(h)
  BY <1>2, <1>6 DEF OnlyLock, TrimmedTo
<1>7. ASSUME OnlyLock(h), AbandonSlot(h)
      PROVE  Removed(h)
  <2> DEFINE new == [sock |-> NoSocket, locks |-> <<>>]
  <2>1. new \in Slot
    BY DEF Slot
  <2>2. /\ slots' \in Seq(Slot) /\ DOMAIN slots' = DOMAIN slots
        /\ slots'[h.slot] = new
        /\ \A j \in DOMAIN slots : j # h.slot => slots'[j] = slots[j]
    BY <1>1, <1>7, <2>1, UpdateSeq DEF AbandonSlot
  <2> QED
    BY <1>1, <1>7, <2>2 DEF Removed
<1>8. ASSUME OnlyLock(h), h.slot = Len(slots), NEW m \in 0 .. Len(slots) - 1,
             TrimmedTo(m, Len(slots), {i \in DOMAIN slots : slots[i].sock = NoSocket}),
             PopSlots(m)
      PROVE  Removed(h)
  <2>1. /\ slots' \in Seq(Slot) /\ DOMAIN slots' = 1 .. m
        /\ \A j \in 1 .. m : slots'[j] = slots[j]
    BY <1>1, <1>8, PrefixSeq DEF PopSlots
  <2>2. \A j \in DOMAIN slots \ (1 .. m) :
           j = h.slot \/ slots[j].sock = NoSocket
    BY <1>1, <1>8 DEF TrimmedTo
  <2> QED
    BY <1>1, <1>8, <2>1, <2>2 DEF Removed
<1>9. CASE /\ h.lock = Len(locks)
            /\ \E n \in 0 .. Len(locks) - 1 :
                 /\ TrimmedTo(n, Len(locks), {k \in DOMAIN locks : locks[k].released})
                 /\ \/ n > 0 /\ PopLock(h, n)
                    \/ n = 0 /\ h.slot # Len(slots) /\ AbandonSlot(h)
                    \/ /\ n = 0 /\ h.slot = Len(slots)
                       /\ \E m \in 0 .. Len(slots) - 1 :
                            /\ TrimmedTo(m, Len(slots),
                                         {i \in DOMAIN slots : slots[i].sock = NoSocket})
                            /\ PopSlots(m)
  BY <1>5, <1>6, <1>7, <1>8, <1>9
<1> QED
  BY <1>4, <1>9 DEF RemoveLock

(* ObtainWaiting changes nothing but waiting, and only for locks of s that *)
(* no other slot blocks.                                                   *)
Obtained(s) ==
    /\ slots' \in Seq(Slot)
    /\ DOMAIN slots' = DOMAIN slots
    /\ \A i \in DOMAIN slots :
          /\ slots'[i].sock = slots[i].sock
          /\ slots[i].sock # s => slots'[i] = slots[i]
          /\ DOMAIN slots'[i].locks = DOMAIN slots[i].locks
          /\ Len(slots'[i].locks) = Len(slots[i].locks)
          /\ \A k \in DOMAIN slots[i].locks :
                LET l == slots[i].locks[k]
                    m == slots'[i].locks[k]
                IN  /\ m.path = l.path /\ m.reason = l.reason
                    /\ m.inclusive = l.inclusive /\ m.released = l.released
                    /\ slots[i].sock = s =>
                         (m.waiting <=> (l.waiting /\ BlockedAtObtain(i, l)))

LEMMA ObtainLockObtains ==
    ASSUME TypeOK, NEW s \in Sockets, OnObtainLock(s)
    PROVE  Obtained(s)
<1>1. slots \in Seq(Slot) /\ Len(slots) \in Nat /\ DOMAIN slots = 1 .. Len(slots)
  BY DEF TypeOK
<1>2. ASSUME NEW i \in DOMAIN slots
      PROVE  /\ ObtainWaiting(i) \in Seq(LockInfo)
             /\ DOMAIN ObtainWaiting(i) = DOMAIN slots[i].locks
             /\ Len(ObtainWaiting(i)) = Len(slots[i].locks)
             /\ \A k \in DOMAIN slots[i].locks :
                  LET l == slots[i].locks[k]
                      m == ObtainWaiting(i)[k]
                  IN  /\ m.path = l.path /\ m.reason = l.reason
                      /\ m.inclusive = l.inclusive /\ m.released = l.released
                      /\ m.waiting <=> (l.waiting /\ BlockedAtObtain(i, l))
  <2>1. /\ slots[i].locks \in Seq(LockInfo)
        /\ DOMAIN slots[i].locks = 1 .. Len(slots[i].locks)
        /\ Len(slots[i].locks) \in Nat
    <3>1. slots[i] \in Slot
      BY <1>1
    <3> QED
      BY <3>1 DEF Slot
  <2>2. ASSUME NEW k \in DOMAIN slots[i].locks
        PROVE  LET l == slots[i].locks[k]
                   m == ObtainWaiting(i)[k]
               IN  /\ m \in LockInfo
                   /\ m.path = l.path /\ m.reason = l.reason
                   /\ m.inclusive = l.inclusive /\ m.released = l.released
                   /\ m.waiting <=> (l.waiting /\ BlockedAtObtain(i, l))
    <3>1. BlockedAtObtain(i, slots[i].locks[k]) \in BOOLEAN
      BY DEF BlockedAtObtain
    <3>2. slots[i].locks[k] \in LockInfo
      BY <2>1
    <3> QED
      BY <3>1, <3>2 DEF ObtainWaiting, LockInfo
  <2>3. DOMAIN ObtainWaiting(i) = 1 .. Len(slots[i].locks)
    BY <2>1 DEF ObtainWaiting
  <2>4. ObtainWaiting(i) = [k \in 1 .. Len(slots[i].locks) |-> ObtainWaiting(i)[k]]
    BY <2>1 DEF ObtainWaiting
  <2>5. \A k \in 1 .. Len(slots[i].locks) : ObtainWaiting(i)[k] \in LockInfo
    BY <2>1, <2>2
  <2>6. ObtainWaiting(i) \in [1 .. Len(slots[i].locks) -> LockInfo]
    BY <2>4, <2>5
  <2>7. ObtainWaiting(i) \in Seq(LockInfo) /\ Len(ObtainWaiting(i)) = Len(slots[i].locks)
    BY <2>1, <2>6, FunctionIsSeq
  <2> QED
    BY <2>1, <2>2, <2>3, <2>7
<1>3. /\ DOMAIN slots' = DOMAIN slots
      /\ \A i \in DOMAIN slots :
            slots'[i] = IF slots[i].sock = s
                        THEN [sock |-> s, locks |-> ObtainWaiting(i)]
                        ELSE slots[i]
      /\ slots' = [i \in 1 .. Len(slots) |-> slots'[i]]
  BY <1>1 DEF OnObtainLock
<1>4. ASSUME NEW i \in DOMAIN slots
      PROVE  slots'[i] \in Slot
  <2>1. CASE slots[i].sock = s
    BY <1>2, <1>3, <2>1 DEF Slot
  <2>2. CASE slots[i].sock # s
    BY <1>1, <1>3, <2>2
  <2> QED
    BY <2>1, <2>2
<1>5. slots' \in [1 .. Len(slots) -> Slot]
  BY <1>1, <1>3, <1>4
<1>6. slots' \in Seq(Slot)
  BY <1>1, <1>5, FunctionIsSeq
<1> QED
  BY <1>2, <1>3, <1>6 DEF Obtained

-----------------------------------------------------------------------------
(* The manager's vectors stay consistent.                                  *)
LEMMA ConsistentInit == Init => Consistent
BY SocketsAssumption, BoundAssumption DEF Init, Consistent, TypeOK, OneSlot,
   LastLockHeld, WaitingNotReleased, HandlesValid, NoOrphanLock, NoDanglingSocket

LEMMA ConsistentLock ==
    ASSUME Consistent, NEW s \in Sockets, NEW r \in Reasons, NEW p \in Paths,
           NEW inc \in Inclusive, Lock(s, r, p, inc)
    PROVE  Consistent'
<1> USE DEF Consistent
<1>1. PICK i \in Nat \ {0}, k \in Nat \ {0}, info \in LockInfo :
         ~info.released /\ Appended(s, i, k, info)
  BY LockAppends
<1>2. /\ life[s] = "alive" /\ calls < MaxCalls /\ calls' = calls + 1
      /\ events' = events /\ life' = life
  BY DEF Lock
<1>3. TypeOK'
  BY <1>1, <1>2, BoundAssumption DEF TypeOK, Appended, Handle
<1>4. OneSlot'
  BY <1>1 DEF OneSlot, Appended, SlotOf
<1>5. LastLockHeld'
  BY <1>1 DEF LastLockHeld, Appended
<1>6. WaitingNotReleased'
  BY <1>1 DEF WaitingNotReleased, Appended
<1> DEFINE new == [owner |-> s, slot |-> i, lock |-> k]
<1>7. HandlesValid'
  <2> SUFFICES ASSUME NEW h \in handles'
               PROVE  /\ h.slot \in DOMAIN slots'
                      /\ slots'[h.slot].sock = h.owner
                      /\ h.lock \in DOMAIN slots'[h.slot].locks
                      /\ ~slots'[h.slot].locks[h.lock].released
    BY DEF HandlesValid
  <2>1. CASE h = new
    <3>1. h.owner = s /\ h.slot = i /\ h.lock = k
      BY <2>1
    <3> QED
      BY <1>1, <3>1 DEF Appended
  <2>2. CASE h \in handles
    <3>1. /\ h.slot \in DOMAIN slots /\ slots[h.slot].sock = h.owner
          /\ h.lock \in DOMAIN slots[h.slot].locks
          /\ ~slots[h.slot].locks[h.lock].released
      BY <2>2 DEF HandlesValid
    <3>2. CASE h.slot = i
      <4>1. h.lock \in 1 .. k - 1 /\ h.lock \in 1 .. k
        BY <1>1, <3>1, <3>2 DEF Appended
      <4> QED
        BY <1>1, <3>1, <3>2, <4>1 DEF Appended
    <3>3. CASE h.slot # i
      BY <1>1, <3>1, <3>3 DEF Appended
    <3> QED
      BY <3>2, <3>3
  <2> QED
    BY <1>1, <2>1, <2>2 DEF Appended
<1>8. NoOrphanLock'
  <2> SUFFICES ASSUME NEW j \in DOMAIN slots', NEW m \in DOMAIN slots'[j].locks,
                      ~slots'[j].locks[m].released
               PROVE  [owner |-> slots'[j].sock, slot |-> j, lock |-> m] \in handles'
    BY DEF NoOrphanLock
  <2>1. CASE j # i
    <3>1. j \in DOMAIN slots /\ slots'[j] = slots[j]
      BY <1>1, <2>1 DEF Appended
    <3>2. [owner |-> slots[j].sock, slot |-> j, lock |-> m] \in handles
      BY <3>1 DEF NoOrphanLock
    <3> QED
      BY <1>1, <3>1, <3>2 DEF Appended
  <2>2. CASE j = i /\ m = k
    BY <1>1, <2>2 DEF Appended
  <2>3. CASE j = i /\ m # k
    <3>1. m \in 1 .. k - 1 /\ slots'[i].sock = s
      BY <1>1, <2>3 DEF Appended
    <3>2. /\ i \in DOMAIN slots /\ slots[i].sock = s
          /\ m \in DOMAIN slots[i].locks
          /\ slots'[i].locks[m] = slots[i].locks[m]
      BY <1>1, <3>1 DEF Appended
    <3>3. [owner |-> slots[i].sock, slot |-> i, lock |-> m] \in handles
      BY <2>3, <3>2 DEF NoOrphanLock
    <3> QED
      BY <1>1, <2>3, <3>1, <3>2, <3>3 DEF Appended
  <2> QED
    BY <2>1, <2>2, <2>3
<1>9. NoDanglingSocket'
  BY <1>1, <1>2, SocketsAssumption DEF NoDanglingSocket, Appended
<1> QED
  BY <1>3, <1>4, <1>5, <1>6, <1>7, <1>8, <1>9

LEMMA ConsistentUnlock ==
    ASSUME Consistent, NEW h \in handles, Unlock(h)
    PROVE  Consistent'
<1> USE DEF Consistent
<1>1. Removed(h)
  BY UnlockRemoves DEF Unlock
<1>2. handles' = handles \ {h} /\ life' = life /\ calls' = calls
  BY DEF Unlock
<1>3. events' \in [Sockets -> Nat]
  BY DEF Unlock, Wakeup, TypeOK
<1>4. TypeOK'
  BY <1>1, <1>2, <1>3 DEF TypeOK, Removed
<1>5. OneSlot'
  BY <1>1, SocketsAssumption DEF OneSlot, Removed, LeftIn
<1>6. LastLockHeld'
  BY <1>1, SocketsAssumption DEF LastLockHeld, Removed, LeftIn
<1>7. WaitingNotReleased'
  BY <1>1 DEF WaitingNotReleased, Removed, LeftIn
<1>8. HandlesValid'
  <2> SUFFICES ASSUME NEW g \in handles, g # h
               PROVE  /\ g.slot \in DOMAIN slots'
                      /\ slots'[g.slot].sock = g.owner
                      /\ g.lock \in DOMAIN slots'[g.slot].locks
                      /\ ~slots'[g.slot].locks[g.lock].released
    BY <1>2 DEF HandlesValid
  <2>1. /\ g.slot \in DOMAIN slots /\ slots[g.slot].sock = g.owner
        /\ g.lock \in DOMAIN slots[g.slot].locks
        /\ ~slots[g.slot].locks[g.lock].released
        /\ slots[h.slot].sock = h.owner
        /\ g \in Handle /\ h \in Handle
    BY DEF HandlesValid, TypeOK
  <2>2. CASE g.slot = h.slot
    <3>1. g.lock # h.lock
      BY <2>1, <2>2 DEF Handle
    <3>2. ~OnlyLock(h)
      BY <2>1, <2>2, <3>1 DEF OnlyLock
    <3>3. h.slot \in DOMAIN slots' /\ LeftIn(h, slots[h.slot], slots'[h.slot])
      BY <1>1, <3>2 DEF Removed
    <3> QED
      BY <2>1, <2>2, <3>1, <3>3 DEF LeftIn
  <2>3. CASE g.slot # h.slot
    <3>1. slots[g.slot].sock # NoSocket
      BY <2>1, SocketsAssumption DEF Handle
    <3> QED
      BY <1>1, <2>1, <2>3, <3>1 DEF Removed
  <2> QED
    BY <2>2, <2>3
<1>9. NoOrphanLock'
  BY <1>1, <1>2 DEF NoOrphanLock, Removed, LeftIn
<1>10. NoDanglingSocket'
  BY <1>1, <1>2, SocketsAssumption DEF NoDanglingSocket, Removed, LeftIn
<1> QED
  BY <1>4, <1>5, <1>6, <1>7, <1>8, <1>9, <1>10

LEMMA ConsistentObtain ==
    ASSUME Consistent, NEW s \in Sockets, OnObtainLock(s)
    PROVE  Consistent'
<1> USE DEF Consistent
<1>1. Obtained(s)
  BY ObtainLockObtains
<1>2. /\ handles' = handles /\ life' = life /\ calls' = calls
      /\ events[s] > 0 /\ events' = [events EXCEPT ![s] = @ - 1]
  BY DEF OnObtainLock
<1>3. TypeOK'
  BY <1>1, <1>2 DEF TypeOK, Obtained
<1>4. ASSUME NEW i \in DOMAIN slots
      PROVE  /\ i \in DOMAIN slots' /\ slots'[i].sock = slots[i].sock
             /\ DOMAIN slots'[i].locks = DOMAIN slots[i].locks
             /\ Len(slots'[i].locks) = Len(slots[i].locks)
  BY <1>1 DEF Obtained
<1>5. ASSUME NEW i \in DOMAIN slots, NEW k \in DOMAIN slots[i].locks
      PROVE  /\ slots'[i].locks[k].released = slots[i].locks[k].released
             /\ slots'[i].locks[k].waiting => slots[i].locks[k].waiting
  BY <1>1 DEF Obtained
<1>6. DOMAIN slots' = DOMAIN slots
  BY <1>1 DEF Obtained
<1>7. OneSlot'
  BY <1>4, <1>6 DEF OneSlot
<1>8. LastLockHeld'
  <2>1. \A i \in DOMAIN slots : slots[i].sock \in Sockets =>
           Len(slots[i].locks) \in DOMAIN slots[i].locks
    <3>1. \A i \in DOMAIN slots : slots[i] \in Slot
      BY DEF TypeOK
    <3> QED
      BY <3>1 DEF LastLockHeld, Slot
  <2> QED
    BY <1>4, <1>5, <1>6, <2>1 DEF LastLockHeld
<1>9. HandlesValid'
  BY <1>2, <1>4, <1>5, <1>6 DEF HandlesValid
<1>10. WaitingNotReleased'
  BY <1>4, <1>5, <1>6 DEF WaitingNotReleased
<1>11. NoOrphanLock'
  BY <1>2, <1>4, <1>5, <1>6 DEF NoOrphanLock
<1>12. NoDanglingSocket'
  BY <1>1, <1>2, SocketsAssumption DEF NoDanglingSocket, Obtained
<1> QED
  BY <1>3, <1>7, <1>8, <1>9, <1>10, <1>11, <1>12

LEMMA ConsistentDestructor ==
    ASSUME Consistent, NEW s \in Sockets, RemoveHandler(s) \/ Destroyed(s)
    PROVE  Consistent'
<1> USE DEF Consistent
<1>1. slots' = slots /\ handles' = handles /\ calls' = calls
  BY DEF RemoveHandler, Destroyed
<1>2. TypeOK'
  BY <1>1 DEF TypeOK, RemoveHandler, Destroyed
<1>3. OneSlot' /\ LastLockHeld' /\ WaitingNotReleased' /\ HandlesValid' /\ NoOrphanLock'
  BY <1>1 DEF OneSlot, LastLockHeld, WaitingNotReleased, HandlesValid, NoOrphanLock
<1>4. ASSUME Destroyed(s), NEW i \in DOMAIN slots
      PROVE  slots[i].sock # s
  <2> SUFFICES ASSUME slots[i].sock = s PROVE FALSE
    OBVIOUS
  <2> DEFINE k == Len(slots[i].locks)
  <2>1. k \in DOMAIN slots[i].locks /\ ~slots[i].locks[k].released
    <3>1. slots[i] \in Slot
      BY DEF TypeOK
    <3>2. slots[i].locks \in Seq(LockInfo)
      BY <3>1 DEF Slot
    <3> QED
      BY <3>2 DEF LastLockHeld
  <2>2. [owner |-> s, slot |-> i, lock |-> k] \in handles
    BY <2>1 DEF NoOrphanLock
  <2> QED
    BY <1>4, <2>2 DEF Destroyed
<1>5. NoDanglingSocket'
  BY <1>1, <1>4 DEF NoDanglingSocket, RemoveHandler, Destroyed, TypeOK
<1> QED
  BY <1>2, <1>3, <1>5

LEMMA ConsistentNext == Consistent /\ [Next]_vars => Consistent'
<1> SUFFICES ASSUME Consistent, [Next]_vars
             PROVE  Consistent'
  OBVIOUS
<1>1. CASE Next
  BY <1>1, ConsistentLock, ConsistentUnlock, ConsistentObtain,
     ConsistentDestructor DEF Next
<1>2. CASE UNCHANGED vars
  BY <1>2 DEF vars, Consistent, TypeOK, OneSlot, LastLockHeld,
     WaitingNotReleased, HandlesValid, NoOrphanLock, NoDanglingSocket
<1> QED
  BY <1>1, <1>2

LEMMA ConsistentAlways == Spec => []Consistent
<1>1. Init => Consistent
  BY ConsistentInit
<1>2. Consistent /\ [Next]_vars => Consistent'
  BY ConsistentNext
<1> QED
  BY <1>1, <1>2, PTL DEF Spec

(* Every reachable state of the manager has its type, whatever the sockets *)
(* call: in particular no handle ever holds an index below the vectors.    *)
THEOREM TypeCorrect == Spec => []TypeOK
<1>1. Consistent => TypeOK
  BY DEF Consistent
<1> QED
  BY <1>1, ConsistentAlways, PTL

(* The indices in an OpLock stay valid although Unlock shrinks both        *)
(* vectors: they lead to a lock of the handle's own control socket that is *)
(* not released.                                                           *)
THEOREM HandlesStayValid == Spec => []HandlesValid
<1>1. Consistent => HandlesValid
  BY DEF Consistent
<1> QED
  BY <1>1, ConsistentAlways, PTL

(* No lock is left without the handle that would release it.               *)
THEOREM NoLockOrphaned == Spec => []NoOrphanLock
<1>1. Consistent => NoOrphanLock
  BY DEF Consistent
<1> QED
  BY <1>1, ConsistentAlways, PTL

(* Wakeup never reaches a null or a destroyed control socket.              *)
THEOREM NoSocketDangles == Spec => []NoDanglingSocket
<1>1. Consistent => NoDanglingSocket
  BY DEF Consistent
<1> QED
  BY <1>1, ConsistentAlways, PTL

-----------------------------------------------------------------------------
(* Mutual exclusion.  The granted locks grow in Lock and OnObtainLock only *)
(* and both compare the new one with every granted lock of other slots.    *)
LEMMA ExclusionLock ==
    ASSUME Consistent, MutualExclusion, NEW s \in Sockets, NEW r \in Reasons,
           NEW p \in Paths, NEW inc \in Inclusive, Lock(s, r, p, inc)
    PROVE  MutualExclusion'
<1>1. PICK i \in Nat \ {0}, k \in Nat \ {0}, info \in LockInfo :
         /\ info.waiting <=> BlockedAtLock(s, info)
         /\ Appended(s, i, k, info)
  BY LockAppends DEF Consistent
<1>2. ASSUME NEW a \in DOMAIN slots', NEW m \in DOMAIN slots'[a].locks,
             a # i \/ m # k
      PROVE  /\ a \in DOMAIN slots /\ slots'[a].sock = slots[a].sock
             /\ m \in DOMAIN slots[a].locks
             /\ slots'[a].locks[m] = slots[a].locks[m]
  <2>1. CASE a = i
    <3>1. m \in 1 .. k - 1
      BY <1>1, <1>2, <2>1 DEF Appended
    <3> QED
      BY <1>1, <2>1, <3>1 DEF Appended
  <2>2. CASE a # i
    BY <1>1, <2>2 DEF Appended
  <2> QED
    BY <2>1, <2>2
<1>3. ASSUME NEW a \in DOMAIN slots', a # i, slots'[a].sock \in Sockets,
             ServerOf[slots'[a].sock] = ServerOf[s],
             NEW m \in DOMAIN slots'[a].locks, Granted(slots'[a].locks[m]),
             ~info.waiting
      PROVE  ~Conflict(slots'[a].locks[m], info)
  <2>1. /\ a \in DOMAIN slots /\ slots'[a].sock = slots[a].sock
        /\ m \in DOMAIN slots[a].locks
        /\ slots'[a].locks[m] = slots[a].locks[m]
    BY <1>2, <1>3
  <2>2. slots[a].sock # s
    BY <1>1, <1>3, <2>1 DEF Appended, SlotOf, Consistent, OneSlot
  <2> QED
    BY <1>1, <1>3, <2>1, <2>2 DEF BlockedAtLock
<1>4. slots'[i].sock = s /\ slots'[i].locks[k] = info
  BY <1>1 DEF Appended
<1> SUFFICES ASSUME NEW a \in DOMAIN slots', NEW b \in DOMAIN slots', a # b,
                    slots'[a].sock \in Sockets, slots'[b].sock \in Sockets,
                    ServerOf[slots'[a].sock] = ServerOf[slots'[b].sock],
                    NEW m \in DOMAIN slots'[a].locks,
                    NEW n \in DOMAIN slots'[b].locks,
                    Granted(slots'[a].locks[m]), Granted(slots'[b].locks[n])
             PROVE  ~Conflict(slots'[a].locks[m], slots'[b].locks[n])
  BY DEF MutualExclusion, Granted, Conflict
<1>5. CASE a = i /\ m = k
  BY <1>3, <1>4, <1>5, ConflictSymmetric DEF Granted
<1>6. CASE b = i /\ n = k
  BY <1>3, <1>4, <1>6 DEF Granted
<1>7. CASE (a # i \/ m # k) /\ (b # i \/ n # k)
  BY <1>2, <1>7 DEF MutualExclusion
<1> QED
  BY <1>5, <1>6, <1>7

LEMMA ExclusionUnlock ==
    ASSUME Consistent, MutualExclusion, NEW h \in handles, Unlock(h)
    PROVE  MutualExclusion'
<1>1. Removed(h)
  BY UnlockRemoves DEF Unlock, Consistent
<1>2. ASSUME NEW a \in DOMAIN slots', slots'[a].sock \in Sockets,
             NEW m \in DOMAIN slots'[a].locks, Granted(slots'[a].locks[m])
      PROVE  /\ a \in DOMAIN slots /\ slots'[a].sock = slots[a].sock
             /\ m \in DOMAIN slots[a].locks
             /\ slots'[a].locks[m] = slots[a].locks[m]
  BY <1>1, <1>2, SocketsAssumption DEF Removed, LeftIn, Granted
<1> SUFFICES ASSUME NEW a \in DOMAIN slots', NEW b \in DOMAIN slots', a # b,
                    slots'[a].sock \in Sockets, slots'[b].sock \in Sockets,
                    ServerOf[slots'[a].sock] = ServerOf[slots'[b].sock],
                    NEW m \in DOMAIN slots'[a].locks,
                    NEW n \in DOMAIN slots'[b].locks,
                    Granted(slots'[a].locks[m]), Granted(slots'[b].locks[n])
             PROVE  ~Conflict(slots'[a].locks[m], slots'[b].locks[n])
  BY DEF MutualExclusion, Granted, Conflict
<1> QED
  BY <1>2 DEF MutualExclusion

LEMMA ExclusionObtain ==
    ASSUME Consistent, MutualExclusion, NEW s \in Sockets, OnObtainLock(s)
    PROVE  MutualExclusion'
<1>1. Obtained(s)
  BY ObtainLockObtains DEF Consistent
<1>2. ASSUME NEW a \in DOMAIN slots', NEW m \in DOMAIN slots'[a].locks
      PROVE  LET l == slots[a].locks[m]
                 l2 == slots'[a].locks[m]
             IN  /\ a \in DOMAIN slots /\ slots'[a].sock = slots[a].sock
                 /\ m \in DOMAIN slots[a].locks
                 /\ l2.path = l.path /\ l2.reason = l.reason
                 /\ l2.inclusive = l.inclusive
                 /\ slots[a].sock # s => l2 = l
                 /\ Granted(l2) =>
                      \/ Granted(l)
                      \/ slots[a].sock = s /\ ~BlockedAtObtain(a, l)
  BY <1>1 DEF Obtained, Granted
<1>3. ASSUME NEW a \in DOMAIN slots', NEW b \in DOMAIN slots', a # b,
             NEW m \in DOMAIN slots'[a].locks, NEW n \in DOMAIN slots'[b].locks,
             Granted(slots'[b].locks[n]), slots[a].sock = s,
             ~BlockedAtObtain(a, slots[a].locks[m])
      PROVE  ~Conflict(slots[b].locks[n], slots[a].locks[m])
  <2>1. slots[b].sock # s
    BY <1>2, <1>3 DEF Consistent, OneSlot
  <2>2. /\ Granted(slots[b].locks[n]) /\ b \in DOMAIN slots \ {a}
        /\ n \in DOMAIN slots[b].locks
    BY <1>2, <1>3, <2>1
  <2> QED
    BY <1>3, <2>2 DEF BlockedAtObtain
<1> SUFFICES ASSUME NEW a \in DOMAIN slots', NEW b \in DOMAIN slots', a # b,
                    slots'[a].sock \in Sockets, slots'[b].sock \in Sockets,
                    ServerOf[slots'[a].sock] = ServerOf[slots'[b].sock],
                    NEW m \in DOMAIN slots'[a].locks,
                    NEW n \in DOMAIN slots'[b].locks,
                    Granted(slots'[a].locks[m]), Granted(slots'[b].locks[n])
             PROVE  ~Conflict(slots'[a].locks[m], slots'[b].locks[n])
  BY DEF MutualExclusion, Granted, Conflict
<1>4. Conflict(slots'[a].locks[m], slots'[b].locks[n])
         <=> Conflict(slots[a].locks[m], slots[b].locks[n])
  BY <1>2 DEF Conflict
<1>5. CASE Granted(slots[a].locks[m]) /\ Granted(slots[b].locks[n])
  BY <1>2, <1>4, <1>5 DEF MutualExclusion
<1>6. CASE ~Granted(slots[a].locks[m])
  BY <1>2, <1>3, <1>4, <1>6, ConflictSymmetric
<1>7. CASE ~Granted(slots[b].locks[n])
  BY <1>2, <1>3, <1>4, <1>7, ConflictSymmetric
<1> QED
  BY <1>5, <1>6, <1>7

(* Two control sockets of one server never hold conflicting locks at the   *)
(* same time: Lock and OnObtainLock grant none that conflicts with a       *)
(* granted lock, whatever is released or destroyed around them.            *)
THEOREM MutuallyExclusive == Spec => []MutualExclusion
<1>1. Init => MutualExclusion
  BY DEF Init, MutualExclusion
<1>2. Consistent /\ MutualExclusion /\ [Next]_vars => MutualExclusion'
  <2> SUFFICES ASSUME Consistent, MutualExclusion, [Next]_vars
               PROVE  MutualExclusion'
    OBVIOUS
  <2>1. CASE UNCHANGED slots
    BY <2>1 DEF MutualExclusion, Granted, Conflict
  <2>2. CASE Next
    BY <2>1, <2>2, ExclusionLock, ExclusionUnlock, ExclusionObtain
    DEF Next, RemoveHandler, Destroyed
  <2> QED
    BY <2>1, <2>2 DEF vars
<1> QED
  BY <1>1, <1>2, ConsistentAlways, PTL DEF Spec

-----------------------------------------------------------------------------
(* Wakeups.  A lock starts to wait because another one is granted; when a  *)
(* granted lock goes, Unlock posts an event to every waiting socket; an    *)
(* event is used up by an attempt to obtain every waiting lock.            *)
LEMMA LockHasSocket ==
    ASSUME Consistent, NEW a \in DOMAIN slots, NEW m \in DOMAIN slots[a].locks
    PROVE  slots[a].sock \in Sockets
<1>1. slots[a] \in Slot
  BY DEF Consistent, TypeOK
<1>2. slots[a].locks # <<>>
  OBVIOUS
<1> QED
  BY <1>1, <1>2 DEF Consistent, NoDanglingSocket, Slot

LEMMA WakeupLock ==
    ASSUME Consistent, NoLostWakeup, NEW s \in Sockets, NEW r \in Reasons,
           NEW p \in Paths, NEW inc \in Inclusive, Lock(s, r, p, inc)
    PROVE  NoLostWakeup'
<1>1. PICK i \in Nat \ {0}, k \in Nat \ {0}, info \in LockInfo :
         /\ info.waiting <=> BlockedAtLock(s, info)
         /\ Appended(s, i, k, info)
  BY LockAppends DEF Consistent
<1>2. ASSUME NEW a \in DOMAIN slots, NEW m \in DOMAIN slots[a].locks
      PROVE  /\ a \in DOMAIN slots' /\ m \in DOMAIN slots'[a].locks
             /\ slots'[a].locks[m] = slots[a].locks[m]
             /\ slots'[a].sock = slots[a].sock
  <2>1. CASE a = i
    <3>1. m \in 1 .. k - 1 /\ m \in 1 .. k
      BY <1>1, <2>1 DEF Appended
    <3> QED
      BY <1>1, <2>1, <3>1 DEF Appended
  <2>2. CASE a # i
    BY <1>1, <2>2 DEF Appended
  <2> QED
    BY <2>1, <2>2
<1>3. ASSUME NEW a, NEW l, BlockedAtObtain(a, l)
      PROVE  BlockedAtObtain(a, l)'
  BY <1>2, <1>3 DEF BlockedAtObtain, Granted, Conflict
<1>4. events' = events /\ life' = life
  BY DEF Lock
<1> SUFFICES ASSUME NEW a \in DOMAIN slots', NEW m \in DOMAIN slots'[a].locks,
                    slots'[a].locks[m].waiting, life[slots'[a].sock] = "alive"
             PROVE  \/ BlockedAtObtain(a, slots[a].locks[m])'
                    \/ events[slots'[a].sock] > 0
  BY <1>4 DEF NoLostWakeup
<1>5. CASE a = i /\ m = k
  <2>1. slots'[a].locks[m] = info /\ slots'[a].sock = s
    BY <1>1, <1>5 DEF Appended
  <2>2. PICK j \in DOMAIN slots : slots[j].sock \in Sockets \ {s} /\
           \E n \in DOMAIN slots[j].locks :
              Granted(slots[j].locks[n]) /\ Conflict(slots[j].locks[n], info)
    BY <1>1, <2>1 DEF BlockedAtLock
  <2>3. j # a
    BY <1>2, <2>1, <2>2
  <2>4. BlockedAtObtain(a, info)
    BY <2>2, <2>3 DEF BlockedAtObtain
  <2> QED
    BY <1>3, <2>1, <2>4
<1>6. CASE a # i \/ m # k
  <2>1. a \in DOMAIN slots /\ m \in DOMAIN slots[a].locks
    BY <1>1, <1>6 DEF Appended
  <2>2. BlockedAtObtain(a, slots[a].locks[m]) \/ events[slots[a].sock] > 0
    BY <1>2, <2>1 DEF NoLostWakeup
  <2> QED
    BY <1>2, <1>3, <2>1, <2>2
<1> QED
  BY <1>5, <1>6

LEMMA WakeupUnlock ==
    ASSUME Consistent, NoLostWakeup, NEW h \in handles, Unlock(h)
    PROVE  NoLostWakeup'
<1>1. Removed(h)
  BY UnlockRemoves DEF Unlock, Consistent
<1>2. life' = life
  BY DEF Unlock
<1> SUFFICES ASSUME NEW a \in DOMAIN slots', NEW m \in DOMAIN slots'[a].locks,
                    slots'[a].locks[m].waiting, life[slots'[a].sock] = "alive"
             PROVE  \/ BlockedAtObtain(a, slots[a].locks[m])'
                    \/ events'[slots'[a].sock] > 0
  BY <1>2 DEF NoLostWakeup
<1>3. /\ a \in DOMAIN slots /\ slots'[a].sock = slots[a].sock
      /\ m \in DOMAIN slots[a].locks
      /\ slots'[a].locks[m] = slots[a].locks[m]
  BY <1>1 DEF Removed, LeftIn
<1>4. slots[a].sock \in Sockets
  BY <1>3, LockHasSocket
<1>5. CASE ~slots[h.slot].locks[h.lock].waiting
  <2>1. Wakeup(slots') /\ HasWaiting(slots'[a])
    BY <1>5 DEF Unlock, HasWaiting
  <2>2. events'[slots[a].sock] = events[slots[a].sock] + 1
    BY <1>3, <1>4, <2>1 DEF Wakeup
  <2> QED
    BY <1>3, <1>4, <2>2 DEF Consistent, TypeOK
<1>6. CASE slots[h.slot].locks[h.lock].waiting
  <2>1. events' = events
    BY <1>6 DEF Unlock
  <2>2. BlockedAtObtain(a, slots[a].locks[m]) \/ events[slots[a].sock] > 0
    BY <1>3 DEF NoLostWakeup
  <2>3. CASE BlockedAtObtain(a, slots[a].locks[m])
    <3>0. PICK j \in DOMAIN slots \ {a} : \E k \in DOMAIN slots[j].locks :
             /\ Granted(slots[j].locks[k])
             /\ Conflict(slots[j].locks[k], slots[a].locks[m])
      BY <2>3 DEF BlockedAtObtain
    <3>1. PICK k \in DOMAIN slots[j].locks :
             /\ Granted(slots[j].locks[k])
             /\ Conflict(slots[j].locks[k], slots[a].locks[m])
      BY <3>0
    <3>2. j # h.slot \/ k # h.lock
      BY <1>6, <3>1 DEF Granted
    <3>3. slots[j].sock # NoSocket
      BY <3>1 DEF Consistent, NoDanglingSocket
    <3>4. /\ j \in DOMAIN slots' /\ k \in DOMAIN slots'[j].locks
          /\ slots'[j].locks[k] = slots[j].locks[k]
      <4>1. CASE j = h.slot
        <5>1. ~OnlyLock(h)
          BY <3>1, <3>2, <4>1 DEF OnlyLock, Granted
        <5> QED
          BY <1>1, <3>1, <3>2, <4>1, <5>1 DEF Removed, LeftIn, Granted
      <4>2. CASE j # h.slot
        BY <1>1, <3>1, <3>3, <4>2 DEF Removed
      <4> QED
        BY <4>1, <4>2
    <3> QED
      BY <1>3, <3>1, <3>4 DEF BlockedAtObtain, Granted, Conflict
  <2> QED
    BY <1>3, <2>1, <2>2, <2>3
<1> QED
  BY <1>5, <1>6

LEMMA WakeupObtain ==
    ASSUME Consistent, NoLostWakeup, NEW s \in Sockets, OnObtainLock(s)
    PROVE  NoLostWakeup'
<1>1. Obtained(s)
  BY ObtainLockObtains DEF Consistent
<1>2. life' = life /\ events' = [events EXCEPT ![s] = @ - 1]
  BY DEF OnObtainLock
<1> SUFFICES ASSUME NEW a \in DOMAIN slots', NEW m \in DOMAIN slots'[a].locks,
                    slots'[a].locks[m].waiting, life[slots'[a].sock] = "alive"
             PROVE  \/ BlockedAtObtain(a, slots[a].locks[m])'
                    \/ events'[slots'[a].sock] > 0
  BY <1>2 DEF NoLostWakeup
<1>3. /\ a \in DOMAIN slots /\ slots'[a].sock = slots[a].sock
      /\ m \in DOMAIN slots[a].locks
      /\ slots[a].sock # s => slots'[a] = slots[a]
      /\ slots'[a].locks[m].path = slots[a].locks[m].path
      /\ slots'[a].locks[m].reason = slots[a].locks[m].reason
      /\ slots'[a].locks[m].inclusive = slots[a].locks[m].inclusive
      /\ slots[a].sock = s => BlockedAtObtain(a, slots[a].locks[m])
  BY <1>1 DEF Obtained
<1>4. slots[a].locks[m].waiting
  BY <1>1, <1>3 DEF Obtained
<1>5. slots[a].sock \in Sockets
  BY <1>3, LockHasSocket
<1>6. ASSUME BlockedAtObtain(a, slots[a].locks[m])
      PROVE  BlockedAtObtain(a, slots[a].locks[m])'
  <2>0. PICK j \in DOMAIN slots \ {a} : \E k \in DOMAIN slots[j].locks :
           /\ Granted(slots[j].locks[k])
           /\ Conflict(slots[j].locks[k], slots[a].locks[m])
    BY <1>6 DEF BlockedAtObtain
  <2>1. PICK k \in DOMAIN slots[j].locks :
           /\ Granted(slots[j].locks[k])
           /\ Conflict(slots[j].locks[k], slots[a].locks[m])
    BY <2>0
  <2>2. LET l == slots[j].locks[k]
            l2 == slots'[j].locks[k]
        IN  /\ j \in DOMAIN slots' /\ k \in DOMAIN slots'[j].locks
            /\ l2.path = l.path /\ l2.reason = l.reason
            /\ l2.inclusive = l.inclusive /\ Granted(l2)
    BY <1>1, <2>1 DEF Obtained, Granted
  <2> QED
    BY <1>3, <2>1, <2>2 DEF BlockedAtObtain, Granted, Conflict
<1>7. CASE slots[a].sock = s
  BY <1>3, <1>6, <1>7
<1>8. CASE slots[a].sock # s
  <2>1. events'[slots[a].sock] = events[slots[a].sock]
    BY <1>2, <1>5, <1>8 DEF Consistent, TypeOK
  <2>2. BlockedAtObtain(a, slots[a].locks[m]) \/ events[slots[a].sock] > 0
    BY <1>3, <1>4 DEF NoLostWakeup
  <2> QED
    BY <1>3, <1>6, <2>1, <2>2
<1> QED
  BY <1>7, <1>8

LEMMA WakeupDestructor ==
    ASSUME Consistent, NoLostWakeup, NEW s \in Sockets,
           RemoveHandler(s) \/ Destroyed(s)
    PROVE  NoLostWakeup'
<1>1. slots' = slots
  BY DEF RemoveHandler, Destroyed
<1>2. ASSUME NEW a \in DOMAIN slots, NEW m \in DOMAIN slots[a].locks,
             life'[slots[a].sock] = "alive"
      PROVE  /\ life[slots[a].sock] = "alive"
             /\ events'[slots[a].sock] = events[slots[a].sock]
  <2>1. slots[a].sock \in Sockets
    BY LockHasSocket
  <2> QED
    BY <1>2, <2>1 DEF RemoveHandler, Destroyed, Consistent, TypeOK
<1>3. \A a, l : BlockedAtObtain(a, l) => BlockedAtObtain(a, l)'
  BY <1>1 DEF BlockedAtObtain, Granted, Conflict
<1> QED
  BY <1>1, <1>2, <1>3 DEF NoLostWakeup

(* No wakeup is lost: a lock waits only while a conflicting lock is held   *)
(* or while an event that will try it again is on its way, whatever the    *)
(* order of locks, unlocks, events and destructions.                       *)
THEOREM WakeupsArrive == Spec => []NoLostWakeup
<1>1. Init => NoLostWakeup
  BY DEF Init, NoLostWakeup
<1>2. Consistent /\ NoLostWakeup /\ [Next]_vars => NoLostWakeup'
  <2> SUFFICES ASSUME Consistent, NoLostWakeup, [Next]_vars
               PROVE  NoLostWakeup'
    OBVIOUS
  <2>1. CASE UNCHANGED vars
    BY <2>1 DEF vars, NoLostWakeup, BlockedAtObtain, Granted, Conflict
  <2>2. CASE Next
    BY <2>2, WakeupLock, WakeupUnlock, WakeupObtain, WakeupDestructor DEF Next
  <2> QED
    BY <2>1, <2>2
<1> QED
  BY <1>1, <1>2, ConsistentAlways, PTL DEF Spec
-----------------------------------------------------------------------------
(* The refinement.  Every entry that is not released stands for one lock;  *)
(* what the actions do to the entries (Appended, Removed, Obtained) is     *)
(* turned into what they do to the set of locks.                           *)
Entry(sl, i, k) ==
    [owner |-> sl[i].sock, key |-> <<i, k>>, what |-> What(sl[i].locks[k])]

Stands(sl, w, i, k) ==
    /\ i \in DOMAIN sl /\ k \in DOMAIN sl[i].locks
    /\ ~sl[i].locks[k].released /\ sl[i].locks[k].waiting = w

LocksIn(sl, w) ==
    UNION {{Entry(sl, i, k) : k \in {m \in DOMAIN sl[i].locks : Stands(sl, w, i, m)}} :
           i \in DOMAIN sl}

LEMMA LocksInElement ==
    ASSUME NEW sl, NEW w, NEW x
    PROVE  x \in LocksIn(sl, w)
             <=> \E i \in DOMAIN sl : \E k \in DOMAIN sl[i].locks :
                    Stands(sl, w, i, k) /\ x = Entry(sl, i, k)
BY DEF LocksIn

LEMMA AbstractLocksIn ==
    ASSUME NEW w
    PROVE  /\ AbstractLocks(w) = LocksIn(slots, w)
           /\ AbstractLocks(w)' = LocksIn(slots', w)
<1>1. ASSUME NEW x
      PROVE  /\ x \in AbstractLocks(w)
                  <=> \E i \in DOMAIN slots : \E k \in DOMAIN slots[i].locks :
                         Stands(slots, w, i, k) /\ x = Entry(slots, i, k)
             /\ x \in AbstractLocks(w)'
                  <=> \E i \in DOMAIN slots' : \E k \in DOMAIN slots'[i].locks :
                         Stands(slots', w, i, k) /\ x = Entry(slots', i, k)
  BY DEF AbstractLocks, Stands, Entry
<1>2. \A x : x \in AbstractLocks(w) <=> x \in LocksIn(slots, w)
  BY <1>1, LocksInElement
<1>3. \A x : x \in AbstractLocks(w)' <=> x \in LocksIn(slots', w)
  BY <1>1, LocksInElement
<1>4. AbstractLocks(w) = LocksIn(slots, w)
  BY <1>2
<1>5. AbstractLocks(w)' = LocksIn(slots', w)
  BY <1>3
<1> QED
  BY <1>4, <1>5

(* The index pair tells the locks apart.                                   *)
LEMMA EntryKey ==
    ASSUME NEW sl, NEW i, NEW k, NEW j, NEW m, Entry(sl, i, k) = Entry(sl, j, m)
    PROVE  i = j /\ k = m
BY DEF Entry

(* No vector gets longer than the number of calls of Lock.                 *)
Bounded ==
    /\ Len(slots) <= calls
    /\ \A i \in DOMAIN slots : Len(slots[i].locks) <= calls

LEMMA SlotTypes ==
    ASSUME TypeOK, NEW i \in DOMAIN slots
    PROVE  /\ i \in Nat \ {0} /\ i <= Len(slots) /\ Len(slots) \in Nat
           /\ slots[i] \in Slot
           /\ slots[i].locks \in Seq(LockInfo) /\ Len(slots[i].locks) \in Nat
           /\ DOMAIN slots[i].locks = 1 .. Len(slots[i].locks)
           /\ \A k \in DOMAIN slots[i].locks :
                 k \in Nat \ {0} /\ k <= Len(slots[i].locks) /\ slots[i].locks[k] \in LockInfo
<1>1. slots[i] \in Slot /\ i \in 1 .. Len(slots) /\ Len(slots) \in Nat
  BY DEF TypeOK
<1>2. slots[i].locks \in Seq(LockInfo)
  BY <1>1 DEF Slot
<1> QED
  BY <1>1, <1>2

LEMMA BoundedNext == Consistent /\ Bounded /\ [Next]_vars => Bounded'
<1> SUFFICES ASSUME Consistent, Bounded, [Next]_vars
             PROVE  Bounded'
  OBVIOUS
<1>1. TypeOK /\ TypeOK' /\ calls \in Nat /\ slots \in Seq(Slot) /\ slots' \in Seq(Slot)
      /\ Len(slots) \in Nat /\ Len(slots') \in Nat
      /\ DOMAIN slots = 1 .. Len(slots) /\ DOMAIN slots' = 1 .. Len(slots')
  BY ConsistentNext, BoundAssumption DEF Consistent, TypeOK
<1>2. ASSUME NEW s \in Sockets, NEW r \in Reasons, NEW p \in Paths, NEW inc \in Inclusive,
             Lock(s, r, p, inc)
      PROVE  Bounded'
  <2>1. calls' = calls + 1
    BY <1>2 DEF Lock
  <2>2. PICK i \in Nat \ {0}, k \in Nat \ {0}, info \in LockInfo : Appended(s, i, k, info)
    BY <1>1, <1>2, LockAppends
  <2>3. Len(slots') <= calls + 1
    <3>1. DOMAIN slots' = DOMAIN slots \cup {i}
      BY <2>2 DEF Appended
    <3>2. Len(slots') <= Len(slots) + 1
      <4>1. SUFFICES ASSUME Len(slots') > Len(slots) + 1
                     PROVE  FALSE
        BY <1>1
      <4>2. Len(slots) + 1 \in DOMAIN slots' /\ Len(slots) + 2 \in DOMAIN slots'
        BY <1>1, <4>1
      <4>3. Len(slots) + 1 \notin DOMAIN slots /\ Len(slots) + 2 \notin DOMAIN slots
        BY <1>1
      <4>4. Len(slots) + 1 = i /\ Len(slots) + 2 = i
        BY <3>1, <4>2, <4>3
      <4> QED
        BY <1>1, <4>4
    <3> QED
      BY <1>1, <3>2 DEF Bounded
  <2>4. ASSUME NEW j \in DOMAIN slots'
        PROVE  Len(slots'[j].locks) <= calls + 1
    <3>1. CASE j # i
      <4>1. j \in DOMAIN slots /\ slots'[j] = slots[j]
        BY <2>2, <3>1 DEF Appended
      <4> QED
        BY <1>1, <4>1, SlotTypes DEF Bounded
    <3>2. CASE j = i
      <4>1. Len(slots'[j].locks) = k
        BY <2>2, <3>2 DEF Appended
      <4>2. CASE i \in DOMAIN slots
        <5>1. DOMAIN slots[i].locks = 1 .. k - 1
          BY <2>2, <4>2 DEF Appended
        <5>2. k - 1 <= Len(slots[i].locks)
          BY <1>1, <4>2, <5>1, SlotTypes
        <5> QED
          BY <1>1, <4>1, <4>2, <5>2, SlotTypes DEF Bounded
      <4>3. CASE i \notin DOMAIN slots
        BY <1>1, <2>2, <4>1, <4>3 DEF Appended
      <4> QED
        BY <4>2, <4>3
    <3> QED
      BY <3>1, <3>2
  <2> QED
    BY <2>1, <2>3, <2>4 DEF Bounded
<1>3. ASSUME NEW h \in handles, Unlock(h)
      PROVE  Bounded'
  <2>1. Removed(h) /\ calls' = calls
    BY <1>3, UnlockRemoves DEF Unlock, Consistent
  <2>2. DOMAIN slots' \subseteq DOMAIN slots
    BY <2>1 DEF Removed
  <2>3. Len(slots') <= Len(slots)
    BY <1>1, <2>2
  <2>4. ASSUME NEW j \in DOMAIN slots'
        PROVE  Len(slots'[j].locks) <= calls
    <3>1. j \in DOMAIN slots /\ slots'[j] \in Slot
      BY <1>1, <2>2
    <3>2. DOMAIN slots'[j].locks \subseteq DOMAIN slots[j].locks
      <4>1. CASE j # h.slot
        BY <2>1, <4>1 DEF Removed
      <4>2. CASE j = h.slot
        BY <2>1, <4>2 DEF Removed, LeftIn
      <4> QED
        BY <4>1, <4>2
    <3>3. Len(slots'[j].locks) \in Nat /\ DOMAIN slots'[j].locks = 1 .. Len(slots'[j].locks)
      BY <3>1 DEF Slot
    <3>4. Len(slots'[j].locks) <= Len(slots[j].locks)
      BY <1>1, <3>1, <3>2, <3>3, SlotTypes
    <3> QED
      BY <1>1, <3>1, <3>3, <3>4, SlotTypes DEF Bounded
  <2> QED
    BY <1>1, <2>1, <2>3, <2>4 DEF Bounded
<1>4. ASSUME NEW s \in Sockets, OnObtainLock(s)
      PROVE  Bounded'
  <2>1. Obtained(s) /\ calls' = calls
    BY <1>1, <1>4, ObtainLockObtains DEF OnObtainLock
  <2>2. DOMAIN slots' \subseteq DOMAIN slots
    BY <2>1 DEF Obtained
  <2>3. Len(slots') <= Len(slots)
    BY <1>1, <2>2
  <2>4. Len(slots') <= calls
    BY <1>1, <2>3 DEF Bounded
  <2> QED
    BY <2>1, <2>4 DEF Bounded, Obtained
<1>5. CASE UNCHANGED <<slots, calls>>
  BY <1>5 DEF Bounded
<1> QED
  BY <1>2, <1>3, <1>4, <1>5 DEF Next, vars, RemoveHandler, Destroyed

(* Entries of slots stand for locks of the abstract specification.         *)
LEMMA EntryFields ==
    ASSUME NEW sl, NEW i, NEW k
    PROVE  /\ Entry(sl, i, k).owner = sl[i].sock
           /\ Entry(sl, i, k).key = <<i, k>>
           /\ Entry(sl, i, k).what.path = sl[i].locks[k].path
           /\ Entry(sl, i, k).what.reason = sl[i].locks[k].reason
           /\ Entry(sl, i, k).what.inclusive = sl[i].locks[k].inclusive
BY DEF Entry, What

LEMMA EntryType ==
    ASSUME NEW sl \in Seq(Slot), NEW i \in DOMAIN sl, NEW k \in DOMAIN sl[i].locks,
           sl[i].sock \in Sockets, Len(sl) <= MaxCalls, Len(sl[i].locks) <= MaxCalls
    PROVE  Entry(sl, i, k) \in [owner : Sockets, key : Keys,
                what : [path : Paths, reason : Reasons, inclusive : BOOLEAN]]
<1>1. sl[i] \in Slot /\ i \in 1 .. Len(sl) /\ Len(sl) \in Nat
  OBVIOUS
<1>2. sl[i].locks \in Seq(LockInfo)
  BY <1>1 DEF Slot
<1>3. sl[i].locks[k] \in LockInfo /\ k \in 1 .. Len(sl[i].locks) /\ Len(sl[i].locks) \in Nat
  BY <1>2
<1>4. i \in 1 .. MaxCalls /\ k \in 1 .. MaxCalls
  BY <1>1, <1>3, BoundAssumption
<1>5. What(sl[i].locks[k]) \in [path : Paths, reason : Reasons, inclusive : BOOLEAN]
  BY <1>3 DEF What, LockInfo
<1> QED
  BY <1>4, <1>5 DEF Entry, Keys

(* Blocked in the abstract specification: some entry of another socket of  *)
(* the same server is granted and in conflict.                             *)
LEMMA AbstractBlocked ==
    ASSUME Consistent, NEW x
    PROVE  L!Blocked(x)
             <=> \E i \in DOMAIN slots : \E k \in DOMAIN slots[i].locks :
                    /\ Granted(slots[i].locks[k]) /\ slots[i].sock # x.owner
                    /\ ServerOf[slots[i].sock] = ServerOf[x.owner]
                    /\ Conflict(slots[i].locks[k], x.what)
<1>0. PICK w \in BOOLEAN : w = FALSE
  OBVIOUS
<1>1. ASSUME NEW i \in DOMAIN slots, NEW k \in DOMAIN slots[i].locks
      PROVE  /\ Stands(slots, w, i, k) <=> Granted(slots[i].locks[k])
             /\ SameServerConflict(Entry(slots, i, k), x)
                  <=> /\ ServerOf[slots[i].sock] = ServerOf[x.owner]
                      /\ Conflict(slots[i].locks[k], x.what)
             /\ Entry(slots, i, k).owner = slots[i].sock
  <2>1. slots[i].locks[k].waiting \in BOOLEAN
    BY SlotTypes DEF Consistent, LockInfo
  <2> QED
    BY <1>0, <2>1, EntryFields DEF Stands, Granted, SameServerConflict, Conflict
<1>2. L!Blocked(x) <=> \E h \in LocksIn(slots, w) :
                          h.owner # x.owner /\ SameServerConflict(h, x)
  BY <1>0, AbstractLocksIn DEF L!Blocked
<1>3. ASSUME L!Blocked(x)
      PROVE  \E i \in DOMAIN slots : \E k \in DOMAIN slots[i].locks :
                    /\ Granted(slots[i].locks[k]) /\ slots[i].sock # x.owner
                    /\ ServerOf[slots[i].sock] = ServerOf[x.owner]
                    /\ Conflict(slots[i].locks[k], x.what)
  <2>1. PICK h \in LocksIn(slots, w) : h.owner # x.owner /\ SameServerConflict(h, x)
    BY <1>2, <1>3
  <2>2. PICK i \in DOMAIN slots : \E k \in DOMAIN slots[i].locks :
                    Stands(slots, w, i, k) /\ h = Entry(slots, i, k)
    BY <2>1, LocksInElement
  <2> QED
    BY <1>1, <2>1, <2>2
<1>4. ASSUME NEW i \in DOMAIN slots, NEW k \in DOMAIN slots[i].locks,
             Granted(slots[i].locks[k]), slots[i].sock # x.owner,
             ServerOf[slots[i].sock] = ServerOf[x.owner], Conflict(slots[i].locks[k], x.what)
      PROVE  L!Blocked(x)
  <2>1. Entry(slots, i, k) \in LocksIn(slots, w)
    BY <1>1, <1>4, LocksInElement
  <2> QED
    BY <1>1, <1>2, <1>4, <2>1
<1> QED
  BY <1>3, <1>4

LEMMA RefineLock ==
    ASSUME Consistent, Bounded, Consistent', Bounded',
           NEW s \in Sockets, NEW r \in Reasons, NEW p \in Paths,
           NEW inc \in Inclusive, Lock(s, r, p, inc)
    PROVE  L!LocksNext
<1>1. PICK i \in Nat \ {0}, k \in Nat \ {0}, info \in LockInfo :
         /\ ~info.released
         /\ info.waiting <=> BlockedAtLock(s, info)
         /\ Appended(s, i, k, info)
  BY LockAppends DEF Consistent
<1> DEFINE l == Entry(slots', i, k)
<1>2. ASSUME NEW a \in DOMAIN slots', NEW m \in DOMAIN slots'[a].locks,
             a # i \/ m # k
      PROVE  /\ a \in DOMAIN slots /\ m \in DOMAIN slots[a].locks
             /\ slots'[a].sock = slots[a].sock
             /\ slots'[a].locks[m] = slots[a].locks[m]
  <2>1. CASE a = i
    <3>1. m \in 1 .. k - 1
      BY <1>1, <1>2, <2>1 DEF Appended
    <3> QED
      BY <1>1, <2>1, <3>1 DEF Appended
  <2>2. CASE a # i
    BY <1>1, <2>2 DEF Appended
  <2> QED
    BY <2>1, <2>2
<1>3. ASSUME NEW a \in DOMAIN slots, NEW m \in DOMAIN slots[a].locks
      PROVE  /\ a \in DOMAIN slots' /\ m \in DOMAIN slots'[a].locks
             /\ slots'[a].sock = slots[a].sock
             /\ slots'[a].locks[m] = slots[a].locks[m]
             /\ ~(a = i /\ m = k)
  <2>1. CASE a = i
    <3>1. m \in 1 .. k - 1
      BY <1>1, <2>1 DEF Appended
    <3> QED
      BY <1>1, <2>1, <3>1 DEF Appended
  <2>2. CASE a # i
    BY <1>1, <2>2 DEF Appended
  <2> QED
    BY <2>1, <2>2
<1>4. /\ i \in DOMAIN slots' /\ k \in DOMAIN slots'[i].locks
      /\ slots'[i].sock = s /\ slots'[i].locks[k] = info
  BY <1>1 DEF Appended
<1>5. /\ l.owner = s /\ l.key = <<i, k>> /\ l.what.path = info.path
      /\ l.what.reason = info.reason /\ l.what.inclusive = info.inclusive
  BY <1>4, EntryFields
<1>6. l \in [owner : Sockets, key : Keys,
              what : [path : Paths, reason : Reasons, inclusive : BOOLEAN]]
  <2>1. /\ slots' \in Seq(Slot) /\ calls' \in Nat /\ calls' <= MaxCalls
        /\ Len(slots') <= calls' /\ Len(slots'[i].locks) <= calls'
    BY <1>4, BoundAssumption DEF Consistent, TypeOK, Bounded
  <2>2. slots'[i] \in Slot /\ Len(slots') \in Nat
    BY <1>4, <2>1
  <2>3. Len(slots'[i].locks) \in Nat
    BY <2>2 DEF Slot
  <2>4. Len(slots') <= MaxCalls /\ Len(slots'[i].locks) <= MaxCalls
    BY <2>1, <2>2, <2>3, BoundAssumption
  <2> QED
    BY <1>4, <2>1, <2>4, EntryType
<1> HIDE DEF l
<1>7. ASSUME NEW w \in BOOLEAN
      PROVE  LocksIn(slots', w) = LocksIn(slots, w) \cup (IF info.waiting = w THEN {l} ELSE {})
  <2>1. ASSUME NEW a \in DOMAIN slots, NEW m \in DOMAIN slots[a].locks
        PROVE  /\ Stands(slots', w, a, m) <=> Stands(slots, w, a, m)
               /\ Entry(slots', a, m) = Entry(slots, a, m)
    BY <1>3, <2>1 DEF Stands, Entry
  <2>2. Stands(slots', w, i, k) <=> info.waiting = w
    BY <1>1, <1>4 DEF Stands
  <2>3. ASSUME NEW x \in LocksIn(slots', w)
        PROVE  x \in LocksIn(slots, w) \/ (info.waiting = w /\ x = l)
    <3>1. PICK a \in DOMAIN slots' : \E m \in DOMAIN slots'[a].locks :
                  Stands(slots', w, a, m) /\ x = Entry(slots', a, m)
      BY <2>3, LocksInElement
    <3>2. PICK m \in DOMAIN slots'[a].locks :
                  Stands(slots', w, a, m) /\ x = Entry(slots', a, m)
      BY <3>1
    <3>3. CASE a = i /\ m = k
      BY <2>2, <3>2, <3>3 DEF l
    <3>4. CASE a # i \/ m # k
      <4>1. a \in DOMAIN slots /\ m \in DOMAIN slots[a].locks
        BY <1>2, <3>4
      <4> QED
        BY <2>1, <3>2, <4>1, LocksInElement
    <3> QED
      BY <3>3, <3>4
  <2>4. ASSUME NEW x \in LocksIn(slots, w)
        PROVE  x \in LocksIn(slots', w)
    <3>1. PICK a \in DOMAIN slots : \E m \in DOMAIN slots[a].locks :
                  Stands(slots, w, a, m) /\ x = Entry(slots, a, m)
      BY <2>4, LocksInElement
    <3>2. PICK m \in DOMAIN slots[a].locks :
                  Stands(slots, w, a, m) /\ x = Entry(slots, a, m)
      BY <3>1
    <3>3. Stands(slots', w, a, m) /\ x = Entry(slots', a, m)
          /\ a \in DOMAIN slots' /\ m \in DOMAIN slots'[a].locks
      BY <1>3, <2>1, <3>2
    <3> QED
      BY <3>3, LocksInElement
  <2>5. info.waiting = w => l \in LocksIn(slots', w)
    BY <1>4, <2>2, LocksInElement DEF l
  <2> QED
    BY <2>3, <2>4, <2>5
<1>8. ASSUME NEW w \in BOOLEAN, NEW x \in LocksIn(slots, w)
      PROVE  x.key # l.key
  <2>1. PICK a \in DOMAIN slots : \E m \in DOMAIN slots[a].locks :
                  Stands(slots, w, a, m) /\ x = Entry(slots, a, m)
    BY <1>8, LocksInElement
  <2>2. PICK m \in DOMAIN slots[a].locks : x = Entry(slots, a, m)
    BY <2>1
  <2>3. x.key = <<a, m>>
    BY <2>2, EntryFields
  <2> QED
    BY <1>3, <1>5, <2>3
<1>9. L!Blocked(l) <=> info.waiting
  <2>1. \A i1 \in DOMAIN slots : \A k1 \in DOMAIN slots[i1].locks :
            slots[i1].sock \in Sockets
    BY LockHasSocket
  <2>2. ASSUME NEW c
        PROVE  Conflict(c, l.what) <=> Conflict(c, info)
    BY <1>5 DEF Conflict
  <2>3. BlockedAtLock(s, info)
          <=> \E i1 \in DOMAIN slots : \E k1 \in DOMAIN slots[i1].locks :
                  /\ Granted(slots[i1].locks[k1]) /\ slots[i1].sock # l.owner
                  /\ ServerOf[slots[i1].sock] = ServerOf[l.owner]
                  /\ Conflict(slots[i1].locks[k1], l.what)
    BY <1>5, <2>1, <2>2 DEF BlockedAtLock
  <2> QED
    BY <1>1, <2>3, AbstractBlocked
<1>10. info.waiting \in BOOLEAN
  BY DEF LockInfo
<1>11. L!Acquire(l)
  <2>1. \A m \in L!locks : <<m.owner, m.key>> # <<l.owner, l.key>>
    BY <1>8, AbstractLocksIn DEF L!locks
  <2>2. CASE info.waiting
    <3>1. /\ LocksIn(slots', TRUE) = LocksIn(slots, TRUE) \cup {l}
          /\ LocksIn(slots', FALSE) = LocksIn(slots, FALSE)
      BY <1>7, <1>10, <2>2
    <3> QED
      BY <1>9, <2>1, <2>2, <3>1, AbstractLocksIn DEF L!Acquire
  <2>3. CASE ~info.waiting
    <3>1. /\ LocksIn(slots', FALSE) = LocksIn(slots, FALSE) \cup {l}
          /\ LocksIn(slots', TRUE) = LocksIn(slots, TRUE)
      BY <1>7, <1>10, <2>3
    <3> QED
      BY <1>9, <2>1, <2>3, <3>1, AbstractLocksIn DEF L!Acquire
  <2> QED
    BY <2>2, <2>3
<1>12. l \in (L!locks)' \ L!locks
  <2>1. l \in LocksIn(slots', TRUE) \cup LocksIn(slots', FALSE)
    BY <1>7, <1>10
  <2>2. l \notin LocksIn(slots, TRUE) /\ l \notin LocksIn(slots, FALSE)
    BY <1>8
  <2> QED
    BY <2>1, <2>2, AbstractLocksIn DEF L!locks
<1> QED
  BY <1>6, <1>11, <1>12 DEF L!LocksNext

LEMMA RefineUnlock ==
    ASSUME Consistent, NEW h \in handles, Unlock(h)
    PROVE  L!LocksNext
<1> DEFINE l == Entry(slots, h.slot, h.lock)
<1>1. Removed(h)
  BY UnlockRemoves DEF Unlock, Consistent
<1>2. /\ h.slot \in DOMAIN slots /\ h.lock \in DOMAIN slots[h.slot].locks
      /\ ~slots[h.slot].locks[h.lock].released /\ slots[h.slot].sock # NoSocket
  BY SocketsAssumption DEF Consistent, HandlesValid, TypeOK, Handle
<1>3. ASSUME NEW w \in BOOLEAN
      PROVE  LocksIn(slots', w) = LocksIn(slots, w) \ {l}
  <2>1. ASSUME NEW x \in LocksIn(slots', w)
        PROVE  x \in LocksIn(slots, w) \ {l}
    <3>1. PICK a \in DOMAIN slots' : \E m \in DOMAIN slots'[a].locks :
                  Stands(slots', w, a, m) /\ x = Entry(slots', a, m)
      BY <2>1, LocksInElement
    <3>2. PICK m \in DOMAIN slots'[a].locks :
                  Stands(slots', w, a, m) /\ x = Entry(slots', a, m)
      BY <3>1
    <3>3. /\ a \in DOMAIN slots /\ m \in DOMAIN slots[a].locks
          /\ slots'[a].sock = slots[a].sock /\ slots'[a].locks[m] = slots[a].locks[m]
          /\ ~(a = h.slot /\ m = h.lock)
      <4>1. CASE a # h.slot
        BY <1>1, <3>2, <4>1 DEF Removed
      <4>2. CASE a = h.slot
        <5>1. slots'[a].locks # <<>>
          BY <3>2
        <5>2. LeftIn(h, slots[a], slots'[a])
          BY <1>1, <4>2, <5>1 DEF Removed
        <5>3. m # h.lock
          BY <3>2, <5>2 DEF LeftIn, Stands
        <5> QED
          BY <1>2, <3>2, <4>2, <5>2, <5>3 DEF LeftIn
      <4> QED
        BY <4>1, <4>2
    <3>4. Stands(slots, w, a, m) /\ x = Entry(slots, a, m)
      BY <3>2, <3>3 DEF Stands, Entry
    <3>5. x # l
      BY <3>3, <3>4, EntryKey
    <3> QED
      BY <3>3, <3>4, <3>5, LocksInElement
  <2>2. ASSUME NEW x \in LocksIn(slots, w), x # l
        PROVE  x \in LocksIn(slots', w)
    <3>1. PICK a \in DOMAIN slots : \E m \in DOMAIN slots[a].locks :
                  Stands(slots, w, a, m) /\ x = Entry(slots, a, m)
      BY <2>2, LocksInElement
    <3>2. PICK m \in DOMAIN slots[a].locks :
                  Stands(slots, w, a, m) /\ x = Entry(slots, a, m)
      BY <3>1
    <3>3. ~(a = h.slot /\ m = h.lock)
      BY <2>2, <3>2
    <3>4. slots[a].sock # NoSocket
      BY LockHasSocket, SocketsAssumption
    <3>5. /\ a \in DOMAIN slots' /\ m \in DOMAIN slots'[a].locks
          /\ slots'[a].sock = slots[a].sock /\ slots'[a].locks[m] = slots[a].locks[m]
      <4>1. CASE a # h.slot
        BY <1>1, <3>2, <3>4, <4>1 DEF Removed
      <4>2. CASE a = h.slot
        <5>1. ~OnlyLock(h)
          BY <3>2, <3>3, <4>2 DEF OnlyLock, Stands
        <5>2. a \in DOMAIN slots' /\ LeftIn(h, slots[a], slots'[a])
          BY <1>1, <4>2, <5>1 DEF Removed
        <5>3. m \in DOMAIN slots'[a].locks
          BY <3>2, <3>3, <4>2, <5>2 DEF LeftIn, Stands
        <5> QED
          BY <3>3, <4>2, <5>2, <5>3 DEF LeftIn
      <4> QED
        BY <4>1, <4>2
    <3>6. Stands(slots', w, a, m) /\ x = Entry(slots', a, m)
      BY <3>2, <3>5 DEF Stands, Entry
    <3> QED
      BY <3>5, <3>6, LocksInElement
  <2> QED
    BY <2>1, <2>2
<1>4. l \in LocksIn(slots, TRUE) \cup LocksIn(slots, FALSE)
  <2>1. slots[h.slot].locks[h.lock].waiting \in BOOLEAN
    BY <1>2, SlotTypes DEF Consistent, LockInfo
  <2>2. PICK w \in BOOLEAN : w = slots[h.slot].locks[h.lock].waiting
    BY <2>1
  <2>3. Stands(slots, w, h.slot, h.lock)
    BY <1>2, <2>2 DEF Stands
  <2>4. l \in LocksIn(slots, w)
    BY <1>2, <2>3, LocksInElement
  <2> QED
    BY <2>4
<1> HIDE DEF l
<1>5. l \in L!locks
  BY <1>4, AbstractLocksIn DEF L!locks
<1>6. L!ReleaseAll({l})
  BY <1>3, AbstractLocksIn DEF L!ReleaseAll
<1> QED
  BY <1>5, <1>6 DEF L!LocksNext, L!Release

LEMMA RefineObtain ==
    ASSUME Consistent, NEW s \in Sockets, OnObtainLock(s)
    PROVE  L!LocksNext \/ UNCHANGED <<AbstractLocks(FALSE), AbstractLocks(TRUE)>>
<1>1. Obtained(s)
  BY ObtainLockObtains DEF Consistent
<1>2. ASSUME NEW a \in DOMAIN slots, NEW m \in DOMAIN slots[a].locks
      PROVE  /\ a \in DOMAIN slots' /\ m \in DOMAIN slots'[a].locks
             /\ Entry(slots', a, m) = Entry(slots, a, m)
             /\ slots'[a].locks[m].released = slots[a].locks[m].released
             /\ slots[a].sock # s =>
                   slots'[a].locks[m].waiting = slots[a].locks[m].waiting
             /\ slots[a].sock = s =>
                   (slots'[a].locks[m].waiting
                      <=> slots[a].locks[m].waiting /\ BlockedAtObtain(a, slots[a].locks[m]))
             /\ slots[a].locks[m].waiting \in BOOLEAN
             /\ slots'[a].locks[m].waiting \in BOOLEAN
  <2>1. /\ a \in DOMAIN slots' /\ m \in DOMAIN slots'[a].locks
        /\ slots'[a].sock = slots[a].sock
        /\ slots'[a].locks[m].path = slots[a].locks[m].path
        /\ slots'[a].locks[m].reason = slots[a].locks[m].reason
        /\ slots'[a].locks[m].inclusive = slots[a].locks[m].inclusive
    BY <1>1 DEF Obtained
  <2>2. slots[a].locks[m].waiting \in BOOLEAN
    BY SlotTypes DEF Consistent, LockInfo
  <2>3. slots'[a].locks[m].waiting \in BOOLEAN
    <3>1. slots'[a] \in Slot
      BY <1>1, <2>1 DEF Obtained
    <3>2. slots'[a].locks \in Seq(LockInfo)
      BY <3>1 DEF Slot
    <3>3. slots'[a].locks[m] \in LockInfo
      BY <2>1, <3>2
    <3> QED
      BY <3>3 DEF LockInfo
  <2>4. Entry(slots', a, m) = Entry(slots, a, m)
    BY <2>1 DEF Entry, What
  <2> QED
    BY <1>1, <2>1, <2>2, <2>3, <2>4 DEF Obtained
<1>3. PICK t \in BOOLEAN, f \in BOOLEAN : t = TRUE /\ f = FALSE
  OBVIOUS
<1>4. ASSUME NEW a \in DOMAIN slots, NEW m \in DOMAIN slots[a].locks
      PROVE  /\ Stands(slots', t, a, m) => Stands(slots, t, a, m)
             /\ Stands(slots, f, a, m) => Stands(slots', f, a, m)
             /\ Stands(slots', f, a, m)
                  => \/ Stands(slots, f, a, m)
                     \/ /\ Stands(slots, t, a, m) /\ ~Stands(slots', t, a, m)
                        /\ slots[a].sock = s /\ ~BlockedAtObtain(a, slots[a].locks[m])
             /\ Stands(slots, t, a, m) => Stands(slots', t, a, m) \/ Stands(slots', f, a, m)
  BY <1>2, <1>3, <1>4 DEF Stands
<1>5. ASSUME NEW x, NEW w \in BOOLEAN
      PROVE  x \in LocksIn(slots', w)
               <=> \E a \in DOMAIN slots : \E m \in DOMAIN slots[a].locks :
                      Stands(slots', w, a, m) /\ x = Entry(slots, a, m)
  <2>1. ASSUME NEW a \in DOMAIN slots', NEW m \in DOMAIN slots'[a].locks
        PROVE  a \in DOMAIN slots /\ m \in DOMAIN slots[a].locks
    BY <1>1 DEF Obtained
  <2> QED
    BY <1>2, <2>1, LocksInElement
<1> DEFINE G == LocksIn(slots, t) \ LocksIn(slots', t)
<1>6. ASSUME NEW a \in DOMAIN slots, NEW m \in DOMAIN slots[a].locks,
             Stands(slots, t, a, m), ~Stands(slots', t, a, m)
      PROVE  Entry(slots, a, m) \in G
  <2>1. Entry(slots, a, m) \in LocksIn(slots, t)
    BY <1>6, LocksInElement
  <2>2. ASSUME Entry(slots, a, m) \in LocksIn(slots', t)
        PROVE  FALSE
    <3>1. PICK b \in DOMAIN slots : \E n \in DOMAIN slots[b].locks :
                Stands(slots', t, b, n) /\ Entry(slots, a, m) = Entry(slots, b, n)
      BY <1>5, <2>2
    <3>2. PICK n \in DOMAIN slots[b].locks :
                Stands(slots', t, b, n) /\ Entry(slots, a, m) = Entry(slots, b, n)
      BY <3>1
    <3>3. a = b /\ m = n
      BY <3>2, EntryKey
    <3> QED
      BY <1>6, <3>2, <3>3
  <2> QED
    BY <2>1, <2>2
<1>7. ASSUME NEW x \in G
      PROVE  x \in LocksIn(slots', f) /\ x.owner = s /\ ~L!Blocked(x)
  <2>1. PICK a \in DOMAIN slots : \E m \in DOMAIN slots[a].locks :
                Stands(slots, t, a, m) /\ x = Entry(slots, a, m)
    BY <1>7, LocksInElement
  <2>2. PICK m \in DOMAIN slots[a].locks : Stands(slots, t, a, m) /\ x = Entry(slots, a, m)
    BY <2>1
  <2>3. ~Stands(slots', t, a, m)
    BY <1>5, <1>7, <2>2
  <2>4. Stands(slots', f, a, m)
    BY <1>4, <2>2, <2>3
  <2>5. ~Stands(slots, f, a, m)
    BY <1>3, <2>2 DEF Stands
  <2>6. slots[a].sock = s /\ ~BlockedAtObtain(a, slots[a].locks[m])
    BY <1>4, <2>4, <2>5
  <2>7. x \in LocksIn(slots', f)
    BY <1>5, <2>2, <2>4
  <2>8. /\ x.owner = slots[a].sock /\ x.what.path = slots[a].locks[m].path
        /\ x.what.reason = slots[a].locks[m].reason
        /\ x.what.inclusive = slots[a].locks[m].inclusive
    BY <2>2, EntryFields
  <2>9. ASSUME NEW c
        PROVE  Conflict(c, x.what) <=> Conflict(c, slots[a].locks[m])
    BY <2>8 DEF Conflict
  <2>10. ~L!Blocked(x)
    BY <2>6, <2>8, <2>9, AbstractBlocked DEF BlockedAtObtain
  <2> QED
    BY <2>6, <2>7, <2>8, <2>10
<1>8. ASSUME NEW x \in LocksIn(slots', f), x \notin LocksIn(slots, f)
      PROVE  x \in G
  <2>1. PICK a \in DOMAIN slots : \E m \in DOMAIN slots[a].locks :
                Stands(slots', f, a, m) /\ x = Entry(slots, a, m)
    BY <1>5, <1>8
  <2>2. PICK m \in DOMAIN slots[a].locks : Stands(slots', f, a, m) /\ x = Entry(slots, a, m)
    BY <2>1
  <2>3. ~Stands(slots, f, a, m)
    BY <1>8, <2>2, LocksInElement
  <2>4. Stands(slots, t, a, m) /\ ~Stands(slots', t, a, m)
    BY <1>4, <2>2, <2>3
  <2> QED
    BY <1>6, <2>2, <2>4
<1>9. ASSUME NEW x \in LocksIn(slots, f)
      PROVE  x \in LocksIn(slots', f)
  <2>1. PICK a \in DOMAIN slots : \E m \in DOMAIN slots[a].locks :
                Stands(slots, f, a, m) /\ x = Entry(slots, a, m)
    BY <1>9, LocksInElement
  <2> QED
    BY <1>4, <1>5, <2>1
<1>10. ASSUME NEW x \in LocksIn(slots', t)
       PROVE  x \in LocksIn(slots, t)
  <2>1. PICK a \in DOMAIN slots : \E m \in DOMAIN slots[a].locks :
                Stands(slots', t, a, m) /\ x = Entry(slots, a, m)
    BY <1>5, <1>10
  <2> QED
    BY <1>4, <2>1, LocksInElement
<1>11. /\ LocksIn(slots', f) = LocksIn(slots, f) \cup G
       /\ LocksIn(slots', t) = LocksIn(slots, t) \ G
  BY <1>7, <1>8, <1>9, <1>10
<1>12. /\ AbstractLocks(FALSE) = LocksIn(slots, f) /\ AbstractLocks(TRUE) = LocksIn(slots, t)
       /\ AbstractLocks(FALSE)' = LocksIn(slots', f)
       /\ AbstractLocks(TRUE)' = LocksIn(slots', t)
  BY <1>3, AbstractLocksIn
<1>13. CASE G = {}
  <2>1. LocksIn(slots', f) = LocksIn(slots, f) /\ LocksIn(slots', t) = LocksIn(slots, t)
    BY <1>11, <1>13
  <2> QED
    BY <1>12, <2>1
<1>14. CASE G # {}
  <2>1. G \in SUBSET LocksIn(slots, t)
    OBVIOUS
  <2> HIDE DEF G
  <2>2. L!Grant(G)
    BY <1>7, <1>11, <1>12, <1>14, <2>1 DEF L!Grant
  <2> QED
    BY <1>12, <2>1, <2>2 DEF L!LocksNext
<1> QED
  BY <1>13, <1>14

(* The vectors, indices and events of the manager implement the abstract   *)
(* operation locks: every call maps to acquiring, granting or releasing    *)
(* locks, or to nothing.                                                   *)
THEOREM ManagerImplementsLocks == Spec => ImplementsLocks
<1> DEFINE RInv == Consistent /\ Bounded
<1>1. Init => Bounded /\ L!LocksInit
  <2> SUFFICES ASSUME Init
               PROVE  Bounded /\ L!LocksInit
    OBVIOUS
  <2>1. slots = <<>> /\ calls = 0
    BY DEF Init
  <2>2. Bounded
    BY <2>1 DEF Bounded
  <2>3. ASSUME NEW w
        PROVE  LocksIn(slots, w) = {}
    BY <2>1, LocksInElement
  <2> QED
    BY <2>2, <2>3, AbstractLocksIn DEF L!LocksInit
<1>2. RInv /\ RInv' /\ [Next]_vars => [L!LocksNext]_<<AbstractLocks(FALSE), AbstractLocks(TRUE)>>
  <2> SUFFICES ASSUME RInv, RInv', [Next]_vars
               PROVE  L!LocksNext \/ UNCHANGED <<AbstractLocks(FALSE), AbstractLocks(TRUE)>>
    OBVIOUS
  <2>1. CASE UNCHANGED slots
    BY <2>1, AbstractLocksIn
  <2>2. CASE \E s \in Sockets, r \in Reasons, p \in Paths, inc \in Inclusive :
               Lock(s, r, p, inc)
    BY <2>2, RefineLock
  <2>3. CASE \E h \in handles : Unlock(h)
    BY <2>3, RefineUnlock
  <2>4. CASE \E s \in Sockets : OnObtainLock(s)
    BY <2>4, RefineObtain
  <2> QED
    BY <2>1, <2>2, <2>3, <2>4 DEF Next, vars, RemoveHandler, Destroyed
<1>3. RInv /\ [Next]_vars => Bounded'
  BY BoundedNext
<1> QED
  BY <1>1, <1>2, <1>3, ConsistentAlways, PTL DEF Spec, ImplementsLocks, L!LocksSpec

=============================================================================
