------------------------ MODULE TransferQueueProofs ------------------------
(***************************************************************************)
(* Proofs about TransferQueue: the counts that limit the transfers agree   *)
(* with the engines, the files and the lists.                              *)
(*                                                                         *)
(* Book is what the handlers keep of a world: its type; the list of the    *)
(* engines, in which the queue's own are 1, 2, ... without gaps (ListOK);  *)
(* the record of every engine, which fits its state (DataOK); engines and  *)
(* active files, one to one (ItemsOK); files that are queued and the lists *)
(* of their sites (ListsOK); the counts, as the numbers of engines that    *)
(* are active or have a file of a kind (CountsOK); and the files that      *)
(* engines were given commands for (ToOK).  It holds in the middle of a    *)
(* handler too, so every operator of the model has a lemma that it keeps   *)
(* it, and every action one that puts them together.  The recursive        *)
(* functions (Chosen, BestMatch, Deactivate, ServersLoaded) are first      *)
(* shown to be what their recursion says, by induction on the natural      *)
(* numbers.  BookInv says in addition that the engine that is about to be  *)
(* sent a command has a file.                                              *)
(***************************************************************************)
EXTENDS TransferQueue, FiniteSetTheorems, SequenceTheorems, WellFoundedInduction, TLAPS

Commands == {"none", "connect", "disconnect", "transfer", "mkdir", "list", "browse"}
States == {"none", "waitprimary", "connect", "disconnect", "transfer", "mkdir", "list"}
Codes == {"ok", "error", "critical", "writefailed", "disconnected", "canceled"}
Places == {"out", "queue", "failed", "done", "gone"}
Files == Items \cup {NoItem}
Servers == Sites \cup {NoSite}
Aims == Files \cup Sites

Replies == [cmd : Commands, to : Aims, code : Codes, progress : BOOLEAN]
DataRec == [active : BOOLEAN, state : States, item : Files, site : Servers, timer : BOOLEAN]
QueueRec == [mode : 0 .. 2, now : [Sites -> Seq(Items)], later : [Sites -> Seq(Items)],
             servers : Seq(Sites), busy : [Sites -> Int], count : Int, down : Int, up : Int,
             inside : BOOLEAN, sending : Engines \cup {NoEngine}, engines : Seq(Engines),
             data : [Engines -> DataRec], refreshed : BOOLEAN, refused : BOOLEAN]
ItemRec == [where : Places, active : BOOLEAN, errors : Nat, remove : BOOLEAN, sent : Nat]
TabRec == [site : Servers, cmd : {"none", "browse", "connect", "disconnect"}, lock : BOOLEAN,
           wants : BOOLEAN, id : Nat, grants : Seq(Nat), listing : BOOLEAN]
NetRec == [cmd : Commands, to : Aims, server : Servers, cancel : BOOLEAN, late : BOOLEAN,
           inbox : Seq(Replies)]
Worlds == [q : QueueRec, item : [Items -> ItemRec], tab : TabRec, net : [Engines -> NetRec]]

LEMMA WorldParts ==
    ASSUME NEW w \in Worlds
    PROVE  /\ w.q \in QueueRec /\ w.item \in [Items -> ItemRec]
           /\ w.tab \in TabRec /\ w.net \in [Engines -> NetRec]
           /\ w.q.data \in [Engines -> DataRec] /\ w.q.engines \in Seq(Engines)
           /\ w.q.now \in [Sites -> Seq(Items)] /\ w.q.later \in [Sites -> Seq(Items)]
BY DEF Worlds, QueueRec

LEMMA WorldOf ==
    ASSUME NEW w \in Worlds, NEW c \in QueueRec
    PROVE  /\ [w EXCEPT !.q = c] \in Worlds
           /\ [w EXCEPT !.q = c].q = c
           /\ [w EXCEPT !.q = c].item = w.item
           /\ [w EXCEPT !.q = c].tab = w.tab
           /\ [w EXCEPT !.q = c].net = w.net
BY DEF Worlds

LEMMA DataSet ==
    ASSUME NEW w \in Worlds, NEW id \in Engines, NEW d \in DataRec
    PROVE  LET u == WithData(w, id, d)
           IN  /\ u \in Worlds
               /\ u.q = [w.q EXCEPT !.data = [w.q.data EXCEPT ![id] = d]]
               /\ u.item = w.item /\ u.tab = w.tab /\ u.net = w.net
<1> DEFINE c == [w.q EXCEPT !.data = [w.q.data EXCEPT ![id] = d]]
<1>1. c \in QueueRec
  BY DEF Worlds, QueueRec
<1>2. WithData(w, id, d) = [w EXCEPT !.q = c]
  BY DEF WithData, Worlds
<1> QED
  BY <1>1, <1>2, WorldOf

LEMMA NetSet ==
    ASSUME NEW w \in Worlds, NEW id \in Engines, NEW n \in NetRec
    PROVE  LET u == WithNet(w, id, n)
           IN  /\ u \in Worlds
               /\ u.net = [w.net EXCEPT ![id] = n]
               /\ u.item = w.item /\ u.tab = w.tab /\ u.q = w.q
BY DEF WithNet, Worlds
LEMMA ListsSet ==
    ASSUME NEW w \in Worlds, NEW now \in [Sites -> Seq(Items)], NEW later \in [Sites -> Seq(Items)]
    PROVE  LET u == WithLists(w, now, later)
           IN  /\ u \in Worlds
               /\ u.q = [w.q EXCEPT !.now = now, !.later = later]
               /\ u.item = w.item /\ u.tab = w.tab /\ u.net = w.net
<1> DEFINE c == [w.q EXCEPT !.now = now, !.later = later]
<1>1. c \in QueueRec
  BY DEF Worlds, QueueRec
<1>2. WithLists(w, now, later) = [w EXCEPT !.q = c]
  BY DEF WithLists, Worlds
<1> QED
  BY <1>1, <1>2, WorldOf

LEMMA ItemSet ==
    ASSUME NEW w \in Worlds, NEW i \in Items, NEW active \in BOOLEAN
    PROVE  LET u == SetActiveItem(w, i, active)
           IN  /\ u \in Worlds
               /\ u.item = [w.item EXCEPT ![i] = [w.item[i] EXCEPT !.active = active]]
               /\ u.q = w.q /\ u.tab = w.tab /\ u.net = w.net
BY DEF SetActiveItem, Worlds, ItemRec

LEMMA EngineAdded ==
    ASSUME NEW w \in Worlds, NEW id \in Engines, NEW state \in States
    PROVE  LET u == AddEngine(w, id, state)
           IN  /\ u \in Worlds
               /\ u.q = [w.q EXCEPT !.data = [w.q.data EXCEPT ![id] = NewData(state)],
                                    !.engines = Append(w.q.engines, id)]
               /\ u.item = w.item /\ u.tab = w.tab /\ u.net = w.net
<1> DEFINE v == WithData(w, id, NewData(state))
           c == [v.q EXCEPT !.engines = Append(v.q.engines, id)]
<1>1. NewData(state) \in DataRec
  BY DEF NewData, DataRec, Files, Servers
<1>2. v \in Worlds /\ v.item = w.item /\ v.tab = w.tab /\ v.net = w.net
      /\ v.q = [w.q EXCEPT !.data = [w.q.data EXCEPT ![id] = NewData(state)]]
  BY <1>1, DataSet
<1>3. v.q.engines = w.q.engines
  BY <1>2 DEF Worlds, QueueRec
<1> HIDE DEF v
<1>4. c \in QueueRec
  <2>1. Append(v.q.engines, id) \in Seq(Engines) /\ v.q \in QueueRec
    BY <1>2, <1>3, WorldParts
  <2> QED
    BY <2>1 DEF QueueRec
<1>5. AddEngine(w, id, state) = [v EXCEPT !.q = c]
  BY <1>2 DEF AddEngine, Worlds, v
<1>6. c = [w.q EXCEPT !.data = [w.q.data EXCEPT ![id] = NewData(state)],
                      !.engines = Append(w.q.engines, id)]
  BY <1>2, <1>3
<1> QED
  BY <1>2, <1>4, <1>5, <1>6, WorldOf

LEMMA ExecuteSet ==
    ASSUME NEW w \in Worlds, NEW id \in Engines, NEW cmd \in Commands, NEW to \in Aims
    PROVE  LET u == Execute(w, id, cmd, to)
               n == [w.net[id] EXCEPT !.cmd = cmd, !.to = to, !.cancel = FALSE,
                                      !.late = w.net[id].cancel]
           IN  /\ u \in Worlds
               /\ n \in NetRec
               /\ u.net = [w.net EXCEPT ![id] = n]
               /\ u.item = w.item /\ u.tab = w.tab /\ u.q = w.q
<1> DEFINE n == [w.net[id] EXCEPT !.cmd = cmd, !.to = to, !.cancel = FALSE,
                                  !.late = w.net[id].cancel]
<1>1. n \in NetRec
  BY DEF Worlds, NetRec
<1> QED
  BY <1>1, NetSet DEF Execute

LEMMA CancelSet ==
    ASSUME NEW w \in Worlds, NEW id \in Engines
    PROVE  LET u == CancelEngine(w, id)
           IN  /\ u \in Worlds
               /\ u.net = IF w.net[id].cmd = "none" THEN w.net
                          ELSE [w.net EXCEPT ![id] = [w.net[id] EXCEPT !.cancel = TRUE]]
               /\ u.item = w.item /\ u.tab = w.tab /\ u.q = w.q
<1>1. [w.net[id] EXCEPT !.cancel = TRUE] \in NetRec
  BY DEF Worlds, NetRec
<1> QED
  BY <1>1, NetSet DEF CancelEngine

LEMMA TabSet ==
    ASSUME NEW w \in Worlds, NEW t \in TabRec
    PROVE  LET u == [w EXCEPT !.tab = t]
           IN u \in Worlds /\ u.tab = t /\ u.q = w.q /\ u.item = w.item /\ u.net = w.net
BY DEF Worlds

LEMMA ReleaseSet ==
    ASSUME NEW w \in Worlds
    PROVE  LET u == ReleaseEngine(w)
           IN  /\ u \in Worlds
               /\ u.tab = IF ~w.tab.wants THEN w.tab
                          ELSE [w.tab EXCEPT !.wants = FALSE, !.lock = FALSE]
               /\ u.item = w.item /\ u.net = w.net /\ u.q = w.q
<1>1. [w.tab EXCEPT !.wants = FALSE, !.lock = FALSE] \in TabRec
  BY DEF Worlds, TabRec
<1> QED
  BY <1>1, TabSet DEF ReleaseEngine

LEMMA GrantSet ==
    ASSUME NEW w \in Worlds
    PROVE  LET u == GrantExclusiveEngineRequest(w)
               id == w.tab.id + 1
           IN  /\ u \in Worlds
               /\ u.tab = [w.tab EXCEPT !.lock = TRUE, !.id = id, !.grants = Append(w.tab.grants, id)]
               /\ u.item = w.item /\ u.net = w.net /\ u.q = w.q
<1> DEFINE id == w.tab.id + 1
<1>1. [w.tab EXCEPT !.lock = TRUE, !.id = id, !.grants = Append(w.tab.grants, id)] \in TabRec
  <2>1. w.tab \in TabRec /\ id \in Nat
    BY DEF Worlds, TabRec
  <2>2. Append(w.tab.grants, id) \in Seq(Nat)
    BY <2>1 DEF TabRec
  <2> HIDE DEF id
  <2> QED
    BY <2>1, <2>2 DEF TabRec
<1> QED
  BY <1>1, TabSet DEF GrantExclusiveEngineRequest

LEMMA RequestSet ==
    ASSUME NEW w \in Worlds
    PROVE  LET u == RequestExclusiveEngine(w)
           IN  /\ u \in Worlds
               /\ u.item = w.item /\ u.net = w.net /\ u.q = w.q
               /\ u.tab.wants /\ u.tab.site = w.tab.site /\ u.tab.cmd = w.tab.cmd
               /\ u.tab.lock = (w.tab.lock \/ (~w.tab.wants /\ w.tab.cmd = "none"))
               /\ u.tab.listing = w.tab.listing
<1> DEFINE t == [w.tab EXCEPT !.wants = TRUE]
           u == [w EXCEPT !.tab = t]
<1>1. t \in TabRec
  BY DEF Worlds, TabRec
<1>2. u \in Worlds /\ u.tab = t /\ u.q = w.q /\ u.item = w.item /\ u.net = w.net
  BY <1>1, TabSet
<1>3. u = [w EXCEPT !.tab.wants = TRUE]
  BY DEF Worlds
<1> HIDE DEF u
<1>4. w.tab.lock \in BOOLEAN /\ w.tab.wants \in BOOLEAN
  BY DEF Worlds, TabRec
<1>5. t.wants /\ t.site = w.tab.site /\ t.cmd = w.tab.cmd /\ t.lock = w.tab.lock
      /\ t.listing = w.tab.listing
  BY DEF Worlds, TabRec
<1>6. CASE w.tab.wants
  BY <1>6, <1>4 DEF RequestExclusiveEngine
<1>7. CASE ~w.tab.wants /\ (w.tab.lock \/ w.tab.cmd # "none")
  BY <1>7, <1>2, <1>3, <1>4, <1>5 DEF RequestExclusiveEngine
<1>8. CASE ~w.tab.wants /\ ~w.tab.lock /\ w.tab.cmd = "none"
  <2>1. RequestExclusiveEngine(w) = GrantExclusiveEngineRequest(u)
    BY <1>8, <1>3 DEF RequestExclusiveEngine
  <2> DEFINE g == GrantExclusiveEngineRequest(u)
  <2>2. g \in Worlds /\ g.item = u.item /\ g.net = u.net /\ g.q = u.q
        /\ g.tab = [u.tab EXCEPT !.lock = TRUE, !.id = u.tab.id + 1,
                                 !.grants = Append(u.tab.grants, u.tab.id + 1)]
    BY <1>2, GrantSet
  <2>3. g.tab.wants = t.wants /\ g.tab.site = t.site /\ g.tab.cmd = t.cmd /\ g.tab.lock
        /\ g.tab.listing = t.listing
    BY <1>1, <1>2, <2>2 DEF TabRec
  <2> QED
    BY <2>1, <1>2, <1>5, <1>8, <2>2, <2>3
<1> QED
  BY <1>6, <1>7, <1>8
-----------------------------------------------------------------------------
(* Sequences, and the loops of the model.                                  *)
LEMMA LeastOf ==
    ASSUME NEW T, T \subseteq Nat, T # {}
    PROVE  \E x \in T : \A y \in T : x =< y
<1> DEFINE R == {ss \in Nat \X Nat : ss[1] < ss[2]}
<1>1. IsWellFoundedOn(R, Nat)
  BY NatLessThanWellFounded DEF OpToRel
<1>2. PICK x \in T : \A y \in T : ~ (<<y, x>> \in R)
  <2> HIDE DEF R
  <2> QED
    BY <1>1, WFMin
<1>3. ASSUME NEW y \in T
      PROVE  x =< y
  <2>1. <<y, x>> \in Nat \X Nat /\ <<y, x>>[1] = y /\ <<y, x>>[2] = x
    OBVIOUS
  <2> QED
    BY <1>2, <2>1
<1> QED
  BY <1>3

LEMMA MinOf ==
    ASSUME NEW T, T \subseteq Nat, T # {}
    PROVE  Min(T) \in T /\ \A y \in T : Min(T) =< y
BY LeastOf DEF Min

(* Induction over the rounds of a loop.                                    *)
LEMMA Rounds ==
    ASSUME NEW n \in Nat, NEW T \in SUBSET (0 .. n), 0 \in T,
           \A k \in 1 .. n : k - 1 \in T => k \in T
    PROVE  T = 0 .. n
<1>1. SUFFICES ASSUME (0 .. n) \ T # {} PROVE FALSE
  OBVIOUS
<1>2. PICK k \in (0 .. n) \ T : \A y \in (0 .. n) \ T : k =< y
  <2>1. (0 .. n) \ T \subseteq Nat
    OBVIOUS
  <2> QED
    BY <1>1, <2>1, LeastOf
<1>3. k \in 1 .. n /\ k - 1 \in 0 .. n
  BY <1>2
<1>4. k - 1 \in T
  BY <1>2, <1>3
<1> QED
  BY <1>2, <1>3, <1>4

(* f[k] is the result of k rounds of a loop.                               *)
IsLoop(f, n, base, F) == f[0] = base /\ \A k \in 1 .. n : f[k] = F[f[k - 1]][k]

(* A loop of n rounds has a result.                                        *)
LEMMA LoopExists ==
    ASSUME NEW n \in Nat, NEW W, NEW base \in W, NEW F \in [W -> [1 .. n -> W]]
    PROVE  \E f \in [0 .. n -> W] : IsLoop(f, n, base, F)
<1> DEFINE Good(f, m) == f[0] = base /\ \A k \in 1 .. m : f[k] = F[f[k - 1]][k]
           Has(m) == \E f \in [0 .. m -> W] : Good(f, m)
           T == {m \in 0 .. n : Has(m)}
<1>1. Has(0)
  <2> DEFINE g == [k \in 0 .. 0 |-> base]
  <2>1. g \in [0 .. 0 -> W] /\ Good(g, 0)
    OBVIOUS
  <2> HIDE DEF g, Good
  <2> QED
    BY <2>1
<1>2. ASSUME NEW m \in 1 .. n, Has(m - 1) PROVE Has(m)
  <2>1. PICK f \in [0 .. m - 1 -> W] : Good(f, m - 1)
    BY <1>2
  <2>2. m \in Nat /\ m - 1 \in 0 .. m - 1 /\ f[m - 1] \in W
    BY <2>1
  <2>3. F[f[m - 1]][m] \in W
    BY <2>2
  <2> DEFINE g == [k \in 0 .. m |-> IF k = m THEN F[f[m - 1]][m] ELSE f[k]]
  <2>4. g \in [0 .. m -> W]
    BY <2>1, <2>2, <2>3
  <2>5. ASSUME NEW k \in 1 .. m PROVE g[k] = F[g[k - 1]][k]
    <3>1. k - 1 \in 0 .. m /\ k - 1 # m /\ g[k - 1] = f[k - 1] /\ k \in 0 .. m
      BY <2>2
    <3>2. CASE k = m
      BY <3>1, <3>2
    <3>3. CASE k # m
      <4>1. k \in 1 .. m - 1 /\ g[k] = f[k]
        BY <2>2, <3>1, <3>3
      <4> HIDE DEF g
      <4> QED
        BY <2>1, <3>1, <4>1
    <3> QED
      BY <3>2, <3>3
  <2>6. g[0] = base
    BY <2>1, <2>2
  <2> HIDE DEF g
  <2>7. Good(g, m)
    BY <2>5, <2>6
  <2> HIDE DEF Good
  <2> QED
    BY <2>4, <2>7
<1> HIDE DEF Has
<1>3. T = 0 .. n
  <2>1. T \in SUBSET (0 .. n) /\ 0 \in T
    BY <1>1
  <2>2. \A m \in 1 .. n : m - 1 \in T => m \in T
    BY <1>2
  <2> HIDE DEF T
  <2> QED
    BY <2>1, <2>2, Rounds
<1>4. Has(n)
  BY <1>3
<1> QED
  BY <1>4 DEF Has, IsLoop

(* There is no more than one.                                              *)
Agree(f, g, n) == \A k \in 1 .. n : f[k - 1] = g[k - 1] => f[k] = g[k]

LEMMA LoopUnique ==
    ASSUME NEW n \in Nat, NEW f, NEW g, f = [k \in 0 .. n |-> f[k]], g = [k \in 0 .. n |-> g[k]],
           f[0] = g[0], Agree(f, g, n)
    PROVE  f = g
<1> DEFINE T == {k \in 0 .. n : f[k] = g[k]}
<1>1. T \in SUBSET (0 .. n) /\ 0 \in T
  OBVIOUS
<1>2. ASSUME NEW k \in 1 .. n, k - 1 \in T PROVE k \in T
  <2>1. k \in 0 .. n
    OBVIOUS
  <2>2. f[k - 1] = g[k - 1]
    BY <1>2
  <2>3. f[k] = g[k]
    BY <2>2 DEF Agree
  <2> QED
    BY <2>1, <2>3
<1>3. T = 0 .. n
  <2> HIDE DEF T
  <2> QED
    BY <1>1, <1>2, Rounds
<1>4. \A k \in 0 .. n : f[k] = g[k]
  BY <1>3
<1> QED
  BY <1>4

(* What Chosen does, round by round.                                       *)
Picks(f, seq, S) ==
    /\ f[0] = <<>>
    /\ \A k \in 1 .. Len(seq) : f[k] = IF seq[k] \in S THEN Append(f[k - 1], seq[k]) ELSE f[k - 1]

LEMMA ChosenLoop ==
    ASSUME NEW A, NEW seq \in Seq(A), NEW S
    PROVE  \E f \in [0 .. Len(seq) -> Seq(A)] : Picks(f, seq, S) /\ Chosen(seq, S) = f[Len(seq)]
<1> DEFINE Step(x, k) == IF seq[k] \in S THEN Append(x, seq[k]) ELSE x
<1>0. PICK n, W, base : n = Len(seq) /\ W = Seq(A) /\ base = <<>>
  OBVIOUS
<1> DEFINE Eq(f) == f = [k \in 0 .. n |-> IF k = 0 THEN base ELSE Step(f[k - 1], k)]
<1>1. n \in Nat /\ base \in W
  BY <1>0
<1>2. \A x \in W, k \in 1 .. n : Step(x, k) \in W
  BY <1>0
<1>3. Chosen(seq, S) = (CHOOSE x : Eq(x))[n]
  BY <1>0 DEF Chosen
<1> HIDE DEF Step
<1>4. PICK F : F = [x \in W |-> [k \in 1 .. n |-> Step(x, k)]]
  OBVIOUS
<1>5. PICK f \in [0 .. n -> W] : f[0] = base /\ \A k \in 1 .. n : f[k] = F[f[k - 1]][k]
  <2>1. F \in [W -> [1 .. n -> W]]
    BY <1>2, <1>4
  <2>2. PICK f \in [0 .. n -> W] : IsLoop(f, n, base, F)
    BY <1>1, <2>1, LoopExists
  <2> QED
    BY <2>2 DEF IsLoop
<1>6. ASSUME NEW k \in 1 .. n PROVE f[k] = Step(f[k - 1], k)
  <2>1. f[k - 1] \in W
    BY <1>1, <1>5
  <2> QED
    BY <1>4, <1>5, <2>1
<1>7. Eq(f)
  <2>1. \A k \in 0 .. n : f[k] = IF k = 0 THEN base ELSE Step(f[k - 1], k)
    BY <1>1, <1>5, <1>6
  <2> QED
    BY <1>5, <2>1
<1>8. ASSUME NEW x, Eq(x) PROVE x = f
  <2>1. x[0] = base /\ x = [k \in 0 .. n |-> x[k]] /\ f = [k \in 0 .. n |-> f[k]]
    BY <1>8, <1>1, <1>5
  <2>2. \A k \in 1 .. n : x[k] = Step(x[k - 1], k)
    BY <1>8, <1>1
  <2>3. Agree(x, f, n)
    BY <2>2, <1>6 DEF Agree
  <2> HIDE DEF Eq
  <2> QED
    BY <2>1, <2>3, <1>1, <1>5, LoopUnique
<1>9. (CHOOSE x : Eq(x)) = f
  <2> HIDE DEF Eq
  <2> QED
    BY <1>7, <1>8
<1>10. Picks(f, seq, S)
  BY <1>0, <1>5, <1>6 DEF Step, Picks
<1> QED
  BY <1>0, <1>3, <1>5, <1>9, <1>10
LEMMA AppendHas ==
    ASSUME NEW A, NEW s \in Seq(A), NEW a \in A, NEW x
    PROVE  Contains(Append(s, a), x) <=> Contains(s, x) \/ a = x
<1> DEFINE n == Len(s)
           t == Append(s, a)
<1>1. n \in Nat /\ Len(t) = n + 1 /\ t[n + 1] = a /\ \A k \in 1 .. n : t[k] = s[k]
  OBVIOUS
<1> HIDE DEF t
<1>2. (\E k \in 1 .. n + 1 : t[k] = x) <=> (\E k \in 1 .. n : s[k] = x) \/ a = x
  <2>1. 1 .. n + 1 = (1 .. n) \cup {n + 1}
    BY <1>1
  <2> QED
    BY <1>1, <2>1
<1> QED
  BY <1>1, <1>2 DEF Contains, t

LEMMA ConcatHas ==
    ASSUME NEW A, NEW s \in Seq(A), NEW t \in Seq(A), NEW x
    PROVE  Contains(s \o t, x) <=> Contains(s, x) \/ Contains(t, x)
<1> DEFINE m == Len(s)
           n == Len(t)
           c == s \o t
<1>1. m \in Nat /\ n \in Nat /\ Len(c) = m + n
      /\ (\A k \in 1 .. m : c[k] = s[k]) /\ (\A k \in 1 .. n : c[m + k] = t[k])
  OBVIOUS
<1> HIDE DEF c, m, n
<1>2. ASSUME NEW k \in 1 .. m + n, c[k] = x
      PROVE  (\E l \in 1 .. m : s[l] = x) \/ \E l \in 1 .. n : t[l] = x
  <2>1. CASE k =< m
    BY <1>1, <1>2, <2>1
  <2>2. CASE k > m
    <3>1. k - m \in 1 .. n /\ m + (k - m) = k
      BY <1>1, <2>2
    <3> QED
      BY <1>1, <1>2, <3>1
  <2> QED
    BY <1>1, <2>1, <2>2
<1>3. ASSUME NEW k \in 1 .. m, s[k] = x
      PROVE  \E l \in 1 .. m + n : c[l] = x
  BY <1>1, <1>3
<1>4. ASSUME NEW k \in 1 .. n, t[k] = x
      PROVE  \E l \in 1 .. m + n : c[l] = x
  <2>1. m + k \in 1 .. m + n
    BY <1>1
  <2> QED
    BY <1>1, <1>4, <2>1
<1> QED
  BY <1>1, <1>2, <1>3, <1>4 DEF Contains, c, m, n

LEMMA ChosenType ==
    ASSUME NEW A, NEW seq \in Seq(A), NEW S
    PROVE  Chosen(seq, S) \in Seq(A)
BY ChosenLoop

LEMMA ChosenHas ==
    ASSUME NEW A, NEW seq \in Seq(A), NEW S, NEW x
    PROVE  Contains(Chosen(seq, S), x) <=> Contains(seq, x) /\ x \in S
<1> DEFINE n == Len(seq)
<1>1. PICK f \in [0 .. n -> Seq(A)] : Picks(f, seq, S) /\ Chosen(seq, S) = f[n]
  BY ChosenLoop
<1> DEFINE T == {k \in 0 .. n : Contains(f[k], x) <=> (\E l \in 1 .. k : seq[l] = x) /\ x \in S}
<1>2. 0 \in T
  BY <1>1 DEF Contains, Picks
<1>3. ASSUME NEW k \in 1 .. n, k - 1 \in T PROVE k \in T
  <2>1. k - 1 \in 0 .. n /\ f[k - 1] \in Seq(A) /\ seq[k] \in A
    BY <1>1
  <2>2. f[k] = IF seq[k] \in S THEN Append(f[k - 1], seq[k]) ELSE f[k - 1]
    BY <1>1 DEF Picks
  <2>3. (\E l \in 1 .. k : seq[l] = x) <=> (\E l \in 1 .. k - 1 : seq[l] = x) \/ seq[k] = x
    OBVIOUS
  <2>4. Contains(f[k - 1], x) <=> (\E l \in 1 .. k - 1 : seq[l] = x) /\ x \in S
    BY <1>3
  <2>5. CASE seq[k] \in S
    <3>1. f[k] = Append(f[k - 1], seq[k])
      BY <2>2, <2>5
    <3>2. Contains(f[k], x) <=> Contains(f[k - 1], x) \/ seq[k] = x
      BY <2>1, <3>1, AppendHas
    <3> QED
      BY <2>3, <2>4, <2>5, <3>2
  <2>6. CASE seq[k] \notin S
    BY <2>2, <2>3, <2>4, <2>6
  <2> QED
    BY <2>5, <2>6
<1>4. T = 0 .. n
  <2>1. T \in SUBSET (0 .. n) /\ n \in Nat
    OBVIOUS
  <2> HIDE DEF T, n
  <2> QED
    BY <1>2, <1>3, <2>1, Rounds
<1>5. n \in T
  BY <1>4
<1> QED
  BY <1>1, <1>5 DEF Contains

LEMMA WithoutHas ==
    ASSUME NEW A, NEW seq \in Seq(A), NEW x
    PROVE  /\ Without(seq, x) \in Seq(A)
           /\ \A y : Contains(Without(seq, x), y) <=> Contains(seq, y) /\ y # x
<1>1. Without(seq, x) \in Seq(A)
  BY ChosenType DEF Without
<1>2. ASSUME NEW y
      PROVE  Contains(Without(seq, x), y) <=> Contains(seq, y) /\ y # x
  <2>1. Contains(seq, y) => y \in ToSet(seq)
    BY DEF Contains, ToSet
  <2> QED
    BY <2>1, ChosenHas DEF Without
<1> QED
  BY <1>1, <1>2

(* What is behind the element that is taken out moves up.                  *)
LEMMA WithoutMoves ==
    ASSUME NEW A, NEW seq \in Seq(A), NEW p \in 1 .. Len(seq),
           \A k, l \in 1 .. Len(seq) : seq[k] = seq[l] => k = l
    PROVE  LET rest == Without(seq, seq[p])
           IN  /\ Len(rest) = Len(seq) - 1
               /\ \A k \in 1 .. Len(seq) - 1 : rest[k] = IF k < p THEN seq[k] ELSE seq[k + 1]
<1> DEFINE n == Len(seq)
           S == ToSet(seq) \ {seq[p]}
           Size(k) == IF k < p THEN k ELSE k - 1
           Like(s) == \A l \in 1 .. Len(s) : s[l] = IF l < p THEN seq[l] ELSE seq[l + 1]
<1>1. PICK f \in [0 .. n -> Seq(A)] : Picks(f, seq, S) /\ Without(seq, seq[p]) = f[n]
  BY ChosenLoop DEF Without
<1> DEFINE T == {k \in 0 .. n : Len(f[k]) = Size(k) /\ Like(f[k])}
<1>2. 0 \in T
  BY <1>1 DEF Picks
<1>3. ASSUME NEW k \in 1 .. n, k - 1 \in T PROVE k \in T
  <2>1. k - 1 \in 0 .. n /\ f[k - 1] \in Seq(A) /\ seq[k] \in A
    <3> HIDE DEF T, S, Size, Like
    <3> QED
      BY <1>1, SMTT(40)
  <2>2. f[k] = IF k # p THEN Append(f[k - 1], seq[k]) ELSE f[k - 1]
    BY <1>1 DEF Picks, ToSet
  <2>3. Len(f[k - 1]) = Size(k - 1) /\ Like(f[k - 1])
    BY <1>3
  <2>4. CASE k = p
    BY <2>2, <2>3, <2>4
  <2>5. CASE k # p
    <3>1. PICK s \in Seq(A) : s = f[k - 1]
      BY <2>1
    <3>2. PICK a \in A : a = seq[k]
      BY <2>1
    <3>3. PICK m \in Nat : m = Len(s)
      BY <3>1
    <3>4. Len(Append(s, a)) = m + 1 /\ Append(s, a)[m + 1] = a
          /\ \A l \in 1 .. m : Append(s, a)[l] = s[l]
      BY <3>3
    <3>5. m + 1 = Size(k)
      BY <2>3, <2>5, <3>1, <3>3
    <3>6. a = IF m + 1 < p THEN seq[m + 1] ELSE seq[m + 1 + 1]
      BY <2>5, <3>2, <3>5
    <3>7. \A l \in 1 .. m : s[l] = IF l < p THEN seq[l] ELSE seq[l + 1]
      BY <2>3, <3>1, <3>3
    <3>8. PICK t \in Seq(A) : t = Append(s, a)
      <4>1. Append(s, a) \in Seq(A)
        BY <3>1, <3>2, AppendProperties
      <4> QED
        BY <4>1
    <3>9. Len(t) = m + 1 /\ Like(t)
      BY <3>4, <3>6, <3>7, <3>8
    <3>10. f[k] = t /\ k \in 0 .. n
      BY <2>2, <2>5, <3>1, <3>2, <3>8
    <3> QED
      BY <3>5, <3>9, <3>10
  <2> QED
    BY <2>4, <2>5
<1>4. T = 0 .. n
  <2>1. T \in SUBSET (0 .. n) /\ n \in Nat
    OBVIOUS
  <2> HIDE DEF T, n
  <2> QED
    BY <1>2, <1>3, <2>1, Rounds
<1>5. n \in T
  <2>1. n \in 0 .. n
    OBVIOUS
  <2> HIDE DEF T
  <2> QED
    BY <1>4, <2>1
<1>6. Len(f[n]) = n - 1 /\ Like(f[n])
  BY <1>5
<1> QED
  BY <1>1, <1>6

-----------------------------------------------------------------------------
(* The book of the queue: the list of engines, their records, the files    *)
(* they have, the lists of the sites and the counts.                       *)
Own == Engines \ {TabEngine}

NumOwn(w) == Len(w.q.engines) - (IF HasData(w, TabEngine) THEN 1 ELSE 0)

Distinct(seq) == \A k, l \in 1 .. Len(seq) : seq[k] = seq[l] => k = l

(* The engines of the queue itself are numbered in the order of creation.  *)
ListOK(w) ==
    /\ Distinct(w.q.engines)
    /\ \A id \in Own : HasData(w, id) <=> id =< NumOwn(w)

GoodData(id, d) ==
    /\ ~d.active => d.item = NoItem /\ d.state \in {"none", "waitprimary"}
    /\ d.active => d.state # "none"
    /\ d.active => (d.item = NoItem <=> d.state = "list")
    /\ d.state = "waitprimary" => id = TabEngine /\ (d.active \/ d.site = NoSite)
    /\ d.state = "list" => id # TabEngine
    /\ d.state \in {"transfer", "mkdir"} => d.state = Work(d.item)
    /\ d.timer => id # TabEngine

DataOK(w) ==
    \A id \in Engines :
        /\ GoodData(id, w.q.data[id])
        /\ ~HasData(w, id) => w.q.data[id] = NewData("none")

ItemsOK(w) ==
    /\ \A id \in Engines :
         LET d == w.q.data[id]
         IN  d.item # NoItem => /\ d.site = SiteOf[d.item]
                                /\ w.item[d.item].active /\ w.item[d.item].where = "queue"
    /\ \A a, b \in Engines :
         w.q.data[a].item # NoItem /\ w.q.data[a].item = w.q.data[b].item => a = b
    /\ \A i \in Items : w.item[i].active => \E id \in Engines : w.q.data[id].item = i

Listed(w, s, i) == Contains(Children(w, s), i)

ListsOK(w) ==
    /\ \A i \in Items : w.item[i].where = "queue" <=> Listed(w, SiteOf[i], i)
    /\ \A s \in Sites, i \in Items : Listed(w, s, i) => SiteOf[i] = s

Busy(data) == {id \in Engines : data[id].active}
Having(data, I) == {id \in Engines : data[id].item \in I}

Downloads == {i \in Items : Download(i)}
Uploads == {i \in Items : ~Download(i)}
FilesOf(s) == {i \in Items : SiteOf[i] = s}

CountsOK(w) ==
    /\ w.q.count = Cardinality(Busy(w.q.data))
    /\ w.q.down = Cardinality(Having(w.q.data, Downloads))
    /\ w.q.up = Cardinality(Having(w.q.data, Uploads))
    /\ \A s \in Sites : w.q.busy[s] = Cardinality(Having(w.q.data, FilesOf(s)))

(* Engines are given files to connect for and to transfer.                 *)
ToOK(w) ==
    \A id \in Engines :
        w.net[id].cmd \in {"transfer", "mkdir"} \/ (w.net[id].cmd = "connect" /\ id # TabEngine)
            => w.net[id].to \in Items

Book(w) ==
    w \in Worlds /\ ListOK(w) /\ DataOK(w) /\ ItemsOK(w) /\ ListsOK(w) /\ CountsOK(w) /\ ToOK(w)

(* What operators of the model leave alone.                                *)
SameEngines(w, u) == u.q.engines = w.q.engines /\ u.q.data = w.q.data
SameCounts(w, u) ==
    u.q.busy = w.q.busy /\ u.q.count = w.q.count /\ u.q.down = w.q.down /\ u.q.up = w.q.up
SameLists(w, u) == u.q.now = w.q.now /\ u.q.later = w.q.later
SameMode(w, u) ==
    u.q.mode = w.q.mode /\ u.q.inside = w.q.inside /\ u.q.sending = w.q.sending
    /\ u.q.refused = w.q.refused

LEMMA BookParts ==
    ASSUME NEW w, Book(w)
    PROVE  w \in Worlds /\ ListOK(w) /\ DataOK(w) /\ ItemsOK(w) /\ ListsOK(w) /\ CountsOK(w) /\ ToOK(w)
BY DEF Book

LEMMA DataType ==
    ASSUME NEW w \in Worlds, NEW id \in Engines
    PROVE  LET d == w.q.data[id]
           IN  /\ d \in DataRec /\ d.active \in BOOLEAN /\ d.state \in States /\ d.item \in Files
               /\ d.site \in Servers /\ d.timer \in BOOLEAN
BY WorldParts DEF DataRec

LEMMA NetType ==
    ASSUME NEW w \in Worlds, NEW id \in Engines
    PROVE  LET n == w.net[id]
           IN  /\ n \in NetRec /\ n.cmd \in Commands /\ n.to \in Aims /\ n.server \in Servers
               /\ n.cancel \in BOOLEAN /\ n.late \in BOOLEAN /\ n.inbox \in Seq(Replies)
BY WorldParts DEF NetRec

LEMMA ItemType ==
    ASSUME NEW w \in Worlds, NEW i \in Items
    PROVE  LET j == w.item[i]
           IN  /\ j \in ItemRec /\ j.where \in Places /\ j.active \in BOOLEAN /\ j.errors \in Nat
               /\ j.remove \in BOOLEAN /\ j.sent \in Nat
BY WorldParts DEF ItemRec

LEMMA TabType ==
    ASSUME NEW w \in Worlds
    PROVE  /\ w.tab.site \in Servers /\ w.tab.cmd \in {"none", "browse", "connect", "disconnect"}
           /\ w.tab.lock \in BOOLEAN /\ w.tab.wants \in BOOLEAN /\ w.tab.id \in Nat
           /\ w.tab.grants \in Seq(Nat) /\ w.tab.listing \in BOOLEAN
BY DEF Worlds, TabRec

LEMMA QueueType ==
    ASSUME NEW w \in Worlds
    PROVE  /\ w.q.mode \in 0 .. 2 /\ w.q.servers \in Seq(Sites) /\ w.q.busy \in [Sites -> Int]
           /\ w.q.count \in Int /\ w.q.down \in Int /\ w.q.up \in Int /\ w.q.inside \in BOOLEAN
           /\ w.q.sending \in Engines \cup {NoEngine} /\ w.q.refreshed \in BOOLEAN
           /\ w.q.refused \in BOOLEAN
BY DEF Worlds, QueueRec

LEMMA EnginesFinite ==
    /\ IsFiniteSet(Engines)
    /\ \A T \in SUBSET Engines : IsFiniteSet(T) /\ Cardinality(T) \in Nat
<1>1. IsFiniteSet(Engines)
  BY QueueAssumption, FS_Interval DEF Engines, TabEngine
<1>2. ASSUME NEW T \in SUBSET Engines PROVE IsFiniteSet(T) /\ Cardinality(T) \in Nat
  BY <1>1, FS_Subset, FS_CardinalityType
<1> QED
  BY <1>1, <1>2

(* How a set of engines changes its size with one of them.                 *)
LEMMA SizeChanges ==
    ASSUME NEW S \in SUBSET Engines, NEW T \in SUBSET Engines, NEW id \in Engines,
           S \ {id} = T \ {id}
    PROVE  Cardinality(T) = Cardinality(S) + (IF id \in T THEN 1 ELSE 0)
                                           - (IF id \in S THEN 1 ELSE 0)
<1>1. IsFiniteSet(S) /\ IsFiniteSet(T) /\ Cardinality(S) \in Nat /\ Cardinality(T) \in Nat
  BY EnginesFinite
<1>2. Cardinality(S \ {id}) = IF id \in S THEN Cardinality(S) - 1 ELSE Cardinality(S)
  BY <1>1, FS_RemoveElement
<1>3. Cardinality(T \ {id}) = IF id \in T THEN Cardinality(T) - 1 ELSE Cardinality(T)
  BY <1>1, FS_RemoveElement
<1> QED
  BY <1>1, <1>2, <1>3

LEMMA HavingChanges ==
    ASSUME NEW data \in [Engines -> DataRec], NEW id \in Engines, NEW d \in DataRec, NEW I
    PROVE  LET next == [data EXCEPT ![id] = d]
           IN  Cardinality(Having(next, I)) =
                  Cardinality(Having(data, I)) + (IF d.item \in I THEN 1 ELSE 0)
                                               - (IF data[id].item \in I THEN 1 ELSE 0)
<1> DEFINE next == [data EXCEPT ![id] = d]
<1>1. Having(next, I) \in SUBSET Engines /\ Having(data, I) \in SUBSET Engines
  BY DEF Having
<1>2. Having(data, I) \ {id} = Having(next, I) \ {id}
  BY DEF Having
<1>3. (id \in Having(next, I) <=> d.item \in I) /\ (id \in Having(data, I) <=> data[id].item \in I)
  BY DEF Having
<1> HIDE DEF next
<1>4. Cardinality(Having(next, I)) = Cardinality(Having(data, I)) + (IF id \in Having(next, I) THEN 1 ELSE 0)
                                                 - (IF id \in Having(data, I) THEN 1 ELSE 0)
  BY <1>1, <1>2, SizeChanges
<1> QED
  BY <1>3, <1>4 DEF next

LEMMA BusyChanges ==
    ASSUME NEW data \in [Engines -> DataRec], NEW id \in Engines, NEW d \in DataRec
    PROVE  LET next == [data EXCEPT ![id] = d]
           IN  Cardinality(Busy(next)) = Cardinality(Busy(data)) + (IF d.active THEN 1 ELSE 0)
                                                                - (IF data[id].active THEN 1 ELSE 0)
<1> DEFINE next == [data EXCEPT ![id] = d]
<1>1. Busy(next) \in SUBSET Engines /\ Busy(data) \in SUBSET Engines
  BY DEF Busy
<1>2. Busy(data) \ {id} = Busy(next) \ {id}
  BY DEF Busy
<1>3. (id \in Busy(next) <=> d.active) /\ (id \in Busy(data) <=> data[id].active)
  BY DEF Busy
<1> HIDE DEF next
<1>4. Cardinality(Busy(next)) = Cardinality(Busy(data)) + (IF id \in Busy(next) THEN 1 ELSE 0)
                                                 - (IF id \in Busy(data) THEN 1 ELSE 0)
  BY <1>1, <1>2, SizeChanges
<1> QED
  BY <1>3, <1>4 DEF next
LEMMA SameItemsOK ==
    ASSUME NEW w, ItemsOK(w), NEW u,
           \A k \in Engines : /\ u.q.data[k].item = w.q.data[k].item
                              /\ w.q.data[k].item \in Items \cup {NoItem}
                              /\ u.q.data[k].item # NoItem => u.q.data[k].site = w.q.data[k].site,
           \A i \in Items :
               /\ u.item[i].active = w.item[i].active
               /\ w.item[i].active /\ w.item[i].where = "queue" => u.item[i].where = "queue"
    PROVE  ItemsOK(u)
<1>1. ASSUME NEW id \in Engines, u.q.data[id].item # NoItem
      PROVE  /\ u.q.data[id].site = SiteOf[u.q.data[id].item]
             /\ u.item[u.q.data[id].item].active /\ u.item[u.q.data[id].item].where = "queue"
  <2>1. /\ u.q.data[id].item = w.q.data[id].item /\ w.q.data[id].item \in Items
        /\ u.q.data[id].site = w.q.data[id].site
    BY <1>1
  <2>2. /\ w.q.data[id].site = SiteOf[w.q.data[id].item]
        /\ w.item[w.q.data[id].item].active /\ w.item[w.q.data[id].item].where = "queue"
    BY <1>1, <2>1 DEF ItemsOK
  <2> QED
    BY <2>1, <2>2
<1>2. ASSUME NEW a \in Engines, NEW b \in Engines,
             u.q.data[a].item # NoItem, u.q.data[a].item = u.q.data[b].item
      PROVE  a = b
  BY <1>2 DEF ItemsOK
<1>3. ASSUME NEW i \in Items, u.item[i].active
      PROVE  \E id \in Engines : u.q.data[id].item = i
  <2>1. w.item[i].active
    BY <1>3
  <2>2. PICK id \in Engines : w.q.data[id].item = i
    BY <2>1 DEF ItemsOK
  <2> QED
    BY <2>2
<1> QED
  BY <1>1, <1>2, <1>3 DEF ItemsOK


LEMMA BookFrame ==
    ASSUME NEW w, NEW u, Book(w), u \in Worlds, SameEngines(w, u), SameCounts(w, u), SameLists(w, u),
           ToOK(u), \A i \in Items : u.item[i].active = w.item[i].active
                                     /\ u.item[i].where = w.item[i].where
    PROVE  Book(u)
<1>1. ListOK(u) /\ DataOK(u)
  BY DEF Book, ListOK, DataOK, NumOwn, HasData, SameEngines
<1>2. ItemsOK(u)
  <2>1. w \in Worlds /\ ItemsOK(w) /\ u.q.data = w.q.data
    BY DEF Book, SameEngines
  <2>2. \A e \in Engines : w.q.data[e].item \in Items \cup {NoItem}
    BY <2>1, DataType DEF Files
  <2> QED
    BY <2>1, <2>2, SameItemsOK
<1>3. ListsOK(u)
  BY DEF Book, ListsOK, Listed, Children, SameLists
<1>4. CountsOK(u)
  BY DEF Book, CountsOK, SameEngines, SameCounts
<1> QED
  BY <1>1, <1>2, <1>3, <1>4 DEF Book

(* An engine changes its state, site or timer.                             *)
LEMMA BookData ==
    ASSUME NEW w, Book(w), NEW id \in Engines, HasData(w, id), NEW d \in DataRec,
           d.active = w.q.data[id].active, d.item = w.q.data[id].item,
           d.item # NoItem => d.site = w.q.data[id].site, GoodData(id, d)
    PROVE  Book(WithData(w, id, d))
<1> DEFINE u == WithData(w, id, d)
           next == [w.q.data EXCEPT ![id] = d]
<1>1. w \in Worlds /\ ListOK(w) /\ DataOK(w) /\ ItemsOK(w) /\ ListsOK(w) /\ CountsOK(w) /\ ToOK(w)
  BY DEF Book
<1>2. u \in Worlds /\ u.item = w.item /\ u.tab = w.tab /\ u.net = w.net /\ u.q = [w.q EXCEPT !.data = next]
  BY <1>1, DataSet
<1>3. u.q.data = next /\ u.q.engines = w.q.engines /\ SameLists(w, u) /\ SameCounts(w, u)
  BY <1>1, <1>2, WorldParts DEF QueueRec, SameLists, SameCounts
<1>4. w.q.data \in [Engines -> DataRec]
  BY <1>1, WorldParts
<1>5. next[id] = d /\ \A e \in Engines \ {id} : next[e] = w.q.data[e]
  BY <1>4
<1> HIDE DEF u, next
<1>6. ListOK(u)
  BY <1>1, <1>3 DEF ListOK, NumOwn, HasData
<1>7. DataOK(u)
  BY <1>1, <1>3, <1>5 DEF DataOK, HasData
<1>8. ItemsOK(u)
  <2>1. \A e \in Engines : next[e].item = w.q.data[e].item
                           /\ (next[e].item # NoItem => next[e].site = w.q.data[e].site)
    BY <1>5
  <2> QED
    <3>1. \A e \in Engines : w.q.data[e].item \in Items \cup {NoItem}
      BY <1>1, DataType DEF Files
    <3> QED
      <4>1. \A k \in Engines : /\ u.q.data[k].item = w.q.data[k].item
                               /\ w.q.data[k].item \in Items \cup {NoItem}
                               /\ u.q.data[k].item # NoItem => u.q.data[k].site = w.q.data[k].site
        BY <1>3, <2>1, <3>1
      <4>2. u.item = w.item /\ ItemsOK(w)
        BY <1>1, <1>2
      <4> QED
        BY <4>1, <4>2, SameItemsOK
<1>9. ListsOK(u)
  BY <1>1, <1>2, <1>3 DEF ListsOK, Listed, Children, SameLists
<1>10. CountsOK(u)
  <2>1. Busy(next) = Busy(w.q.data) /\ \A I : Having(next, I) = Having(w.q.data, I)
    BY <1>5 DEF Busy, Having
  <2> QED
    BY <1>1, <1>3, <2>1 DEF CountsOK, SameCounts
<1>11. ToOK(u)
  BY <1>1, <1>2 DEF ToOK
<1> QED
  BY <1>2, <1>6, <1>7, <1>8, <1>9, <1>10, <1>11 DEF Book, u

(* The lists of the sites are put in another order.                        *)
LEMMA BookLists ==
    ASSUME NEW w, Book(w), NEW now \in [Sites -> Seq(Items)], NEW later \in [Sites -> Seq(Items)],
           \A s \in Sites, i \in Items : Contains(now[s] \o later[s], i) <=> Listed(w, s, i)
    PROVE  Book(WithLists(w, now, later))
<1> DEFINE u == WithLists(w, now, later)
<1>1. w \in Worlds /\ ListOK(w) /\ DataOK(w) /\ ItemsOK(w) /\ ListsOK(w) /\ CountsOK(w) /\ ToOK(w)
  BY DEF Book
<1>2. u \in Worlds /\ u.item = w.item /\ u.tab = w.tab /\ u.net = w.net
      /\ u.q = [w.q EXCEPT !.now = now, !.later = later]
  BY <1>1, ListsSet, ZenonT(40)
<1>3. SameEngines(w, u) /\ SameCounts(w, u) /\ u.q.now = now /\ u.q.later = later
  BY <1>1, <1>2, WorldParts DEF QueueRec, SameEngines, SameCounts
<1> HIDE DEF u
<1>4. ListOK(u) /\ DataOK(u) /\ ToOK(u)
  BY <1>1, <1>2, <1>3 DEF ListOK, DataOK, ToOK, NumOwn, HasData, SameEngines
<1>5. ItemsOK(u)
  <2>1. \A e \in Engines : w.q.data[e].item \in Items \cup {NoItem}
    BY <1>1, DataType DEF Files
  <2>2. u.q.data = w.q.data
    BY <1>3 DEF SameEngines
  <2> QED
    <3>1. \A k \in Engines : /\ u.q.data[k].item = w.q.data[k].item
                             /\ w.q.data[k].item \in Items \cup {NoItem}
                             /\ u.q.data[k].item # NoItem => u.q.data[k].site = w.q.data[k].site
      BY <2>1, <2>2
    <3>2. u.item = w.item /\ ItemsOK(w)
      BY <1>1, <1>2
    <3> QED
      BY <3>1, <3>2, SameItemsOK
<1>6. CountsOK(u)
  BY <1>1, <1>3 DEF CountsOK, SameEngines, SameCounts
<1>7. ListsOK(u)
  <2>1. \A s \in Sites, i \in Items : Listed(u, s, i) <=> Listed(w, s, i)
    BY <1>3 DEF Listed, Children
  <2>2. \A i \in Items : SiteOf[i] \in Sites
    BY QueueAssumption
  <2> QED
    BY <1>1, <1>2, <2>1, <2>2 DEF ListsOK
<1> QED
  BY <1>2, <1>4, <1>5, <1>6, <1>7 DEF Book, u

NewState(id) == IF id = TabEngine THEN "waitprimary" ELSE "none"

LEMMA BookAdded ==
    ASSUME NEW w, Book(w), NEW id \in Engines, ~HasData(w, id),
           id # TabEngine => id = NumOwn(w) + 1
    PROVE  LET u == AddEngine(w, id, NewState(id))
           IN  /\ Book(u)
               /\ \A e \in Engines : HasData(u, e) <=> HasData(w, e) \/ e = id
<1> DEFINE u == AddEngine(w, id, NewState(id))
           d == NewData(NewState(id))
           next == [w.q.data EXCEPT ![id] = d]
<1>1. w \in Worlds /\ ListOK(w) /\ DataOK(w) /\ ItemsOK(w) /\ ListsOK(w) /\ CountsOK(w) /\ ToOK(w)
  BY DEF Book
<1>2. NewState(id) \in States
  BY DEF NewState, States
<1>3. u \in Worlds /\ u.item = w.item /\ u.tab = w.tab /\ u.net = w.net
      /\ u.q = [w.q EXCEPT !.data = next, !.engines = Append(w.q.engines, id)]
  BY <1>1, <1>2, EngineAdded, ZenonT(40)
<1>4. u.q.data = next /\ u.q.engines = Append(w.q.engines, id) /\ SameLists(w, u) /\ SameCounts(w, u)
  BY <1>1, <1>3, WorldParts DEF QueueRec, SameLists, SameCounts
<1>5. w.q.data \in [Engines -> DataRec] /\ w.q.engines \in Seq(Engines)
  BY <1>1, WorldParts
<1>6. next[id] = d /\ \A e \in Engines \ {id} : next[e] = w.q.data[e]
  BY <1>5
<1>7. d.item = NoItem /\ ~d.active /\ d.state = NewState(id) /\ ~d.timer /\ d.site = NoSite
      /\ w.q.data[id] = NewData("none")
  BY <1>1 DEF NewData, DataOK
<1>7a. w.q.data[id].item = NoItem /\ ~w.q.data[id].active
  BY <1>7 DEF NewData
<1>8. \A e \in Engines : HasData(u, e) <=> HasData(w, e) \/ e = id
  BY <1>4, <1>5, AppendHas DEF HasData
<1> HIDE DEF u, next, d
<1>9. ListOK(u)
  <2>1. Len(u.q.engines) = Len(w.q.engines) + 1 /\ Len(w.q.engines) \in Nat
    BY <1>4, <1>5
  <2>2. NumOwn(u) = NumOwn(w) + (IF id = TabEngine THEN 0 ELSE 1)
    <3>1. TabEngine \in Engines
      BY QueueAssumption DEF TabEngine, Engines
    <3>2. HasData(u, TabEngine) <=> HasData(w, TabEngine) \/ id = TabEngine
      BY <1>8, <3>1
    <3>3. CASE id = TabEngine
      BY <2>1, <3>2, <3>3 DEF NumOwn
    <3>4. CASE id # TabEngine /\ HasData(w, TabEngine)
      BY <2>1, <3>2, <3>4 DEF NumOwn
    <3>5. CASE id # TabEngine /\ ~HasData(w, TabEngine)
      <4>1. ~HasData(u, TabEngine)
        BY <3>2, <3>5
      <4>2. NumOwn(u) = Len(u.q.engines) - 0 /\ NumOwn(w) = Len(w.q.engines) - 0
        BY <4>1, <3>5 DEF NumOwn
      <4> QED
        BY <2>1, <3>5, <4>2
    <3> QED
      BY <3>3, <3>4, <3>5
  <2>3. Distinct(u.q.engines)
    <3>1. PICK e \in Seq(Engines) : e = w.q.engines
      BY <1>5
    <3>2. PICK n \in Nat : n = Len(e)
      BY <3>1
    <3>3. \A k \in 1 .. n : e[k] # id
      BY <3>1, <3>2 DEF HasData, Contains
    <3>4. Len(Append(e, id)) = n + 1 /\ Append(e, id)[n + 1] = id
          /\ \A k \in 1 .. n : Append(e, id)[k] = e[k]
      BY <3>2
    <3>5. \A k, l \in 1 .. n : e[k] = e[l] => k = l
      BY <1>1, <3>1, <3>2 DEF ListOK, Distinct
    <3>6. PICK t : t = Append(e, id)
      OBVIOUS
    <3>7. ASSUME NEW k \in 1 .. n + 1, NEW l \in 1 .. n + 1, t[k] = t[l] PROVE k = l
      BY <3>3, <3>4, <3>5, <3>6, <3>7
    <3> QED
      BY <1>4, <3>1, <3>4, <3>6, <3>7 DEF Distinct
  <2>4. NumOwn(w) \in Int
    BY <1>5 DEF NumOwn
  <2>5. ASSUME NEW e \in Own PROVE HasData(u, e) <=> e =< NumOwn(u)
    <3>1. e \in Engines /\ e \in Int /\ e # TabEngine
      BY QueueAssumption DEF Own, Engines, TabEngine
    <3>2. HasData(w, e) <=> e =< NumOwn(w)
      BY <1>1 DEF ListOK
    <3> QED
      BY <1>8, <2>2, <2>4, <3>1, <3>2
  <2> QED
    BY <2>3, <2>5 DEF ListOK
<1>10. DataOK(u)
  <2>1. GoodData(id, d)
    BY <1>7 DEF GoodData, NewState
  <2> QED
    BY <1>1, <1>4, <1>6, <1>8, <2>1 DEF DataOK
<1>11. \A e \in Engines : next[e].item = w.q.data[e].item /\ next[e].active = w.q.data[e].active
                         /\ (next[e].item # NoItem => next[e].site = w.q.data[e].site)
  <2>1. w.q.data[id].active \in BOOLEAN /\ d.active \in BOOLEAN
    BY <1>1, DataType DEF d, NewData
  <2> QED
    BY <1>6, <1>7, <1>7a, <2>1
<1>12. ItemsOK(u)
  <2>1. \A e \in Engines : w.q.data[e].item \in Items \cup {NoItem}
    BY <1>1, DataType DEF Files
  <2> QED
    <3>1. \A k \in Engines : /\ u.q.data[k].item = w.q.data[k].item
                             /\ w.q.data[k].item \in Items \cup {NoItem}
                             /\ u.q.data[k].item # NoItem => u.q.data[k].site = w.q.data[k].site
      BY <1>3, <1>4, <1>11, <2>1
    <3>2. u.item = w.item /\ ItemsOK(w)
      BY <1>1, <1>3, <1>4
    <3> QED
      BY <3>1, <3>2, SameItemsOK
<1>13. ListsOK(u)
  BY <1>1, <1>3, <1>4 DEF ListsOK, Listed, Children, SameLists
<1>14. CountsOK(u)
  <2>1. Busy(next) = Busy(w.q.data) /\ \A I : Having(next, I) = Having(w.q.data, I)
    BY <1>11 DEF Busy, Having
  <2> QED
    BY <1>1, <1>4, <2>1 DEF CountsOK, SameCounts
<1>15. ToOK(u)
  BY <1>1, <1>3 DEF ToOK
<1> QED
  BY <1>3, <1>8, <1>9, <1>10, <1>12, <1>13, <1>14, <1>15 DEF Book, u

LEMMA SendingSet ==
    ASSUME NEW w \in Worlds, NEW x \in Engines \cup {NoEngine}
    PROVE  LET u == [w EXCEPT !.q.sending = x]
           IN  /\ u \in Worlds
               /\ u.q = [w.q EXCEPT !.sending = x]
               /\ u.item = w.item /\ u.tab = w.tab /\ u.net = w.net
               /\ u.q.mode = w.q.mode /\ u.q.inside = w.q.inside /\ u.q.refused = w.q.refused
               /\ u.q.refreshed = w.q.refreshed /\ u.q.servers = w.q.servers
               /\ u.q.sending = x /\ SameEngines(w, u) /\ SameCounts(w, u) /\ SameLists(w, u)
<1> DEFINE c == [w.q EXCEPT !.sending = x]
<1>1. c \in QueueRec
  BY DEF Worlds, QueueRec
<1>2. [w EXCEPT !.q.sending = x] = [w EXCEPT !.q = c]
  BY DEF Worlds
<1>3. c.sending = x /\ c.engines = w.q.engines /\ c.data = w.q.data /\ c.busy = w.q.busy
      /\ c.count = w.q.count /\ c.down = w.q.down /\ c.up = w.q.up /\ c.now = w.q.now
      /\ c.later = w.q.later
      /\ c.mode = w.q.mode /\ c.inside = w.q.inside /\ c.refused = w.q.refused /\ c.refreshed = w.q.refreshed /\ c.servers = w.q.servers
  BY DEF Worlds, QueueRec
<1> HIDE DEF c
<1> QED
  BY <1>1, <1>2, <1>3, WorldOf DEF c, SameEngines, SameCounts, SameLists

LEMMA InsideSet ==
    ASSUME NEW w \in Worlds, NEW x \in BOOLEAN
    PROVE  LET u == [w EXCEPT !.q.inside = x]
           IN  /\ u \in Worlds
               /\ u.q = [w.q EXCEPT !.inside = x]
               /\ u.item = w.item /\ u.tab = w.tab /\ u.net = w.net
               /\ u.q.mode = w.q.mode /\ u.q.sending = w.q.sending /\ u.q.refused = w.q.refused
               /\ u.q.refreshed = w.q.refreshed /\ u.q.servers = w.q.servers
               /\ u.q.inside = x /\ SameEngines(w, u) /\ SameCounts(w, u) /\ SameLists(w, u)
<1> DEFINE c == [w.q EXCEPT !.inside = x]
<1>1. c \in QueueRec
  BY DEF Worlds, QueueRec
<1>2. [w EXCEPT !.q.inside = x] = [w EXCEPT !.q = c]
  BY DEF Worlds
<1>3. c.inside = x /\ c.engines = w.q.engines /\ c.data = w.q.data /\ c.busy = w.q.busy
      /\ c.count = w.q.count /\ c.down = w.q.down /\ c.up = w.q.up /\ c.now = w.q.now
      /\ c.later = w.q.later
      /\ c.mode = w.q.mode /\ c.sending = w.q.sending /\ c.refused = w.q.refused /\ c.refreshed = w.q.refreshed /\ c.servers = w.q.servers
  BY DEF Worlds, QueueRec
<1> HIDE DEF c
<1> QED
  BY <1>1, <1>2, <1>3, WorldOf DEF c, SameEngines, SameCounts, SameLists

LEMMA ModeSet ==
    ASSUME NEW w \in Worlds, NEW x \in 0 .. 2
    PROVE  LET u == [w EXCEPT !.q.mode = x]
           IN  /\ u \in Worlds
               /\ u.q = [w.q EXCEPT !.mode = x]
               /\ u.item = w.item /\ u.tab = w.tab /\ u.net = w.net
               /\ u.q.inside = w.q.inside /\ u.q.sending = w.q.sending /\ u.q.refused = w.q.refused
               /\ u.q.refreshed = w.q.refreshed /\ u.q.servers = w.q.servers
               /\ u.q.mode = x /\ SameEngines(w, u) /\ SameCounts(w, u) /\ SameLists(w, u)
<1> DEFINE c == [w.q EXCEPT !.mode = x]
<1>1. c \in QueueRec
  BY DEF Worlds, QueueRec
<1>2. [w EXCEPT !.q.mode = x] = [w EXCEPT !.q = c]
  BY DEF Worlds
<1>3. c.mode = x /\ c.engines = w.q.engines /\ c.data = w.q.data /\ c.busy = w.q.busy
      /\ c.count = w.q.count /\ c.down = w.q.down /\ c.up = w.q.up /\ c.now = w.q.now
      /\ c.later = w.q.later
      /\ c.inside = w.q.inside /\ c.sending = w.q.sending /\ c.refused = w.q.refused /\ c.refreshed = w.q.refreshed /\ c.servers = w.q.servers
  BY DEF Worlds, QueueRec
<1> HIDE DEF c
<1> QED
  BY <1>1, <1>2, <1>3, WorldOf DEF c, SameEngines, SameCounts, SameLists

LEMMA RefreshedSet ==
    ASSUME NEW w \in Worlds, NEW x \in BOOLEAN
    PROVE  LET u == [w EXCEPT !.q.refreshed = x]
           IN  /\ u \in Worlds
               /\ u.q = [w.q EXCEPT !.refreshed = x]
               /\ u.item = w.item /\ u.tab = w.tab /\ u.net = w.net
               /\ u.q.mode = w.q.mode /\ u.q.inside = w.q.inside /\ u.q.sending = w.q.sending
               /\ u.q.refused = w.q.refused /\ u.q.servers = w.q.servers
               /\ u.q.refreshed = x /\ SameEngines(w, u) /\ SameCounts(w, u) /\ SameLists(w, u)
<1> DEFINE c == [w.q EXCEPT !.refreshed = x]
<1>1. c \in QueueRec
  BY DEF Worlds, QueueRec
<1>2. [w EXCEPT !.q.refreshed = x] = [w EXCEPT !.q = c]
  BY DEF Worlds
<1>3. c.refreshed = x /\ c.engines = w.q.engines /\ c.data = w.q.data /\ c.busy = w.q.busy
      /\ c.count = w.q.count /\ c.down = w.q.down /\ c.up = w.q.up /\ c.now = w.q.now
      /\ c.later = w.q.later
      /\ c.mode = w.q.mode /\ c.inside = w.q.inside /\ c.sending = w.q.sending /\ c.refused = w.q.refused /\ c.servers = w.q.servers
  BY DEF Worlds, QueueRec
<1> HIDE DEF c
<1> QED
  BY <1>1, <1>2, <1>3, WorldOf DEF c, SameEngines, SameCounts, SameLists

LEMMA RefusedSet ==
    ASSUME NEW w \in Worlds, NEW x \in BOOLEAN
    PROVE  LET u == [w EXCEPT !.q.refused = x]
           IN  /\ u \in Worlds
               /\ u.q = [w.q EXCEPT !.refused = x]
               /\ u.item = w.item /\ u.tab = w.tab /\ u.net = w.net
               /\ u.q.mode = w.q.mode /\ u.q.inside = w.q.inside /\ u.q.sending = w.q.sending
               /\ u.q.refreshed = w.q.refreshed /\ u.q.servers = w.q.servers
               /\ u.q.refused = x /\ SameEngines(w, u) /\ SameCounts(w, u) /\ SameLists(w, u)
<1> DEFINE c == [w.q EXCEPT !.refused = x]
<1>1. c \in QueueRec
  BY DEF Worlds, QueueRec
<1>2. [w EXCEPT !.q.refused = x] = [w EXCEPT !.q = c]
  BY DEF Worlds
<1>3. c.refused = x /\ c.engines = w.q.engines /\ c.data = w.q.data /\ c.busy = w.q.busy
      /\ c.count = w.q.count /\ c.down = w.q.down /\ c.up = w.q.up /\ c.now = w.q.now
      /\ c.later = w.q.later
      /\ c.mode = w.q.mode /\ c.inside = w.q.inside /\ c.sending = w.q.sending /\ c.refreshed = w.q.refreshed /\ c.servers = w.q.servers
  BY DEF Worlds, QueueRec
<1> HIDE DEF c
<1> QED
  BY <1>1, <1>2, <1>3, WorldOf DEF c, SameEngines, SameCounts, SameLists

LEMMA ServersSet ==
    ASSUME NEW w \in Worlds, NEW x \in Seq(Sites)
    PROVE  LET u == [w EXCEPT !.q.servers = x]
           IN  /\ u \in Worlds
               /\ u.q = [w.q EXCEPT !.servers = x]
               /\ u.item = w.item /\ u.tab = w.tab /\ u.net = w.net
               /\ u.q.mode = w.q.mode /\ u.q.inside = w.q.inside /\ u.q.sending = w.q.sending
               /\ u.q.refused = w.q.refused /\ u.q.refreshed = w.q.refreshed
               /\ u.q.servers = x /\ SameEngines(w, u) /\ SameCounts(w, u) /\ SameLists(w, u)
<1> DEFINE c == [w.q EXCEPT !.servers = x]
<1>1. c \in QueueRec
  BY DEF Worlds, QueueRec
<1>2. [w EXCEPT !.q.servers = x] = [w EXCEPT !.q = c]
  BY DEF Worlds
<1>3. c.servers = x /\ c.engines = w.q.engines /\ c.data = w.q.data /\ c.busy = w.q.busy
      /\ c.count = w.q.count /\ c.down = w.q.down /\ c.up = w.q.up /\ c.now = w.q.now
      /\ c.later = w.q.later
      /\ c.mode = w.q.mode /\ c.inside = w.q.inside /\ c.sending = w.q.sending /\ c.refused = w.q.refused /\ c.refreshed = w.q.refreshed
  BY DEF Worlds, QueueRec
<1> HIDE DEF c
<1> QED
  BY <1>1, <1>2, <1>3, WorldOf DEF c, SameEngines, SameCounts, SameLists

CountedIn(c, e, i, n) ==
    /\ e.busy = [c.busy EXCEPT ![SiteOf[i]] = c.busy[SiteOf[i]] + n]
    /\ e.count = c.count + n
    /\ e.down = c.down + (IF Download(i) THEN n ELSE 0)
    /\ e.up = c.up + (IF Download(i) THEN 0 ELSE n)

LEMMA CountedViews ==
    ASSUME NEW w \in Worlds, NEW i \in Items, NEW n \in {1, -1}
    PROVE  LET u == Counted(w, i, n)
           IN  /\ u \in Worlds /\ u.item = w.item /\ u.tab = w.tab /\ u.net = w.net
               /\ SameMode(w, u) /\ SameEngines(w, u) /\ SameLists(w, u)
               /\ u.q.refreshed = w.q.refreshed /\ CountedIn(w.q, u.q, i, n)
<1> DEFINE u == Counted(w, i, n)
           down == IF Download(i) THEN n ELSE 0
           up == IF Download(i) THEN 0 ELSE n
           busy == [w.q.busy EXCEPT ![SiteOf[i]] = w.q.busy[SiteOf[i]] + n]
           c == [w.q EXCEPT !.busy = busy, !.count = w.q.count + n, !.down = w.q.down + down,
                            !.up = w.q.up + up]
<1>1. c \in QueueRec
  <2>1. SiteOf[i] \in Sites
    BY QueueAssumption
  <2>2. busy \in [Sites -> Int]
    BY <2>1 DEF Worlds, QueueRec
  <2>3. w.q.count + n \in Int /\ w.q.down + down \in Int /\ w.q.up + up \in Int
    BY DEF Worlds, QueueRec
  <2>4. w.q \in QueueRec
    BY WorldParts
  <2> HIDE DEF busy, down, up
  <2>5. ASSUME NEW a \in Int, NEW b \in Int, NEW e \in Int
        PROVE  [w.q EXCEPT !.busy = busy, !.count = a, !.down = b, !.up = e] \in QueueRec
    BY <2>2, <2>4 DEF QueueRec
  <2> QED
    BY <2>3, <2>5
<1>2. Counted(w, i, n) = [w EXCEPT !.q = c]
  BY DEF Counted, Worlds
<1>3. c.mode = w.q.mode /\ c.inside = w.q.inside /\ c.sending = w.q.sending
      /\ c.refused = w.q.refused /\ c.engines = w.q.engines /\ c.data = w.q.data
      /\ c.now = w.q.now /\ c.later = w.q.later /\ c.refreshed = w.q.refreshed
      /\ c.busy = busy /\ c.count = w.q.count + n /\ c.down = w.q.down + down
      /\ c.up = w.q.up + up
  <2> HIDE DEF busy, down, up
  <2> QED
    BY WorldParts DEF QueueRec
<1> HIDE DEF c
<1>4. u \in Worlds /\ u.q = c /\ u.item = w.item /\ u.tab = w.tab /\ u.net = w.net
  BY <1>1, <1>2, WorldOf
<1> HIDE DEF u
<1>5. SameMode(w, u) /\ SameEngines(w, u) /\ SameLists(w, u)
      /\ u.q.refreshed = w.q.refreshed
  BY <1>3, <1>4 DEF SameMode, SameEngines, SameLists
<1>6. CountedIn(w.q, u.q, i, n)
  BY <1>3, <1>4 DEF CountedIn
<1> QED
  BY <1>4, <1>5, <1>6 DEF u

(* A file is assigned to an engine.                                        *)
Given(w, i, id) ==
    [w.q.data[id] EXCEPT !.item = i, !.active = TRUE, !.timer = FALSE, !.site = SiteOf[i],
                         !.state = FirstState(w, id, i)]

LEMMA AssignViews ==
    ASSUME NEW w \in Worlds, NEW i \in Items, NEW id \in Engines
    PROVE  LET u == Assign(w, i, id)
               down == IF Download(i) THEN 1 ELSE 0
               up == IF Download(i) THEN 0 ELSE 1
               s == SiteOf[i]
           IN  /\ u \in Worlds /\ Given(w, i, id) \in DataRec
               /\ u.q.data = [w.q.data EXCEPT ![id] = Given(w, i, id)]
               /\ u.q.data[id] = Given(w, i, id)
               /\ \A e \in Engines \ {id} : u.q.data[e] = w.q.data[e]
               /\ u.q.busy = [w.q.busy EXCEPT ![s] = w.q.busy[s] + 1]
               /\ u.q.count = w.q.count + 1 /\ u.q.down = w.q.down + down /\ u.q.up = w.q.up + up
               /\ u.item = [w.item EXCEPT ![i] = [w.item[i] EXCEPT !.active = TRUE]]
               /\ u.q.sending = id /\ u.q.engines = w.q.engines /\ SameLists(w, u)
               /\ u.q.mode = w.q.mode /\ u.q.inside = w.q.inside /\ u.q.refused = w.q.refused
               /\ u.tab = w.tab /\ u.net = w.net
<1> DEFINE d == Given(w, i, id)
           u1 == WithData(w, id, d)
           u2 == SetActiveItem(u1, i, TRUE)
           u3 == Counted(u2, i, 1)
           u == [u3 EXCEPT !.q.sending = id]
<1>1. d \in DataRec
  <2>1. FirstState(w, id, i) \in States
    BY QueueAssumption DEF FirstState, Work, States
  <2>2. SiteOf[i] \in Servers /\ w.q.data[id] \in DataRec
    BY QueueAssumption, DataType DEF Servers
  <2> QED
    BY <2>1, <2>2 DEF Given, DataRec, Files
<1>2. u1 \in Worlds /\ u1.q = [w.q EXCEPT !.data = [w.q.data EXCEPT ![id] = d]]
      /\ u1.item = w.item /\ u1.tab = w.tab /\ u1.net = w.net
  BY <1>1, DataSet
<1>3. u2 \in Worlds /\ u2.item = [w.item EXCEPT ![i] = [w.item[i] EXCEPT !.active = TRUE]]
      /\ u2.q = u1.q /\ u2.tab = w.tab /\ u2.net = w.net
  <2> HIDE DEF u1
  <2>1. PICK yes \in BOOLEAN : yes = TRUE
    OBVIOUS
  <2>2. SetActiveItem(u1, i, yes) \in Worlds
        /\ SetActiveItem(u1, i, yes).item = [u1.item EXCEPT ![i] = [u1.item[i] EXCEPT !.active = yes]]
        /\ SetActiveItem(u1, i, yes).q = u1.q /\ SetActiveItem(u1, i, yes).tab = u1.tab
        /\ SetActiveItem(u1, i, yes).net = u1.net
    BY <1>2, ItemSet
  <2> QED
    BY <1>2, <2>1, <2>2
<1> DEFINE down == IF Download(i) THEN 1 ELSE 0
           up == IF Download(i) THEN 0 ELSE 1
           s == SiteOf[i]
<1>4. u3 \in Worlds /\ u3.item = u2.item /\ u3.tab = w.tab /\ u3.net = w.net
      /\ SameMode(u2, u3) /\ SameEngines(u2, u3) /\ SameLists(u2, u3)
      /\ CountedIn(u2.q, u3.q, i, 1)
  <2> HIDE DEF u2
  <2>1. PICK n \in {1, -1} : n = 1
    OBVIOUS
  <2> QED
    BY <1>3, <2>1, CountedViews
<1> HIDE DEF u1, u2, u3, d, down, up
<1>5. u2.q.busy = w.q.busy /\ u2.q.count = w.q.count /\ u2.q.down = w.q.down /\ u2.q.up = w.q.up
      /\ u2.q.data = [w.q.data EXCEPT ![id] = d] /\ u2.q.engines = w.q.engines /\ SameLists(w, u2)
      /\ u2.q.mode = w.q.mode /\ u2.q.inside = w.q.inside /\ u2.q.refused = w.q.refused
  BY <1>2, <1>3, WorldParts DEF QueueRec, SameLists
<1>6. u3.q.busy = [w.q.busy EXCEPT ![s] = w.q.busy[s] + 1] /\ u3.q.count = w.q.count + 1
      /\ u3.q.down = w.q.down + down /\ u3.q.up = w.q.up + up
  BY <1>4, <1>5 DEF CountedIn, down, up
<1>7. u3.q.data = [w.q.data EXCEPT ![id] = d] /\ u3.q.engines = w.q.engines /\ SameLists(w, u3)
      /\ u3.q.mode = w.q.mode /\ u3.q.inside = w.q.inside /\ u3.q.refused = w.q.refused
  BY <1>4, <1>5 DEF SameMode, SameEngines, SameLists
<1>8. u \in Worlds /\ u.q.sending = id /\ u.item = u3.item /\ u.tab = u3.tab /\ u.net = u3.net
      /\ SameEngines(u3, u) /\ SameCounts(u3, u) /\ SameLists(u3, u)
      /\ u.q = [u3.q EXCEPT !.sending = id]
      /\ u.q.mode = u3.q.mode /\ u.q.inside = u3.q.inside /\ u.q.refused = u3.q.refused
  <2>1. u3 \in Worlds /\ id \in Engines \cup {NoEngine}
    BY <1>4
  <2> QED
    BY <2>1, SendingSet
<1>10. Assign(w, i, id) = u
  BY DEF Assign, Given, Data, d, u1, u2, u3
<1> HIDE DEF u
<1>11. u.q.data[id] = d /\ \A e \in Engines \ {id} : u.q.data[e] = w.q.data[e]
  <2>1. u.q.data = [w.q.data EXCEPT ![id] = d]
    BY <1>7, <1>8 DEF SameEngines
  <2>2. w.q.data \in [Engines -> DataRec]
    BY WorldParts
  <2> QED
    BY <2>1, <2>2
<1> QED
  BY <1>1, <1>3, <1>4, <1>6, <1>7, <1>8, <1>10, <1>11, ZenonT(40)
     DEF SameEngines, SameCounts, SameLists, down, up, d

LEMMA BookAssign ==
    ASSUME NEW w, Book(w), NEW i \in Items, NEW id \in Engines, HasData(w, id),
           ~w.q.data[id].active, w.item[i].where = "queue", ~w.item[i].active
    PROVE  Book(Assign(w, i, id))
<1> DEFINE u == Assign(w, i, id)
           d == Given(w, i, id)
           next == [w.q.data EXCEPT ![id] = d]
           down == IF Download(i) THEN 1 ELSE 0
           up == IF Download(i) THEN 0 ELSE 1
           s == SiteOf[i]
<1>1. w \in Worlds /\ ListOK(w) /\ DataOK(w) /\ ItemsOK(w) /\ ListsOK(w) /\ CountsOK(w) /\ ToOK(w)
  BY DEF Book
<1>2. /\ u \in Worlds /\ d \in DataRec
      /\ u.q.data = next
      /\ u.q.busy = [w.q.busy EXCEPT ![s] = w.q.busy[s] + 1]
      /\ u.q.count = w.q.count + 1 /\ u.q.down = w.q.down + down /\ u.q.up = w.q.up + up
      /\ u.item = [w.item EXCEPT ![i] = [w.item[i] EXCEPT !.active = TRUE]]
      /\ u.q.engines = w.q.engines /\ SameLists(w, u) /\ u.net = w.net
  BY <1>1, AssignViews, SMTT(40)
<1>3. w.q.data \in [Engines -> DataRec] /\ w.item \in [Items -> ItemRec] /\ w.q.data[id] \in DataRec
      /\ w.item[i] \in ItemRec /\ w.q.busy \in [Sites -> Int] /\ s \in Sites
      /\ w.q.count \in Int /\ w.q.down \in Int /\ w.q.up \in Int
  BY <1>1, WorldParts, QueueAssumption, QueueType
<1>4. d.item = i /\ d.active = TRUE /\ d.timer = FALSE /\ d.site = s /\ d.state = FirstState(w, id, i)
  BY <1>3 DEF Given, DataRec
<1>5. next[id] = d /\ \A e \in Engines \ {id} : next[e] = w.q.data[e]
  BY <1>3
<1>5a. u.item[i] = [w.item[i] EXCEPT !.active = TRUE]
       /\ \A j \in Items \ {i} : u.item[j] = w.item[j]
  <2> HIDE DEF u, next, d
  <2> QED
    BY <1>2, <1>3
<1>6. u.item[i].active /\ u.item[i].where = "queue"
      /\ \A j \in Items : u.item[j].where = w.item[j].where
                          /\ (j # i => u.item[j].active = w.item[j].active)
  <2> HIDE DEF u, next, d
  <2>1. u.item[i].active /\ u.item[i].where = "queue"
    BY <1>3, <1>5a DEF ItemRec
  <2> QED
    BY <1>5a, <2>1
<1>7. i # NoItem
  BY QueueAssumption
<1>8. w.q.data[id].item = NoItem /\ NoItem \notin Items
  BY <1>1, QueueAssumption DEF DataOK, GoodData
<1> HIDE DEF u, next, d
<1>9. ListOK(u)
  BY <1>1, <1>2 DEF ListOK, NumOwn, HasData
<1>10. GoodData(id, d)
  <2>1. w.q.data[id].state = "waitprimary" => id = TabEngine
    BY <1>1 DEF DataOK, GoodData
  <2>2. Work(i) \in {"transfer", "mkdir"}
    BY DEF Work
  <2>3. d.state \in {"waitprimary", "connect", "disconnect", Work(i)}
        /\ (d.state = "waitprimary" => id = TabEngine)
    BY <1>4, <2>1, <2>2 DEF FirstState, Data
  <2> QED
    BY <1>4, <1>7, <2>2, <2>3 DEF GoodData
<1>11. DataOK(u)
  BY <1>1, <1>2, <1>5, <1>10 DEF DataOK, HasData
<1>12. ItemsOK(u)
  <2>1. ASSUME NEW a \in Engines, u.q.data[a].item # NoItem
        PROVE  /\ u.q.data[a].site = SiteOf[u.q.data[a].item]
               /\ u.item[u.q.data[a].item].active /\ u.item[u.q.data[a].item].where = "queue"
               /\ (a # id => u.q.data[a].item # i)
    <3>1. CASE a = id
      BY <1>2, <1>4, <1>5, <1>6, <3>1
    <3>2. CASE a # id
      <4>1. u.q.data[a] = w.q.data[a] /\ w.q.data[a].item \in Items
        BY <1>1, <1>2, <1>5, <2>1, <3>2, DataType DEF Files
      <4> QED
        <5> DEFINE k == w.q.data[a].item
        <5>1. k \in Items /\ k # NoItem
          BY <2>1, <4>1
        <5>2. w.q.data[a].site = SiteOf[k] /\ w.item[k].active /\ w.item[k].where = "queue"
          BY <1>1, <5>1 DEF ItemsOK
        <5>3. k # i
          BY <1>1, <5>2
        <5> HIDE DEF k
        <5>4. u.item[k].active /\ u.item[k].where = "queue"
          BY <1>6, <5>1, <5>2, <5>3
        <5> QED
          BY <4>1, <5>2, <5>3, <5>4 DEF k
    <3> QED
      BY <3>1, <3>2
  <2>2. ASSUME NEW a \in Engines, NEW b \in Engines, u.q.data[a].item # NoItem,
               u.q.data[a].item = u.q.data[b].item
        PROVE  a = b
    <3>1. CASE a = id \/ b = id
      BY <1>2, <1>4, <1>5, <2>1, <2>2, <3>1
    <3>2. CASE a # id /\ b # id
      <4>1. w.q.data[a].item # NoItem /\ w.q.data[a].item = w.q.data[b].item
        BY <1>2, <1>5, <2>2, <3>2
      <4> QED
        BY <1>1, <4>1 DEF ItemsOK
    <3> QED
      BY <3>1, <3>2
  <2>3. ASSUME NEW j \in Items, u.item[j].active
        PROVE  \E e \in Engines : u.q.data[e].item = j
    <3>1. CASE j = i
      BY <1>2, <1>4, <1>5, <3>1
    <3>2. CASE j # i
      <4>1. PICK e \in Engines : w.q.data[e].item = j
        BY <1>1, <1>6, <2>3, <3>2 DEF ItemsOK
      <4>2. e # id
        BY <1>8, <4>1
      <4> QED
        BY <1>2, <1>5, <4>1, <4>2
    <3> QED
      BY <3>1, <3>2
  <2> QED
    BY <2>1, <2>2, <2>3 DEF ItemsOK
<1>13. ListsOK(u)
  BY <1>1, <1>2, <1>6 DEF ListsOK, Listed, Children, SameLists
<1>14. CountsOK(u)
  <2>1. Cardinality(Busy(next)) = Cardinality(Busy(w.q.data)) + 1
    <3>1. Cardinality(Busy(next)) = Cardinality(Busy(w.q.data)) + (IF d.active THEN 1 ELSE 0)
                                     - (IF w.q.data[id].active THEN 1 ELSE 0)
      BY <1>2, <1>3, BusyChanges DEF next
    <3>2. Cardinality(Busy(w.q.data)) \in Nat
      BY EnginesFinite DEF Busy
    <3> QED
      BY <1>4, <3>1, <3>2
  <2>2. ASSUME NEW I \in SUBSET Items
        PROVE  Cardinality(Having(next, I)) = Cardinality(Having(w.q.data, I)) + (IF i \in I THEN 1 ELSE 0)
    <3>1. Cardinality(Having(next, I)) = Cardinality(Having(w.q.data, I)) + (IF d.item \in I THEN 1 ELSE 0)
                                     - (IF w.q.data[id].item \in I THEN 1 ELSE 0)
      BY <1>2, <1>3, HavingChanges, SMTT(40) DEF next
    <3>2. Cardinality(Having(w.q.data, I)) \in Nat
      BY EnginesFinite DEF Having
    <3>3. w.q.data[id].item \notin I
      BY <1>8
    <3> QED
      BY <1>4, <3>1, <3>2, <3>3
  <2>3. Downloads \in SUBSET Items /\ Uploads \in SUBSET Items /\ \A t \in Sites : FilesOf(t) \in SUBSET Items
    BY DEF Downloads, Uploads, FilesOf
  <2>4. (i \in Downloads <=> Download(i)) /\ (i \in Uploads <=> ~Download(i))
        /\ \A t \in Sites : i \in FilesOf(t) <=> t = s
    BY DEF Downloads, Uploads, FilesOf
  <2>5. u.q.count = Cardinality(Busy(next))
    BY <1>1, <1>2, <2>1 DEF CountsOK
  <2>6. u.q.down = Cardinality(Having(next, Downloads)) /\ u.q.up = Cardinality(Having(next, Uploads))
    BY <1>1, <1>2, <2>2, <2>3, <2>4 DEF CountsOK
  <2>7. ASSUME NEW t \in Sites PROVE u.q.busy[t] = Cardinality(Having(next, FilesOf(t)))
    <3>1. w.q.busy[t] = Cardinality(Having(w.q.data, FilesOf(t))) /\ w.q.busy[t] \in Int
      BY <1>1, <1>3 DEF CountsOK
    <3>2. u.q.busy[t] = w.q.busy[t] + (IF t = s THEN 1 ELSE 0)
      BY <1>2, <1>3, <3>1
    <3> QED
      BY <2>2, <2>3, <2>4, <3>1, <3>2
  <2> QED
    BY <1>2, <2>5, <2>6, <2>7 DEF CountsOK
<1>15. ToOK(u)
  BY <1>1, <1>2 DEF ToOK
<1> QED
  BY <1>2, <1>9, <1>11, <1>12, <1>13, <1>14, <1>15 DEF Book, u

(* The fields of a file, of the queue, of an engine and of the tab that    *)
(* handlers set.                                                           *)
LEMMA OneHas ==
    ASSUME NEW A, NEW a \in A
    PROVE  <<a>> \in Seq(A) /\ \A x : Contains(<<a>>, x) <=> x = a
<1>1. <<a>> \in Seq(A) /\ Len(<<a>>) = 1 /\ <<a>>[1] = a
  OBVIOUS
<1> QED
  BY <1>1 DEF Contains

LEMMA ItemsSet ==
    ASSUME NEW w \in Worlds, NEW x \in [Items -> ItemRec]
    PROVE  LET u == [w EXCEPT !.item = x]
           IN  u \in Worlds /\ u.item = x /\ u.q = w.q /\ u.tab = w.tab /\ u.net = w.net
BY DEF Worlds

Placed(w, i, p) == [w EXCEPT !.item[i].where = p]
Faulted(w, i) == [w EXCEPT !.item[i].errors = @ + 1]

LEMMA WhereSet ==
    ASSUME NEW w \in Worlds, NEW i \in Items, NEW p \in Places
    PROVE  LET u == Placed(w, i, p)
           IN  /\ u \in Worlds
               /\ u.item[i] = [w.item[i] EXCEPT !.where = p]
               /\ \A j \in Items \ {i} : u.item[j] = w.item[j]
               /\ u.q = w.q /\ u.tab = w.tab /\ u.net = w.net
<1>1. [w.item[i] EXCEPT !.where = p] \in ItemRec /\ w.item \in [Items -> ItemRec]
  BY DEF Worlds, ItemRec
<1>2. PICK x : x = [w.item EXCEPT ![i] = [w.item[i] EXCEPT !.where = p]]
  OBVIOUS
<1>3. Placed(w, i, p) = [w EXCEPT !.item = x]
  BY <1>2 DEF Placed, Worlds
<1>4. x \in [Items -> ItemRec] /\ x[i] = [w.item[i] EXCEPT !.where = p]
      /\ \A j \in Items \ {i} : x[j] = w.item[j]
  BY <1>1, <1>2
<1>5. PICK u : u = [w EXCEPT !.item = x]
  OBVIOUS
<1>6. u \in Worlds /\ u.item = x /\ u.q = w.q /\ u.tab = w.tab /\ u.net = w.net
  BY <1>4, <1>5, ItemsSet
<1> QED
  BY <1>3, <1>4, <1>5, <1>6

LEMMA ErrorsSet ==
    ASSUME NEW w \in Worlds, NEW i \in Items
    PROVE  LET u == Faulted(w, i)
           IN  /\ u \in Worlds
               /\ u.item[i] = [w.item[i] EXCEPT !.errors = w.item[i].errors + 1]
               /\ \A j \in Items \ {i} : u.item[j] = w.item[j]
               /\ u.q = w.q /\ u.tab = w.tab /\ u.net = w.net
<1>1. PICK n \in Nat : n = w.item[i].errors + 1
  BY ItemType
<1>2. [w.item[i] EXCEPT !.errors = n] \in ItemRec /\ w.item \in [Items -> ItemRec]
  BY DEF Worlds, ItemRec
<1>3. PICK x : x = [w.item EXCEPT ![i] = [w.item[i] EXCEPT !.errors = n]]
  OBVIOUS
<1>4. Faulted(w, i) = [w EXCEPT !.item = x]
  BY <1>1, <1>3 DEF Faulted, Worlds
<1>5. x \in [Items -> ItemRec] /\ x[i] = [w.item[i] EXCEPT !.errors = n]
      /\ \A j \in Items \ {i} : x[j] = w.item[j]
  BY <1>2, <1>3
<1>6. PICK u : u = [w EXCEPT !.item = x]
  OBVIOUS
<1>7. u \in Worlds /\ u.item = x /\ u.q = w.q /\ u.tab = w.tab /\ u.net = w.net
  BY <1>5, <1>6, ItemsSet
<1> QED
  BY <1>1, <1>4, <1>5, <1>6, <1>7

LEMMA RemoveSet ==
    ASSUME NEW w \in Worlds, NEW i \in Items
    PROVE  LET u == ToBeRemoved(w, i)
           IN  /\ u \in Worlds
               /\ u.item[i] = [w.item[i] EXCEPT !.remove = TRUE]
               /\ \A j \in Items \ {i} : u.item[j] = w.item[j]
               /\ u.q = w.q /\ u.tab = w.tab /\ u.net = w.net
<1>1. [w.item[i] EXCEPT !.remove = TRUE] \in ItemRec /\ w.item \in [Items -> ItemRec]
  BY DEF Worlds, ItemRec
<1>2. PICK x : x = [w.item EXCEPT ![i] = [w.item[i] EXCEPT !.remove = TRUE]]
  OBVIOUS
<1>3. ToBeRemoved(w, i) = [w EXCEPT !.item = x]
  BY <1>2 DEF ToBeRemoved, Worlds
<1>4. x \in [Items -> ItemRec] /\ x[i] = [w.item[i] EXCEPT !.remove = TRUE]
      /\ \A j \in Items \ {i} : x[j] = w.item[j]
  BY <1>1, <1>2
<1>5. PICK u : u = [w EXCEPT !.item = x]
  OBVIOUS
<1>6. u \in Worlds /\ u.item = x /\ u.q = w.q /\ u.tab = w.tab /\ u.net = w.net
  BY <1>4, <1>5, ItemsSet
<1> QED
  BY <1>3, <1>4, <1>5, <1>6

LEMMA ItemFieldsKept ==
    ASSUME NEW r \in ItemRec, NEW p \in Places, NEW n \in Nat, NEW b \in BOOLEAN
    PROVE  /\ [r EXCEPT !.where = p].active = r.active /\ [r EXCEPT !.where = p].where = p
           /\ [r EXCEPT !.where = p].sent = r.sent /\ [r EXCEPT !.where = p].remove = r.remove
           /\ [r EXCEPT !.errors = n].active = r.active /\ [r EXCEPT !.errors = n].where = r.where
           /\ [r EXCEPT !.errors = n].sent = r.sent
           /\ [r EXCEPT !.remove = b].active = r.active /\ [r EXCEPT !.remove = b].where = r.where
           /\ [r EXCEPT !.remove = b].sent = r.sent
BY DEF ItemRec

LEMMA CountSet ==
    ASSUME NEW w \in Worlds, NEW x \in Int
    PROVE  LET u == [w EXCEPT !.q.count = x]
           IN  /\ u \in Worlds
               /\ u.item = w.item /\ u.tab = w.tab /\ u.net = w.net
               /\ SameMode(w, u) /\ SameEngines(w, u) /\ SameLists(w, u)
               /\ u.q.count = x /\ u.q.busy = w.q.busy /\ u.q.down = w.q.down /\ u.q.up = w.q.up
               /\ u.q.servers = w.q.servers /\ u.q.refreshed = w.q.refreshed
<1> DEFINE c == [w.q EXCEPT !.count = x]
<1>1. c \in QueueRec
  BY DEF Worlds, QueueRec
<1>2. [w EXCEPT !.q.count = x] = [w EXCEPT !.q = c]
  BY DEF Worlds
<1>3. c.count = x /\ c.engines = w.q.engines /\ c.data = w.q.data /\ c.busy = w.q.busy
      /\ c.down = w.q.down /\ c.up = w.q.up /\ c.now = w.q.now /\ c.later = w.q.later
      /\ c.mode = w.q.mode /\ c.inside = w.q.inside /\ c.sending = w.q.sending
      /\ c.refused = w.q.refused /\ c.servers = w.q.servers /\ c.refreshed = w.q.refreshed
  BY DEF Worlds, QueueRec
<1> HIDE DEF c
<1> QED
  BY <1>1, <1>2, <1>3, WorldOf DEF c, SameMode, SameEngines, SameLists

(* A file is put back.                                                     *)
SameRest(w, u) ==
    u.tab = w.tab /\ u.net = w.net /\ SameMode(w, u) /\ SameEngines(w, u) /\ SameCounts(w, u)
    /\ u.q.refreshed = w.q.refreshed

LEMMA ListsViews ==
    ASSUME NEW w \in Worlds, NEW now \in [Sites -> Seq(Items)], NEW later \in [Sites -> Seq(Items)]
    PROVE  LET u == WithLists(w, now, later)
           IN  /\ u \in Worlds /\ u.item = w.item /\ SameRest(w, u)
               /\ u.q.now = now /\ u.q.later = later /\ u.q.servers = w.q.servers
<1> DEFINE u == WithLists(w, now, later)
<1>1. u \in Worlds /\ u.item = w.item /\ u.tab = w.tab /\ u.net = w.net
      /\ u.q = [w.q EXCEPT !.now = now, !.later = later]
  BY ListsSet, ZenonT(40)
<1> HIDE DEF u
<1>2. w.q \in QueueRec
  BY WorldParts
<1> QED
  BY <1>1, <1>2 DEF QueueRec, u, SameRest, SameMode, SameEngines, SameCounts

LEMMA PutBackViews ==
    ASSUME NEW w \in Worlds, NEW i \in Items
    PROVE  LET u == QueueImmediateFile(w, i)
           IN  /\ u \in Worlds /\ u.item = w.item /\ SameRest(w, u) /\ u.q.servers = w.q.servers
               /\ \A s \in Sites, j \in Items : Listed(u, s, j) <=> Listed(w, s, j)
<1>1. PICK s \in Sites : s = SiteOf[i]
  BY QueueAssumption
<1>2. w.q.now \in [Sites -> Seq(Items)] /\ w.q.later \in [Sites -> Seq(Items)]
  BY WorldParts
<1>3. CASE ~Contains(w.q.now[s], i)
  BY <1>1, <1>3 DEF QueueImmediateFile, SameRest, SameMode, SameEngines, SameCounts
<1>4. CASE Contains(w.q.now[s], i)
  <2>1. PICK a \in Seq(Items) : a = w.q.now[s]
    BY <1>2
  <2>2. PICK b \in Seq(Items) : b = w.q.later[s]
    BY <1>2
  <2>3. PICK a1 \in Seq(Items) : a1 = Without(a, i) /\ \A y : Contains(a1, y) <=> Contains(a, y) /\ y # i
    BY WithoutHas
  <2>4. PICK l \in Seq(Items) : l = <<i>>
    BY OneHas
  <2>5. \A y : Contains(l, y) <=> y = i
    BY <2>4, OneHas
  <2>6. PICK b1 \in Seq(Items) : b1 = <<i>> \o b
    BY <2>4, ConcatProperties
  <2>7. \A y : Contains(b1, y) <=> y = i \/ Contains(b, y)
    BY <2>4, <2>5, <2>6, ConcatHas
  <2> DEFINE now == [w.q.now EXCEPT ![s] = a1]
             later == [w.q.later EXCEPT ![s] = b1]
  <2>8. QueueImmediateFile(w, i) = WithLists(w, now, later)
    <3>1. now = [w.q.now EXCEPT ![s] = Without(@, i)] /\ later = [w.q.later EXCEPT ![s] = <<i>> \o @]
      BY <1>2, <2>1, <2>2, <2>3, <2>6
    <3> HIDE DEF now, later
    <3> QED
      BY <1>1, <1>4, <3>1 DEF QueueImmediateFile
  <2>9. now \in [Sites -> Seq(Items)] /\ later \in [Sites -> Seq(Items)]
        /\ now[s] = a1 /\ later[s] = b1
        /\ \A t \in Sites \ {s} : now[t] = w.q.now[t] /\ later[t] = w.q.later[t]
    BY <1>2
  <2> HIDE DEF now, later
  <2> DEFINE u == WithLists(w, now, later)
  <2>10. /\ u \in Worlds /\ u.item = w.item /\ SameRest(w, u)
         /\ u.q.now = now /\ u.q.later = later /\ u.q.servers = w.q.servers
    BY <2>9, ListsViews, ZenonT(40)
  <2> HIDE DEF u
  <2>11. ASSUME NEW t \in Sites, NEW j \in Items PROVE Listed(u, t, j) <=> Listed(w, t, j)
    <3>1. CASE t # s
      BY <2>9, <2>10, <3>1 DEF Listed, Children
    <3>2. CASE t = s
      <4>1. Listed(u, t, j) <=> Contains(a1, j) \/ Contains(b1, j)
        <5>1. Children(u, t) = a1 \o b1
          BY <2>9, <2>10, <3>2 DEF Children
        <5> QED
          BY <5>1, ConcatHas DEF Listed
      <4>2. Listed(w, t, j) <=> Contains(a, j) \/ Contains(b, j)
        BY <2>1, <2>2, <3>2, ConcatHas DEF Listed, Children
      <4>3. Contains(a, i)
        BY <1>4, <2>1
      <4> QED
        BY <2>3, <2>7, <4>1, <4>2, <4>3
    <3> QED
      BY <3>1, <3>2
  <2> QED
    BY <2>8, <2>10, <2>11 DEF u
<1> QED
  BY <1>3, <1>4

LEMMA ServersViews ==
    ASSUME NEW w \in Worlds, NEW x \in Seq(Sites)
    PROVE  LET u == [w EXCEPT !.q.servers = x]
           IN  /\ u \in Worlds /\ u.item = w.item /\ SameRest(w, u) /\ SameLists(w, u)
               /\ u.q.servers = x
BY ServersSet DEF SameRest, SameMode

LEMMA RemoveFrom ==
    ASSUME NEW w \in Worlds, NEW i \in Items, NEW p \in Places, NEW now, NEW later,
           now \in [Sites -> Seq(Items)], later \in [Sites -> Seq(Items)]
    PROVE  LET u == Placed(WithLists(w, now, later), i, p)
           IN  /\ u \in Worlds /\ SameRest(w, u) /\ u.q.now = now /\ u.q.later = later
               /\ u.item[i] = [w.item[i] EXCEPT !.where = p]
               /\ \A j \in Items \ {i} : u.item[j] = w.item[j]
<1> DEFINE v == WithLists(w, now, later)
<1>1. v \in Worlds /\ v.item = w.item /\ SameRest(w, v) /\ v.q.now = now /\ v.q.later = later
      /\ v.q.servers = w.q.servers
  BY ListsViews
<1> HIDE DEF v
<1> DEFINE u == Placed(v, i, p)
<1>2. u \in Worlds /\ u.item[i] = [v.item[i] EXCEPT !.where = p]
      /\ (\A j \in Items \ {i} : u.item[j] = v.item[j])
      /\ u.q = v.q /\ u.tab = v.tab /\ u.net = v.net
  BY <1>1, WhereSet
<1> HIDE DEF u
<1>3. SameRest(w, u) /\ u.q.now = now /\ u.q.later = later
  BY <1>1, <1>2 DEF SameRest, SameMode, SameEngines, SameCounts
<1> QED
  BY <1>1, <1>2, <1>3 DEF u, v

LEMMA RemoveViews ==
    ASSUME NEW w \in Worlds, NEW i \in Items, NEW p \in Places
    PROVE  LET u == RemoveItem(w, i, p)
           IN  /\ u \in Worlds /\ SameRest(w, u)
               /\ u.item[i] = [w.item[i] EXCEPT !.where = p]
               /\ \A j \in Items \ {i} : u.item[j] = w.item[j]
               /\ \A s \in Sites, j \in Items :
                    Listed(u, s, j) <=> Listed(w, s, j) /\ ~(s = SiteOf[i] /\ j = i)
<1> DEFINE s == SiteOf[i]
           a == w.q.now[s]
           b == w.q.later[s]
           a1 == Without(a, i)
           b1 == Without(b, i)
           now == [w.q.now EXCEPT ![s] = a1]
           later == [w.q.later EXCEPT ![s] = b1]
<1>1. s \in Sites
  BY QueueAssumption
<1>2. w.q.now \in [Sites -> Seq(Items)] /\ w.q.later \in [Sites -> Seq(Items)]
      /\ a \in Seq(Items) /\ b \in Seq(Items)
  BY <1>1, WorldParts
<1>3. a1 \in Seq(Items) /\ \A y : Contains(a1, y) <=> Contains(a, y) /\ y # i
  BY <1>2, WithoutHas
<1>4. b1 \in Seq(Items) /\ \A y : Contains(b1, y) <=> Contains(b, y) /\ y # i
  BY <1>2, WithoutHas
<1>5. now \in [Sites -> Seq(Items)] /\ later \in [Sites -> Seq(Items)]
      /\ now[s] = a1 /\ later[s] = b1
      /\ \A t \in Sites \ {s} : now[t] = w.q.now[t] /\ later[t] = w.q.later[t]
  <2> HIDE DEF a1, b1, s
  <2> QED
    BY <1>1, <1>2, <1>3, <1>4
<1>6. now = [w.q.now EXCEPT ![s] = Without(@, i)] /\ later = [w.q.later EXCEPT ![s] = Without(@, i)]
  <2> HIDE DEF s
  <2> QED
    BY <1>1, <1>2
<1> DEFINE u2 == Placed(WithLists(w, now, later), i, p)
           u3 == [u2 EXCEPT !.q.servers = Without(u2.q.servers, s)]
           u == IF Children(u2, s) = <<>> THEN u3 ELSE u2
<1>7. RemoveItem(w, i, p) = u
  <2>1. [u2 EXCEPT !.q.servers = Without(@, s)] = u3
    OBVIOUS
  <2> HIDE DEF u3, now, later, a, b, a1, b1
  <2> QED
    BY <1>6, <2>1 DEF RemoveItem, Placed
<1> HIDE DEF now, later, a, b, a1, b1
<1>8. /\ u2 \in Worlds /\ SameRest(w, u2) /\ u2.q.now = now /\ u2.q.later = later
      /\ u2.item[i] = [w.item[i] EXCEPT !.where = p]
      /\ \A j \in Items \ {i} : u2.item[j] = w.item[j]
  BY <1>5, RemoveFrom
<1> HIDE DEF u2
<1>9. Without(u2.q.servers, s) \in Seq(Sites)
  BY <1>8, QueueType, WithoutHas
<1>10. u3 \in Worlds /\ u3.item = u2.item /\ SameRest(u2, u3) /\ SameLists(u2, u3)
  BY <1>8, <1>9, ServersViews
<1> HIDE DEF u3
<1>11. u \in Worlds /\ u.item = u2.item /\ SameRest(w, u) /\ u.q.now = now /\ u.q.later = later
  BY <1>8, <1>10 DEF SameRest, SameMode, SameEngines, SameCounts, SameLists
<1> HIDE DEF u
<1>12. ASSUME NEW t \in Sites, NEW j \in Items
       PROVE Listed(u, t, j) <=> Listed(w, t, j) /\ ~(t = s /\ j = i)
  <2> HIDE DEF s
  <2>1. CASE t # s
    BY <1>5, <1>11, <2>1 DEF Listed, Children
  <2>2. CASE t = s
    <3>1. Children(u, t) = a1 \o b1
      BY <1>5, <1>11, <2>2 DEF Children
    <3>2. Children(w, t) = a \o b
      BY <2>2 DEF Children, a, b
    <3>3. Listed(u, t, j) <=> Contains(a1, j) \/ Contains(b1, j)
      BY <1>3, <1>4, <3>1, ConcatHas DEF Listed
    <3>4. Listed(w, t, j) <=> Contains(a, j) \/ Contains(b, j)
      BY <1>2, <3>2, ConcatHas DEF Listed
    <3> QED
      BY <1>3, <1>4, <2>2, <3>3, <3>4
  <2> QED
    BY <2>1, <2>2
<1> QED
  BY <1>7, <1>8, <1>11, <1>12

Reasons == {"reset", "retry", "failure", "success", "remove"}
Stays(reason) == reason \in {"reset", "retry"}
OutTo(reason) == IF reason = "failure" THEN "failed" ELSE IF reason = "success" THEN "done" ELSE "gone"

LEMMA MovedViews ==
    ASSUME NEW w \in Worlds, NEW i \in Items, NEW reason \in Reasons
    PROVE  LET u == Moved(w, i, reason)
           IN  /\ u \in Worlds /\ SameRest(w, u)
               /\ u.item[i] = IF Stays(reason) THEN w.item[i]
                              ELSE [w.item[i] EXCEPT !.where = OutTo(reason)]
               /\ \A j \in Items \ {i} : u.item[j] = w.item[j]
               /\ \A s \in Sites, j \in Items :
                    Listed(u, s, j) <=> Listed(w, s, j) /\ (Stays(reason) \/ ~(s = SiteOf[i] /\ j = i))
<1>1. CASE reason = "reset"
  BY <1>1, PutBackViews DEF Moved, Stays
<1>2. CASE reason = "retry"
  BY <1>2 DEF Moved, Stays, SameRest, SameMode, SameEngines, SameCounts
<1>3. CASE reason = "failure"
  <2>1. ~Stays(reason) /\ OutTo(reason) = "failed" /\ Moved(w, i, reason) = RemoveItem(w, i, "failed")
        /\ "failed" \in Places
    BY <1>3 DEF Moved, Stays, OutTo, Places
  <2> QED
    BY <2>1, RemoveViews
<1>4. CASE reason = "success"
  <2>1. ~Stays(reason) /\ OutTo(reason) = "done" /\ Moved(w, i, reason) = RemoveItem(w, i, "done")
        /\ "done" \in Places
    BY <1>4 DEF Moved, Stays, OutTo, Places
  <2> QED
    BY <2>1, RemoveViews
<1>5. CASE reason = "remove"
  <2>1. ~Stays(reason) /\ OutTo(reason) = "gone" /\ Moved(w, i, reason) = RemoveItem(w, i, "gone")
        /\ "gone" \in Places
    BY <1>5 DEF Moved, Stays, OutTo, Places
  <2> QED
    BY <2>1, RemoveViews
<1> QED
  BY <1>1, <1>2, <1>3, <1>4, <1>5 DEF Reasons

Freed(d) == [d EXCEPT !.active = FALSE, !.item = NoItem, !.state = "none"]

(* What the item of an engine that is reset becomes.                       *)
Left(r, reason) ==
    IF Stays(reason) THEN [r EXCEPT !.active = FALSE]
    ELSE [[r EXCEPT !.active = FALSE] EXCEPT !.where = OutTo(reason)]

LEMMA FreedType ==
    ASSUME NEW d \in DataRec
    PROVE  /\ Freed(d) \in DataRec /\ ~Freed(d).active /\ Freed(d).item = NoItem
           /\ Freed(d).state = "none" /\ Freed(d).site = d.site /\ Freed(d).timer = d.timer
BY DEF Freed, DataRec, Files, States

(* What Reset does with an engine that has no file, and with one that has. *)
FreedData(w, u, id) ==
    /\ u \in Worlds /\ u.net = w.net /\ SameMode(w, u) /\ u.q.engines = w.q.engines
    /\ u.q.refreshed = w.q.refreshed
    /\ u.tab = (IF w.q.data[id].state = "waitprimary" THEN ReleaseEngine(w).tab ELSE w.tab)
    /\ u.q.data = [w.q.data EXCEPT ![id] = Freed(w.q.data[id])]
    /\ u.q.count = w.q.count - 1

FreedOfNone(w, u) ==
    /\ u.item = w.item /\ SameLists(w, u)
    /\ u.q.busy = w.q.busy /\ u.q.down = w.q.down /\ u.q.up = w.q.up

FreedOf(w, u, i, reason) ==
    /\ u.q.busy = [w.q.busy EXCEPT ![SiteOf[i]] = w.q.busy[SiteOf[i]] - 1]
    /\ u.q.down = w.q.down - (IF Download(i) THEN 1 ELSE 0)
    /\ u.q.up = w.q.up - (IF Download(i) THEN 0 ELSE 1)
    /\ u.item[i] = Left(w.item[i], reason)
    /\ \A j \in Items \ {i} : u.item[j] = w.item[j]
    /\ \A s \in Sites, j \in Items :
         Listed(u, s, j) <=> Listed(w, s, j) /\ (Stays(reason) \/ ~(s = SiteOf[i] /\ j = i))

(* The last two steps of Reset.                                            *)
LEMMA FreedAfter ==
    ASSUME NEW w \in Worlds, NEW v \in Worlds, NEW id \in Engines,
           v.net = w.net, v.tab = w.tab, SameMode(w, v), SameEngines(w, v),
           v.q.refreshed = w.q.refreshed, v.q.count = w.q.count - 1
    PROVE  LET d == w.q.data[id]
               u == WithData(IF d.state = "waitprimary" THEN ReleaseEngine(v) ELSE v, id, Freed(d))
           IN  /\ FreedData(w, u, id)
               /\ u.item = v.item /\ SameLists(v, u)
               /\ u.q.busy = v.q.busy /\ u.q.down = v.q.down /\ u.q.up = v.q.up
<1> DEFINE d == w.q.data[id]
           r == IF d.state = "waitprimary" THEN ReleaseEngine(v) ELSE v
           u == WithData(r, id, Freed(d))
<1>1. Freed(d) \in DataRec
  BY DataType, FreedType
<1>2. r \in Worlds /\ r.item = v.item /\ r.net = v.net /\ r.q = v.q
      /\ r.tab = (IF d.state = "waitprimary" THEN ReleaseEngine(w).tab ELSE w.tab)
  <2>1. ReleaseEngine(v).tab = ReleaseEngine(w).tab
    <3>1. ReleaseEngine(v).tab = (IF ~v.tab.wants THEN v.tab
                                  ELSE [v.tab EXCEPT !.wants = FALSE, !.lock = FALSE])
      BY ReleaseSet
    <3>2. ReleaseEngine(w).tab = (IF ~w.tab.wants THEN w.tab
                                  ELSE [w.tab EXCEPT !.wants = FALSE, !.lock = FALSE])
      BY ReleaseSet
    <3> QED
      BY <3>1, <3>2
  <2> QED
    BY <2>1, ReleaseSet
<1> HIDE DEF r
<1>3. u \in Worlds /\ u.q = [r.q EXCEPT !.data = [r.q.data EXCEPT ![id] = Freed(d)]]
      /\ u.item = r.item /\ u.tab = r.tab /\ u.net = r.net
  BY <1>1, <1>2, DataSet
<1> HIDE DEF u
<1>4. r.q \in QueueRec
  BY <1>2, WorldParts
<1>5. u.q.data = [r.q.data EXCEPT ![id] = Freed(d)] /\ u.q.engines = r.q.engines
      /\ SameMode(r, u) /\ SameLists(r, u) /\ u.q.busy = r.q.busy /\ u.q.down = r.q.down
      /\ u.q.up = r.q.up /\ u.q.count = r.q.count /\ u.q.refreshed = r.q.refreshed
  BY <1>3, <1>4 DEF QueueRec, SameMode, SameLists
<1>6. FreedData(w, u, id)
  BY <1>2, <1>3, <1>5 DEF FreedData, SameMode, SameEngines
<1>7. u.item = v.item /\ SameLists(v, u) /\ u.q.busy = v.q.busy /\ u.q.down = v.q.down
      /\ u.q.up = v.q.up
  BY <1>2, <1>3, <1>5 DEF SameLists
<1> QED
  BY <1>6, <1>7 DEF u, r

LEMMA ResetViews ==
    ASSUME NEW w \in Worlds, NEW id \in Engines, NEW reason \in Reasons
    PROVE  LET i == w.q.data[id].item
               u == Reset(w, id, reason)
           IN  /\ FreedData(w, u, id)
               /\ i = NoItem => FreedOfNone(w, u)
               /\ i # NoItem => FreedOf(w, u, i, reason)
<1> DEFINE d == w.q.data[id]
           i == d.item
           v1 == ResetCounts(w, id)
           v == IF i = NoItem THEN v1 ELSE Moved(v1, i, reason)
           u == WithData(IF d.state = "waitprimary" THEN ReleaseEngine(v) ELSE v, id, Freed(d))
<1>1. Reset(w, id, reason) = u
  BY DEF Reset, Data, Freed
<1>2. w.q.count \in Int /\ w.q.down \in Int /\ w.q.up \in Int /\ w.q.busy \in [Sites -> Int]
  BY QueueType
<1>3. CASE i = NoItem
  <2> DEFINE c == w.q.count - 1
  <2>1. c \in Int
    BY <1>2
  <2>2. v = [w EXCEPT !.q.count = c]
    BY <1>3 DEF ResetCounts, Data
  <2>3. /\ v \in Worlds
        /\ v.item = w.item /\ v.tab = w.tab /\ v.net = w.net
        /\ SameMode(w, v) /\ SameEngines(w, v) /\ SameLists(w, v)
        /\ v.q.count = c /\ v.q.busy = w.q.busy /\ v.q.down = w.q.down /\ v.q.up = w.q.up
        /\ v.q.refreshed = w.q.refreshed
    <3> HIDE DEF v, c
    <3> QED
      BY <2>1, <2>2, CountSet
  <2> HIDE DEF v
  <2>4. FreedData(w, u, id) /\ u.item = v.item /\ SameLists(v, u)
        /\ u.q.busy = v.q.busy /\ u.q.down = v.q.down /\ u.q.up = v.q.up
    BY <2>3, FreedAfter
  <2> HIDE DEF u
  <2>5. FreedOfNone(w, u)
    BY <2>3, <2>4 DEF FreedOfNone, SameLists
  <2> QED
    BY <1>1, <1>3, <2>4, <2>5
<1>4. CASE i # NoItem
  <2> DEFINE a == SetActiveItem(w, i, FALSE)
  <2>1. i \in Items
    BY <1>4, DataType DEF Files
  <2>2. PICK no \in BOOLEAN : no = FALSE
    OBVIOUS
  <2>3. a \in Worlds /\ a.item = [w.item EXCEPT ![i] = [w.item[i] EXCEPT !.active = FALSE]]
        /\ a.q = w.q /\ a.tab = w.tab /\ a.net = w.net
    <3>1. SetActiveItem(w, i, no) \in Worlds
          /\ SetActiveItem(w, i, no).item = [w.item EXCEPT ![i] = [w.item[i] EXCEPT !.active = no]]
          /\ SetActiveItem(w, i, no).q = w.q /\ SetActiveItem(w, i, no).tab = w.tab
          /\ SetActiveItem(w, i, no).net = w.net
      <4> HIDE DEF d, i
      <4> QED
        BY <2>1, ItemSet
    <3> QED
      BY <2>2, <3>1
  <2> HIDE DEF a
  <2>4. v1 = Counted(a, i, -1)
    BY <1>4 DEF ResetCounts, Data, a
  <2>4a. PICK m \in {1, -1} : m = -1
    OBVIOUS
  <2> DEFINE x == Counted(a, i, m)
             s == SiteOf[i]
  <2>5. s \in Sites
    <3> HIDE DEF i, d
    <3> QED
      BY <2>1, QueueAssumption
  <2>6. /\ x \in Worlds /\ x.item = a.item /\ x.tab = a.tab /\ x.net = a.net
        /\ SameMode(a, x) /\ SameEngines(a, x) /\ SameLists(a, x)
        /\ x.q.refreshed = a.q.refreshed /\ CountedIn(a.q, x.q, i, m)
    <3> HIDE DEF i, d
    <3> QED
      BY <2>1, <2>3, CountedViews
  <2>8. v1 = x
    BY <2>4, <2>4a
  <2> HIDE DEF x
  <2>7. x \in Worlds /\ x.item = a.item /\ x.tab = w.tab /\ x.net = w.net
    BY <2>3, <2>6
  <2> HIDE DEF v1, s, i, d
  <2>9. /\ x.q.busy = [w.q.busy EXCEPT ![s] = w.q.busy[s] + m] /\ x.q.count = w.q.count + m
        /\ x.q.down = w.q.down + (IF Download(i) THEN m ELSE 0)
        /\ x.q.up = w.q.up + (IF Download(i) THEN 0 ELSE m)
    BY <2>3, <2>6 DEF CountedIn, s
  <2>10. SameMode(w, x) /\ SameEngines(w, x) /\ SameLists(w, x) /\ x.q.refreshed = w.q.refreshed
    BY <2>3, <2>6 DEF SameMode, SameEngines, SameLists
  <2>11. v = Moved(x, i, reason)
    BY <1>4, <2>8
  <2> HIDE DEF v
  <2>12. /\ v \in Worlds /\ SameRest(x, v)
         /\ v.item[i] = IF Stays(reason) THEN x.item[i]
                        ELSE [x.item[i] EXCEPT !.where = OutTo(reason)]
         /\ \A j \in Items \ {i} : v.item[j] = x.item[j]
         /\ \A t \in Sites, j \in Items :
              Listed(v, t, j) <=> Listed(x, t, j) /\ (Stays(reason) \/ ~(t = SiteOf[i] /\ j = i))
    BY <2>1, <2>7, <2>11, MovedViews
  <2>13. v.net = w.net /\ v.tab = w.tab /\ SameMode(w, v) /\ SameEngines(w, v)
         /\ v.q.refreshed = w.q.refreshed /\ SameCounts(x, v)
    BY <2>7, <2>10, <2>12 DEF SameRest, SameMode, SameEngines, SameCounts
  <2>14. v.q.count = w.q.count - 1
    BY <1>2, <2>4a, <2>9, <2>13 DEF SameCounts
  <2>15. FreedData(w, u, id) /\ u.item = v.item /\ SameLists(v, u)
         /\ u.q.busy = v.q.busy /\ u.q.down = v.q.down /\ u.q.up = v.q.up
    BY <2>12, <2>13, <2>14, FreedAfter, ZenonT(40) DEF d
  <2> HIDE DEF u
  <2>16. u.item[i] = Left(w.item[i], reason) /\ \A j \in Items \ {i} : u.item[j] = w.item[j]
    <3>1. x.item[i] = [w.item[i] EXCEPT !.active = FALSE] /\ \A j \in Items \ {i} : x.item[j] = w.item[j]
      BY <2>1, <2>3, <2>7, WorldParts
    <3> QED
      BY <2>12, <2>15, <3>1 DEF Left
  <2>17. ASSUME NEW t \in Sites, NEW j \in Items
         PROVE Listed(u, t, j) <=> Listed(w, t, j) /\ (Stays(reason) \/ ~(t = SiteOf[i] /\ j = i))
    <3>1. Listed(u, t, j) <=> Listed(v, t, j)
      BY <2>15 DEF Listed, Children, SameLists
    <3>2. Listed(x, t, j) <=> Listed(w, t, j)
      BY <2>10 DEF Listed, Children, SameLists
    <3> QED
      BY <2>12, <3>1, <3>2
  <2>18. /\ u.q.busy = [w.q.busy EXCEPT ![SiteOf[i]] = w.q.busy[SiteOf[i]] - 1]
         /\ u.q.down = w.q.down - (IF Download(i) THEN 1 ELSE 0)
         /\ u.q.up = w.q.up - (IF Download(i) THEN 0 ELSE 1)
    <3>1. /\ u.q.busy = [w.q.busy EXCEPT ![s] = w.q.busy[s] + m]
          /\ u.q.down = w.q.down + (IF Download(i) THEN m ELSE 0)
          /\ u.q.up = w.q.up + (IF Download(i) THEN 0 ELSE m)
      BY <2>9, <2>13, <2>15 DEF SameCounts
    <3>2. w.q.busy[s] + m = w.q.busy[s] - 1 /\ w.q.down + m = w.q.down - 1 /\ w.q.up + m = w.q.up - 1
          /\ w.q.down + 0 = w.q.down - 0 /\ w.q.up + 0 = w.q.up - 0
      BY <1>2, <2>4a, <2>5
    <3> QED
      BY <3>1, <3>2 DEF s
  <2>19. FreedOf(w, u, i, reason)
    BY <2>16, <2>17, <2>18 DEF FreedOf
  <2> QED
    BY <1>1, <1>4, <2>15, <2>19 DEF i, d
<1> QED
  BY <1>3, <1>4

LEMMA LeftFields ==
    ASSUME NEW r \in ItemRec, NEW reason \in Reasons
    PROVE  /\ Left(r, reason) \in ItemRec /\ ~Left(r, reason).active
           /\ Left(r, reason).where = (IF Stays(reason) THEN r.where ELSE OutTo(reason))
           /\ Left(r, reason).sent = r.sent
           /\ OutTo(reason) \in {"failed", "done", "gone"}
<1>1. OutTo(reason) \in {"failed", "done", "gone"} /\ OutTo(reason) \in Places
  BY DEF OutTo, Places
<1>2. PICK x : x = [r EXCEPT !.active = FALSE]
  OBVIOUS
<1>3. x \in ItemRec /\ ~x.active /\ x.where = r.where /\ x.sent = r.sent
  BY <1>2 DEF ItemRec
<1>4. PICK p \in Places : p = OutTo(reason)
  BY <1>1
<1>5. PICK y : y = [x EXCEPT !.where = p]
  OBVIOUS
<1>6. y \in ItemRec /\ y.active = x.active /\ y.where = p /\ y.sent = x.sent
  BY <1>3, <1>5 DEF ItemRec
<1>7. Left(r, reason) = IF Stays(reason) THEN x ELSE y
  BY <1>2, <1>4, <1>5 DEF Left
<1> QED
  BY <1>1, <1>3, <1>4, <1>6, <1>7

LEMMA BookReset ==
    ASSUME NEW w, Book(w), NEW id \in Engines, w.q.data[id].active, NEW reason \in Reasons
    PROVE  Book(Reset(w, id, reason))
<1> DEFINE u == Reset(w, id, reason)
           d == w.q.data[id]
           i == d.item
           next == [w.q.data EXCEPT ![id] = Freed(d)]
<1>1. w \in Worlds /\ ListOK(w) /\ DataOK(w) /\ ItemsOK(w) /\ ListsOK(w) /\ CountsOK(w) /\ ToOK(w)
  BY DEF Book
<1>2. /\ FreedData(w, u, id)
      /\ i = NoItem => FreedOfNone(w, u)
      /\ i # NoItem => FreedOf(w, u, i, reason)
  BY <1>1, ResetViews
<1> HIDE DEF u
<1>3. w.q.data \in [Engines -> DataRec] /\ w.item \in [Items -> ItemRec] /\ d \in DataRec
      /\ w.q.busy \in [Sites -> Int]
      /\ w.q.count \in Int /\ w.q.down \in Int /\ w.q.up \in Int
  BY <1>1, WorldParts, QueueType
<1>4. Freed(d) \in DataRec /\ ~Freed(d).active /\ Freed(d).item = NoItem
      /\ Freed(d).state = "none" /\ Freed(d).site = d.site /\ Freed(d).timer = d.timer
  BY <1>3, FreedType
<1>5. next[id] = Freed(d) /\ \A e \in Engines \ {id} : next[e] = w.q.data[e]
  BY <1>3
<1>6. u \in Worlds /\ u.q.data = next /\ u.q.engines = w.q.engines /\ u.net = w.net
  BY <1>2 DEF FreedData
<1>7. d.active /\ HasData(w, id) /\ GoodData(id, d)
  BY <1>1 DEF DataOK, NewData
<1>8. i \in Items \/ i = NoItem
  BY <1>1, DataType DEF Files
<1>9. NoItem \notin Items
  BY QueueAssumption
<1> HIDE DEF next
<1>10. ListOK(u)
  BY <1>1, <1>6 DEF ListOK, NumOwn, HasData
<1>11. DataOK(u)
  <2>1. GoodData(id, Freed(d))
    BY <1>4, <1>7 DEF GoodData
  <2> QED
    BY <1>1, <1>5, <1>6, <1>7, <2>1 DEF DataOK, HasData
<1>12. ASSUME NEW j \in Items, j # i
       PROVE  /\ u.item[j] = w.item[j]
              /\ Listed(u, SiteOf[j], j) <=> Listed(w, SiteOf[j], j)
              /\ \A s \in Sites : Listed(u, s, j) <=> Listed(w, s, j)
  <2>1. SiteOf[j] \in Sites
    BY QueueAssumption
  <2>2. CASE i = NoItem
    BY <1>2, <2>1, <2>2 DEF FreedOfNone, SameLists, Listed, Children
  <2>3. CASE i # NoItem
    BY <1>2, <1>12, <2>1, <2>3 DEF FreedOf
  <2> QED
    BY <2>2, <2>3
<1>13. i # NoItem => /\ ~u.item[i].active
                     /\ u.item[i].where = "queue" <=> Stays(reason)
                     /\ \A s \in Sites : Listed(u, s, i) <=> Listed(w, s, i) /\ (Stays(reason) \/ s # SiteOf[i])
  <2> SUFFICES ASSUME i # NoItem
               PROVE  /\ ~u.item[i].active
                      /\ u.item[i].where = "queue" <=> Stays(reason)
                      /\ \A s \in Sites : Listed(u, s, i) <=> Listed(w, s, i) /\ (Stays(reason) \/ s # SiteOf[i])
    OBVIOUS
  <2>1. i \in Items /\ w.item[i] \in ItemRec /\ u.item[i] = Left(w.item[i], reason)
    BY <1>2, <1>3, <1>8 DEF FreedOf
  <2>2. w.item[i].where = "queue"
    BY <1>1 DEF ItemsOK
  <2>3. ~u.item[i].active /\ (u.item[i].where = "queue" <=> Stays(reason))
    BY <2>1, <2>2, LeftFields
  <2>4. \A s \in Sites : Listed(u, s, i) <=> Listed(w, s, i) /\ (Stays(reason) \/ s # SiteOf[i])
    BY <1>2, <2>1 DEF FreedOf
  <2> QED
    BY <2>3, <2>4
<1> HIDE DEF d, i
<1>14. ItemsOK(u)
  <2>1. ASSUME NEW e \in Engines, u.q.data[e].item # NoItem
        PROVE  /\ e # id /\ u.q.data[e] = w.q.data[e] /\ w.q.data[e].item \in Items
               /\ w.q.data[e].item # i
    <3>1. e # id /\ u.q.data[e] = w.q.data[e]
      BY <1>4, <1>5, <1>6, <2>1
    <3>2. w.q.data[e].item \in Items
      BY <1>1, <2>1, <3>1, DataType DEF Files
    <3>3. w.q.data[e].item # i
      BY <1>1, <1>9, <3>1, <3>2 DEF ItemsOK, d, i
    <3> QED
      BY <3>1, <3>2, <3>3
  <2>2. ASSUME NEW e \in Engines, u.q.data[e].item # NoItem
        PROVE  LET c == u.q.data[e]
               IN  c.site = SiteOf[c.item] /\ u.item[c.item].active /\ u.item[c.item].where = "queue"
    <3>1. PICK j \in Items : j = w.q.data[e].item /\ j = u.q.data[e].item /\ j # i
      BY <2>1, <2>2
    <3>2. w.q.data[e].site = SiteOf[j] /\ w.item[j].active /\ w.item[j].where = "queue"
      BY <1>1, <1>9, <3>1 DEF ItemsOK
    <3>3. u.item[j] = w.item[j] /\ u.q.data[e].site = w.q.data[e].site
      BY <1>12, <2>1, <2>2, <3>1
    <3> QED
      BY <3>1, <3>2, <3>3
  <2>3. ASSUME NEW a \in Engines, NEW b \in Engines, u.q.data[a].item # NoItem,
               u.q.data[a].item = u.q.data[b].item
        PROVE  a = b
    BY <1>1, <2>1, <2>3 DEF ItemsOK
  <2>4. ASSUME NEW j \in Items, u.item[j].active
        PROVE  \E e \in Engines : u.q.data[e].item = j
    <3>1. j # i
      BY <1>8, <1>9, <1>13, <2>4
    <3>2. PICK e \in Engines : w.q.data[e].item = j
      BY <1>1, <1>12, <2>4, <3>1 DEF ItemsOK
    <3>3. e # id
      BY <3>1, <3>2 DEF d, i
    <3> QED
      BY <1>5, <1>6, <3>2, <3>3
  <2> QED
    BY <2>2, <2>3, <2>4 DEF ItemsOK
<1>15. ListsOK(u)
  <2>1. ASSUME NEW j \in Items
        PROVE  /\ u.item[j].where = "queue" <=> Listed(u, SiteOf[j], j)
               /\ \A s \in Sites : Listed(u, s, j) => SiteOf[j] = s
    <3>1. CASE j # i
      BY <1>1, <1>12, <3>1 DEF ListsOK
    <3>2. CASE j = i
      <4>1. i # NoItem /\ SiteOf[i] \in Sites /\ i \in Items
        BY <1>9, <3>2, QueueAssumption
      <4>2. Listed(w, SiteOf[i], i) /\ \A s \in Sites : Listed(w, s, i) => SiteOf[i] = s
        BY <1>1, <4>1 DEF ListsOK, ItemsOK, d, i
      <4> QED
        BY <1>13, <3>2, <4>1, <4>2
    <3> QED
      BY <3>1, <3>2
  <2> QED
    BY <2>1 DEF ListsOK
<1>16. CountsOK(u)
  <2>1. Cardinality(Busy(next)) = Cardinality(Busy(w.q.data)) - 1
    <3>1. Cardinality(Busy(next)) = Cardinality(Busy(w.q.data)) + (IF Freed(d).active THEN 1 ELSE 0)
                                     - (IF w.q.data[id].active THEN 1 ELSE 0)
      BY <1>3, <1>4, BusyChanges DEF next
    <3>2. Cardinality(Busy(w.q.data)) \in Nat
      BY EnginesFinite DEF Busy
    <3> QED
      BY <1>4, <3>1, <3>2
  <2>2. ASSUME NEW I \in SUBSET Items
        PROVE  Cardinality(Having(next, I)) = Cardinality(Having(w.q.data, I)) - (IF i \in I THEN 1 ELSE 0)
    <3>1. Cardinality(Having(next, I)) = Cardinality(Having(w.q.data, I)) + (IF Freed(d).item \in I THEN 1 ELSE 0)
                                     - (IF w.q.data[id].item \in I THEN 1 ELSE 0)
      BY <1>3, <1>4, HavingChanges, SMTT(40) DEF next
    <3>2. Cardinality(Having(w.q.data, I)) \in Nat
      BY EnginesFinite DEF Having
    <3>3. Freed(d).item \notin I /\ w.q.data[id].item = i
      BY <1>4, <1>9 DEF d, i
    <3> QED
      BY <3>1, <3>2, <3>3
  <2>3. Downloads \in SUBSET Items /\ Uploads \in SUBSET Items /\ \A t \in Sites : FilesOf(t) \in SUBSET Items
    BY DEF Downloads, Uploads, FilesOf
  <2>4. u.q.count = Cardinality(Busy(next))
    BY <1>1, <1>2, <2>1 DEF CountsOK, FreedData
  <2>5. CASE i = NoItem
    <3>1. \A I \in SUBSET Items : Cardinality(Having(w.q.data, I)) \in Nat /\ i \notin I
      BY <1>9, <2>5, EnginesFinite DEF Having
    <3>2. \A I \in SUBSET Items : Cardinality(Having(next, I)) = Cardinality(Having(w.q.data, I))
      BY <2>2, <3>1
    <3> QED
      BY <1>1, <1>2, <1>6, <2>3, <2>4, <2>5, <3>2 DEF CountsOK, FreedOfNone
  <2>6. CASE i # NoItem
    <3>1. i \in Items /\ SiteOf[i] \in Sites
      BY <1>8, <2>6, QueueAssumption
    <3>2. (i \in Downloads <=> Download(i)) /\ (i \in Uploads <=> ~Download(i))
          /\ \A t \in Sites : i \in FilesOf(t) <=> t = SiteOf[i]
      BY <3>1 DEF Downloads, Uploads, FilesOf
    <3>3. u.q.down = Cardinality(Having(next, Downloads)) /\ u.q.up = Cardinality(Having(next, Uploads))
      BY <1>1, <1>2, <1>3, <2>2, <2>3, <2>6, <3>2 DEF CountsOK, FreedOf
    <3>4. ASSUME NEW t \in Sites PROVE u.q.busy[t] = Cardinality(Having(next, FilesOf(t)))
      <4>1. w.q.busy[t] = Cardinality(Having(w.q.data, FilesOf(t))) /\ w.q.busy[t] \in Int
        BY <1>1, <1>3 DEF CountsOK
      <4>2. u.q.busy[t] = w.q.busy[t] - (IF t = SiteOf[i] THEN 1 ELSE 0)
        BY <1>2, <1>3, <2>6, <3>1, <4>1 DEF FreedOf
      <4> QED
        BY <2>2, <2>3, <3>2, <4>1, <4>2
    <3> QED
      BY <1>6, <2>4, <3>3, <3>4 DEF CountsOK
  <2> QED
    BY <2>5, <2>6
<1>17. ToOK(u)
  BY <1>1, <1>6 DEF ToOK
<1> QED
  BY <1>6, <1>10, <1>11, <1>14, <1>15, <1>16, <1>17 DEF Book, u

(* What the interface sets beside the book.                                *)
LEMMA BookSets ==
    ASSUME NEW w, Book(w)
    PROVE  /\ \A x \in BOOLEAN : Book([w EXCEPT !.q.inside = x])
           /\ \A x \in Engines \cup {NoEngine} : Book([w EXCEPT !.q.sending = x])
           /\ \A x \in 0 .. 2 : Book([w EXCEPT !.q.mode = x])
           /\ \A x \in BOOLEAN : Book([w EXCEPT !.q.refreshed = x])
           /\ \A x \in BOOLEAN : Book([w EXCEPT !.q.refused = x])
           /\ \A x \in Seq(Sites) : Book([w EXCEPT !.q.servers = x])
<1>1. w \in Worlds /\ ToOK(w)
  BY DEF Book
<1>2. ASSUME NEW u, u \in Worlds, SameEngines(w, u), SameCounts(w, u), SameLists(w, u),
             u.item = w.item, u.net = w.net
      PROVE  Book(u)
  <2>1. ToOK(u)
    BY <1>1, <1>2 DEF ToOK
  <2> QED
    BY <1>2, <2>1, BookFrame
<1>3. ASSUME NEW x \in BOOLEAN PROVE Book([w EXCEPT !.q.inside = x])
  <2> DEFINE u == [w EXCEPT !.q.inside = x]
  <2>1. u \in Worlds /\ SameEngines(w, u) /\ SameCounts(w, u) /\ SameLists(w, u)
        /\ u.item = w.item /\ u.net = w.net
    BY <1>1, InsideSet
  <2> HIDE DEF u
  <2>2. Book(u)
    BY <1>2, <2>1
  <2> QED
    BY <2>2 DEF u
<1>4. ASSUME NEW x \in Engines \cup {NoEngine} PROVE Book([w EXCEPT !.q.sending = x])
  <2> DEFINE u == [w EXCEPT !.q.sending = x]
  <2>1. u \in Worlds /\ SameEngines(w, u) /\ SameCounts(w, u) /\ SameLists(w, u)
        /\ u.item = w.item /\ u.net = w.net
    BY <1>1, SendingSet
  <2> HIDE DEF u
  <2>2. Book(u)
    BY <1>2, <2>1
  <2> QED
    BY <2>2 DEF u
<1>5. ASSUME NEW x \in 0 .. 2 PROVE Book([w EXCEPT !.q.mode = x])
  <2> DEFINE u == [w EXCEPT !.q.mode = x]
  <2>1. u \in Worlds /\ SameEngines(w, u) /\ SameCounts(w, u) /\ SameLists(w, u)
        /\ u.item = w.item /\ u.net = w.net
    BY <1>1, ModeSet
  <2> HIDE DEF u
  <2>2. Book(u)
    BY <1>2, <2>1
  <2> QED
    BY <2>2 DEF u
<1>6. ASSUME NEW x \in BOOLEAN PROVE Book([w EXCEPT !.q.refreshed = x])
  <2> DEFINE u == [w EXCEPT !.q.refreshed = x]
  <2>1. u \in Worlds /\ SameEngines(w, u) /\ SameCounts(w, u) /\ SameLists(w, u)
        /\ u.item = w.item /\ u.net = w.net
    BY <1>1, RefreshedSet
  <2> HIDE DEF u
  <2>2. Book(u)
    BY <1>2, <2>1
  <2> QED
    BY <2>2 DEF u
<1>7. ASSUME NEW x \in BOOLEAN PROVE Book([w EXCEPT !.q.refused = x])
  <2> DEFINE u == [w EXCEPT !.q.refused = x]
  <2>1. u \in Worlds /\ SameEngines(w, u) /\ SameCounts(w, u) /\ SameLists(w, u)
        /\ u.item = w.item /\ u.net = w.net
    BY <1>1, RefusedSet
  <2> HIDE DEF u
  <2>2. Book(u)
    BY <1>2, <2>1
  <2> QED
    BY <2>2 DEF u
<1>8. ASSUME NEW x \in Seq(Sites) PROVE Book([w EXCEPT !.q.servers = x])
  <2> DEFINE u == [w EXCEPT !.q.servers = x]
  <2>1. u \in Worlds /\ SameEngines(w, u) /\ SameCounts(w, u) /\ SameLists(w, u)
        /\ u.item = w.item /\ u.net = w.net
    BY <1>1, ServersSet
  <2> HIDE DEF u
  <2>2. Book(u)
    BY <1>2, <2>1
  <2> QED
    BY <2>2 DEF u
<1> QED
  BY <1>3, <1>4, <1>5, <1>6, <1>7, <1>8

(* What happens to the tab and to the engines.                             *)
LEMMA BookOutside ==
    ASSUME NEW w, NEW u, Book(w), u \in Worlds, u.q = w.q, u.item = w.item, ToOK(u)
    PROVE  Book(u)
BY BookFrame DEF SameEngines, SameCounts, SameLists

LEMMA BookRelease ==
    ASSUME NEW w, Book(w)
    PROVE  Book(ReleaseEngine(w)) /\ Book(RequestExclusiveEngine(w))
           /\ Book(GrantExclusiveEngineRequest(w))
<1>1. w \in Worlds /\ ToOK(w)
  BY DEF Book
<1>2. ASSUME NEW u, u \in Worlds, u.net = w.net, u.q = w.q, u.item = w.item
      PROVE  Book(u)
  <2>1. ToOK(u)
    BY <1>1, <1>2 DEF ToOK
  <2> QED
    BY <1>2, <2>1, BookOutside
<1>3. ReleaseEngine(w) \in Worlds /\ ReleaseEngine(w).net = w.net /\ ReleaseEngine(w).q = w.q
      /\ ReleaseEngine(w).item = w.item
  BY <1>1, ReleaseSet
<1>4. RequestExclusiveEngine(w) \in Worlds /\ RequestExclusiveEngine(w).net = w.net
      /\ RequestExclusiveEngine(w).q = w.q /\ RequestExclusiveEngine(w).item = w.item
  BY <1>1, RequestSet
<1>5. GrantExclusiveEngineRequest(w) \in Worlds /\ GrantExclusiveEngineRequest(w).net = w.net
      /\ GrantExclusiveEngineRequest(w).q = w.q /\ GrantExclusiveEngineRequest(w).item = w.item
  BY <1>1, GrantSet
<1> QED
  BY <1>2, <1>3, <1>4, <1>5

LEMMA BookAdvance ==
    ASSUME NEW w, Book(w)
    PROVE  Book(AdvanceQueue(w))
<1>1. PICK yes \in BOOLEAN : yes = TRUE
  OBVIOUS
<1>2. Book([w EXCEPT !.q.inside = yes])
  BY BookSets
<1> QED
  BY <1>1, <1>2 DEF AdvanceQueue

(* More engines, and nothing else.                                         *)
Grown(w, u) ==
    /\ Book(u) /\ u.item = w.item /\ u.tab = w.tab /\ u.net = w.net
    /\ SameCounts(w, u) /\ SameLists(w, u) /\ SameMode(w, u)
    /\ u.q.refreshed = w.q.refreshed /\ u.q.servers = w.q.servers
    /\ \A e \in Engines :
         /\ HasData(w, e) => HasData(u, e) /\ u.q.data[e] = w.q.data[e]
         /\ ~HasData(w, e) /\ HasData(u, e) => u.q.data[e] = NewData(NewState(e))

LEMMA GrownSelf ==
    ASSUME NEW w, Book(w)
    PROVE  Grown(w, w)
BY DEF Grown, SameCounts, SameLists, SameMode

LEMMA GrownTwice ==
    ASSUME NEW w, NEW v, NEW u, Grown(w, v), Grown(v, u)
    PROVE  Grown(w, u)
BY DEF Grown, SameCounts, SameLists, SameMode

LEMMA GrownAdded ==
    ASSUME NEW w, Book(w), NEW id \in Engines, ~HasData(w, id),
           id # TabEngine => id = NumOwn(w) + 1
    PROVE  LET u == AddEngine(w, id, NewState(id))
           IN  /\ Grown(w, u) /\ HasData(u, id) /\ u.q.data[id] = NewData(NewState(id))
               /\ \A e \in Engines \ {id} : HasData(u, e) => HasData(w, e)
<1> DEFINE u == AddEngine(w, id, NewState(id))
           d == NewData(NewState(id))
<1>1. w \in Worlds
  BY DEF Book
<1>2. NewState(id) \in States
  BY DEF NewState, States
<1>3. u \in Worlds /\ u.item = w.item /\ u.tab = w.tab /\ u.net = w.net
      /\ u.q = [w.q EXCEPT !.data = [w.q.data EXCEPT ![id] = d], !.engines = Append(w.q.engines, id)]
  BY <1>1, <1>2, EngineAdded, ZenonT(40)
<1>4. Book(u) /\ \A e \in Engines : HasData(u, e) <=> HasData(w, e) \/ e = id
  BY BookAdded
<1> HIDE DEF u, d
<1>5. w.q \in QueueRec /\ w.q.data \in [Engines -> DataRec]
  BY <1>1, WorldParts
<1>6. u.q.data = [w.q.data EXCEPT ![id] = d] /\ SameCounts(w, u) /\ SameLists(w, u) /\ SameMode(w, u)
      /\ u.q.refreshed = w.q.refreshed /\ u.q.servers = w.q.servers
  BY <1>3, <1>5 DEF QueueRec, SameCounts, SameLists, SameMode
<1>7. u.q.data[id] = d /\ \A e \in Engines \ {id} : u.q.data[e] = w.q.data[e]
  BY <1>5, <1>6
<1>8. Grown(w, u)
  BY <1>3, <1>4, <1>6, <1>7 DEF Grown, d
<1> QED
  BY <1>4, <1>7, <1>8 DEF u, d

(* Whether engine e may be taken for a file, and whether it is connected   *)
(* to the site of it.                                                      *)
Idle(w, e, all) == HasData(w, e) /\ ~w.q.data[e].active /\ (e = TabEngine => all)
There(w, e, s) == IsConnected(w, e) /\ w.q.data[e].site = s

LEMMA IdleEngine ==
    ASSUME NEW w, Book(w), NEW s, NEW all \in BOOLEAN
    PROVE  LET r == GetIdleEngine(w, s, all)
           IN  /\ Grown(w, r.w)
               /\ r.id # NoEngine => r.id \in Engines /\ Idle(r.w, r.id, all)
               /\ (\E e \in Engines : Idle(w, e, all) /\ There(w, e, s)) =>
                      r.id # NoEngine /\ There(r.w, r.id, s)
               /\ HasData(r.w, TabEngine) => HasData(w, TabEngine)
<1> DEFINE e == w.q.engines
           idle == {k \in DOMAIN e : ~Data(w, e[k]).active /\ (e[k] = TabEngine => all)}
           there == {k \in idle : IsConnected(w, e[k]) /\ Data(w, e[k]).site = s}
           own == Len(e) - (IF HasData(w, TabEngine) THEN 1 ELSE 0)
           counted == IF Data(w, TabEngine).active THEN Len(e) ELSE own
           r == GetIdleEngine(w, s, all)
<1>1. w \in Worlds /\ ListOK(w) /\ DataOK(w)
  BY DEF Book
<1>2. e \in Seq(Engines) /\ DOMAIN e = 1 .. Len(e) /\ Len(e) \in Nat
  BY <1>1, WorldParts
<1>3. \A k \in DOMAIN e : e[k] \in Engines /\ HasData(w, e[k])
  BY <1>2 DEF HasData, Contains
<1>4. idle \subseteq Nat /\ there \subseteq idle
  BY <1>2
<1>5. \A k \in idle : e[k] \in Engines /\ Idle(w, e[k], all)
  BY <1>3 DEF Idle, Data
<1>6. r = IF there # {} THEN [w |-> w, id |-> e[Min(there)]]
          ELSE IF idle # {} THEN [w |-> w, id |-> e[Min(idle)]]
          ELSE IF counted < MaxTransfers
          THEN [w |-> AddEngine(w, own + 1, "none"), id |-> own + 1]
          ELSE [w |-> w, id |-> NoEngine]
  BY DEF GetIdleEngine
<1>7. \A x \in Engines : x \in Nat /\ x # NoEngine
  BY QueueAssumption DEF Engines, TabEngine, NoEngine
<1>8. Grown(w, w)
  BY GrownSelf
<1> HIDE DEF r
<1>9. CASE there # {}
  <2>1. Min(there) \in there
    BY <1>4, <1>9, MinOf
  <2>2. r.w = w /\ r.id = e[Min(there)]
    BY <1>6, <1>9
  <2> HIDE DEF idle
  <2>3. Idle(w, r.id, all) /\ There(w, r.id, s) /\ r.id \in Engines
    BY <1>5, <2>1, <2>2 DEF There, Data
  <2> QED
    BY <1>7, <1>8, <2>2, <2>3 DEF r
<1>10. ASSUME there = {}, NEW x \in Engines, Idle(w, x, all), There(w, x, s)
       PROVE  FALSE
  <2>1. PICK k \in DOMAIN e : e[k] = x
    BY <1>2, <1>10 DEF Idle, HasData, Contains
  <2>2. k \in there
    BY <1>10, <2>1 DEF Idle, There, Data
  <2> QED
    BY <1>10, <2>2
<1>11. CASE there = {} /\ idle # {}
  <2>1. Min(idle) \in idle
    BY <1>4, <1>11, MinOf
  <2>2. r.w = w /\ r.id = e[Min(idle)]
    BY <1>6, <1>11
  <2> HIDE DEF idle, there
  <2>3. Idle(w, r.id, all) /\ r.id \in Engines
    BY <1>5, <2>1, <2>2
  <2> QED
    BY <1>7, <1>8, <1>10, <1>11, <2>2, <2>3 DEF r
<1>12. CASE there = {} /\ idle = {} /\ counted < MaxTransfers
  <2> DEFINE id == own + 1
  <2>1. own \in Nat
    <3>1. HasData(w, TabEngine) => Len(e) >= 1
      BY <1>2 DEF HasData, Contains
    <3> QED
      BY <1>2, <3>1
  <2>2. own =< counted
    <3>1. own =< Len(e)
      <4>1. PICK n \in Nat : n = Len(e)
        BY <1>2
      <4>2. own = n - 1 \/ own = n - 0
        BY <4>1
      <4> HIDE DEF own
      <4> QED
        BY <2>1, <4>1, <4>2
    <3> HIDE DEF own
    <3> QED
      BY <2>1, <3>1
  <2>3. id \in Engines /\ id # TabEngine
    <3> HIDE DEF own, counted
    <3>1. counted \in Nat
      BY <1>2, <2>1 DEF counted
    <3> QED
      BY <1>12, <2>1, <2>2, <3>1, QueueAssumption DEF Engines, TabEngine
  <2>4. id = NumOwn(w) + 1 /\ NumOwn(w) = own
    BY DEF NumOwn
  <2>5. ~HasData(w, id)
    <3> HIDE DEF own
    <3>1. ~(id =< NumOwn(w)) /\ id \in Own
      BY <2>1, <2>3, <2>4 DEF Own
    <3> QED
      BY <1>1, <3>1 DEF ListOK
  <2>6. NewState(id) = "none"
    BY <2>3 DEF NewState
  <2>7. r.w = AddEngine(w, id, "none") /\ r.id = id
    BY <1>6, <1>12
  <2> HIDE DEF id, own, counted, idle, there
  <2>8. Grown(w, r.w) /\ HasData(r.w, id) /\ r.w.q.data[id] = NewData("none")
        /\ \A x \in Engines \ {id} : HasData(r.w, x) => HasData(w, x)
    BY <2>3, <2>4, <2>5, <2>6, <2>7, GrownAdded
  <2>9. Idle(r.w, id, all)
    BY <2>3, <2>8 DEF Idle, NewData
  <2>10. HasData(r.w, TabEngine) => HasData(w, TabEngine)
    BY <2>3, <2>8, QueueAssumption DEF Engines, TabEngine
  <2> QED
    BY <1>10, <1>12, <2>3, <2>7, <2>8, <2>9, <2>10 DEF r
<1>13. CASE there = {} /\ idle = {} /\ ~(counted < MaxTransfers)
  <2>1. r.w = w /\ r.id = NoEngine
    BY <1>6, <1>13
  <2> HIDE DEF idle, there
  <2> QED
    BY <1>8, <1>10, <1>13, <2>1 DEF r
<1> QED
  BY <1>9, <1>11, <1>12, <1>13

-----------------------------------------------------------------------------
(* TryStartNextTransfer.                                                   *)
Suits(w, id, s) ==
    id \in Engines /\ Idle(w, id, TRUE) /\ (There(w, id, s) \/ (id = TabEngine /\ w.tab.site = s))

LEMMA GrownKeeps ==
    ASSUME NEW w, NEW u, Grown(w, u)
    PROVE  /\ \A e \in Engines, all \in BOOLEAN : Idle(w, e, all) => Idle(u, e, all)
           /\ \A s : \A e \in Engines : HasData(w, e) /\ There(w, e, s) => There(u, e, s)
           /\ \A s : \A e \in Engines : Suits(w, e, s) => Suits(u, e, s)
           /\ \A s, i : Listed(u, s, i) <=> Listed(w, s, i)
           /\ \A s : LimitReached(u, s) <=> LimitReached(w, s)
<1>1. \A e \in Engines : HasData(w, e) => HasData(u, e) /\ u.q.data[e] = w.q.data[e]
  BY DEF Grown
<1>2. u.item = w.item /\ u.tab = w.tab /\ u.net = w.net /\ u.q.now = w.q.now /\ u.q.later = w.q.later
      /\ u.q.busy = w.q.busy
  BY DEF Grown, SameCounts, SameLists
<1>3. \A e \in Engines, all \in BOOLEAN : Idle(w, e, all) => Idle(u, e, all)
  BY <1>1 DEF Idle
<1>4. \A s : \A e \in Engines : HasData(w, e) /\ There(w, e, s) => There(u, e, s)
  BY <1>1, <1>2 DEF There, IsConnected
<1>5. \A s : \A e \in Engines : Suits(w, e, s) => Suits(u, e, s)
  <2> SUFFICES ASSUME NEW s, NEW e \in Engines, Suits(w, e, s) PROVE Suits(u, e, s)
    OBVIOUS
  <2>1. PICK yes \in BOOLEAN : yes = TRUE
    OBVIOUS
  <2>2. Idle(w, e, yes) /\ HasData(w, e)
    BY <2>1 DEF Suits, Idle
  <2>3. Idle(u, e, yes)
    BY <1>3, <2>2
  <2>4. There(u, e, s) \/ (e = TabEngine /\ u.tab.site = s)
    BY <1>2, <1>4, <2>2 DEF Suits
  <2> QED
    BY <2>1, <2>3, <2>4 DEF Suits
<1>6. \A s, i : Listed(u, s, i) <=> Listed(w, s, i)
  BY <1>2 DEF Listed, Children
<1>7. \A s : LimitReached(u, s) <=> LimitReached(w, s)
  BY <1>2 DEF LimitReached, Connections
<1> QED
  BY <1>3, <1>4, <1>5, <1>6, <1>7

LEMMA CanStart ==
    ASSUME NEW w, Book(w), NEW s \in Sites
    PROVE  LET c == CanStartTransfer(w, s)
           IN  /\ Grown(w, c.w)
               /\ c.ok \in BOOLEAN
               /\ c.ok /\ c.id # NoEngine => Suits(c.w, c.id, s)
               /\ c.ok /\ c.id = NoEngine => ~LimitReached(w, s)
<1> DEFINE r == GetIdleEngine(w, s, TRUE)
           c == CanStartTransfer(w, s)
<1>1. PICK yes \in BOOLEAN : yes = TRUE
  OBVIOUS
<1>2. Grown(w, r.w) /\ (r.id # NoEngine => r.id \in Engines /\ Idle(r.w, r.id, TRUE))
  <2>1. LET x == GetIdleEngine(w, s, yes)
        IN  Grown(w, x.w) /\ (x.id # NoEngine => x.id \in Engines /\ Idle(x.w, x.id, yes))
    BY IdleEngine
  <2> QED
    BY <1>1, <2>1
<1>3. TabEngine \in Engines /\ TabEngine # NoEngine
  BY QueueAssumption DEF Engines, TabEngine, NoEngine
<1> HIDE DEF r
<1>4. CASE ~LimitReached(w, s)
  <2>1. c = Answer(w, TRUE, NoEngine)
    BY <1>4 DEF CanStartTransfer
  <2>2. c.w = w /\ c.ok = TRUE /\ c.id = NoEngine
    BY <2>1 DEF Answer
  <2> HIDE DEF c
  <2> QED
    BY <1>4, <2>2, GrownSelf DEF c
<1>5. CASE LimitReached(w, s)
  <2>1. c = AtLimit(r.w, s, r.id)
    BY <1>5 DEF CanStartTransfer, r
  <2> HIDE DEF c
  <2> DEFINE v == r.w
  <2>2. Book(v) /\ v \in Worlds
    BY <1>2 DEF Grown, Book
  <2>3. CASE r.id # NoEngine /\ Data(v, r.id).site = s /\ IsConnected(v, r.id)
    <3>1. c = Answer(v, TRUE, r.id)
      BY <2>1, <2>3 DEF AtLimit
    <3>2. c.w = v /\ c.ok = TRUE /\ c.id = r.id
      BY <3>1 DEF Answer
    <3>3. Suits(c.w, c.id, s)
      BY <1>2, <2>3, <3>2 DEF Suits, There, Data
    <3> QED
      BY <1>2, <2>3, <3>2, <3>3 DEF c
  <2>4. CASE ~(r.id # NoEngine /\ Data(v, r.id).site = s /\ IsConnected(v, r.id))
             /\ (v.tab.site # s \/ Connections(v, s) > 1)
    <3>1. c = Answer(v, FALSE, NoEngine)
      BY <2>1, <2>4 DEF AtLimit
    <3>2. c.w = v /\ c.ok = FALSE
      BY <3>1 DEF Answer
    <3> QED
      BY <1>2, <3>2 DEF c
  <2>5. CASE ~(r.id # NoEngine /\ Data(v, r.id).site = s /\ IsConnected(v, r.id))
             /\ ~(v.tab.site # s \/ Connections(v, s) > 1) /\ HasData(v, TabEngine)
    <3>1. c = Answer(v, ~Data(v, TabEngine).active, TabEngine)
      BY <2>1, <2>5 DEF AtLimit
    <3>2. c.w = v /\ c.ok = ~v.q.data[TabEngine].active /\ c.id = TabEngine
      BY <3>1 DEF Answer, Data
    <3>3. v.q.data[TabEngine].active \in BOOLEAN
      BY <1>3, <2>2, DataType
    <3>4. c.ok => Suits(c.w, c.id, s)
      BY <1>3, <2>5, <3>2 DEF Suits, Idle
    <3> QED
      BY <1>2, <1>3, <3>2, <3>3, <3>4 DEF c
  <2>6. CASE ~(r.id # NoEngine /\ Data(v, r.id).site = s /\ IsConnected(v, r.id))
             /\ ~(v.tab.site # s \/ Connections(v, s) > 1) /\ ~HasData(v, TabEngine)
    <3> DEFINE u == AddEngine(v, TabEngine, "waitprimary")
    <3>1. c = Answer(u, TRUE, TabEngine)
      BY <2>1, <2>6 DEF AtLimit
    <3>2. c.w = u /\ c.ok = TRUE /\ c.id = TabEngine
      BY <3>1 DEF Answer
    <3>3. NewState(TabEngine) = "waitprimary"
      BY DEF NewState
    <3>4. PICK tabs \in Engines : tabs = TabEngine
      BY <1>3
    <3>5. Grown(v, AddEngine(v, tabs, NewState(tabs))) /\ HasData(AddEngine(v, tabs, NewState(tabs)), tabs)
          /\ AddEngine(v, tabs, NewState(tabs)).q.data[tabs] = NewData(NewState(tabs))
      <4> HIDE DEF v
      <4> QED
        BY <2>2, <2>6, <3>4, GrownAdded
    <3>6. Grown(v, u) /\ HasData(u, TabEngine) /\ u.q.data[TabEngine] = NewData("waitprimary")
      BY <3>3, <3>4, <3>5
    <3> HIDE DEF u
    <3>7. Grown(w, u)
      BY <1>2, <3>6, GrownTwice
    <3>8. ~u.q.data[TabEngine].active
      BY <3>6 DEF NewData
    <3>9. u.tab.site = s
      BY <2>6, <3>6 DEF Grown
    <3>10. Suits(u, TabEngine, s)
      BY <1>3, <3>6, <3>8, <3>9 DEF Suits, Idle
    <3> QED
      BY <1>3, <3>2, <3>7, <3>10 DEF c
  <2> QED
    BY <2>3, <2>4, <2>5, <2>6
<1> QED
  BY <1>4, <1>5

LEMMA IdleChild ==
    ASSUME NEW w \in Worlds, NEW s \in Sites
    PROVE  LET i == GetIdleChild(w, s)
           IN  i # NoItem => i \in Items /\ Listed(w, s, i) /\ ~w.item[i].active
<1> DEFINE a == w.q.now[s]
           b == w.q.later[s]
           files == IF w.q.mode = 1 THEN w.q.now[s] ELSE Children(w, s)
           idle == {k \in DOMAIN files :
                    /\ ~w.item[files[k]].active
                    /\ IF Download(files[k]) THEN DownloadsLeft(w) ELSE UploadsLeft(w)}
           i == GetIdleChild(w, s)
<1>1. a \in Seq(Items) /\ b \in Seq(Items)
  BY WorldParts
<1>2. files \in Seq(Items) /\ \A x : Contains(files, x) => Listed(w, s, x)
  <2>1. a \o b \in Seq(Items)
    BY <1>1, ConcatProperties
  <2>2. \A x : Contains(a \o b, x) <=> Contains(a, x) \/ Contains(b, x)
    BY <1>1, ConcatHas
  <2>3. files = a \/ files = a \o b
    BY DEF Children
  <2> HIDE DEF files, a, b
  <2>4. \A x : Listed(w, s, x) <=> Contains(a \o b, x)
    BY DEF Listed, Children, a, b
  <2> QED
    BY <1>1, <2>1, <2>2, <2>3, <2>4
<1>3. i = IF idle = {} THEN NoItem ELSE files[Min(idle)]
  BY DEF GetIdleChild
<1> HIDE DEF i, files
<1>4. CASE idle = {}
  BY <1>3, <1>4 DEF i
<1>5. CASE idle # {}
  <2>1. DOMAIN files = 1 .. Len(files) /\ Len(files) \in Nat
    BY <1>2
  <2>2. Min(idle) \in idle
    <3>1. idle \subseteq Nat
      BY <2>1
    <3> HIDE DEF idle
    <3> QED
      BY <1>5, <3>1, MinOf
  <2>3. PICK k \in 1 .. Len(files) : k = Min(idle) /\ ~w.item[files[k]].active
    BY <2>1, <2>2
  <2>4. i = files[k]
    BY <1>3, <1>5, <2>3
  <2> HIDE DEF idle
  <2>5. i \in Items /\ Contains(files, i)
    BY <1>2, <2>3, <2>4 DEF Contains
  <2> QED
    BY <1>2, <2>3, <2>4, <2>5 DEF i
<1> QED
  BY <1>4, <1>5

(* What BestMatch finds in world w.                                        *)
MatchRec == [w : Worlds, item : Files, id : Engines \cup {NoEngine}]

MatchOK(w, m) ==
    /\ Grown(w, m.w)
    /\ m.item # NoItem =>
         /\ Listed(m.w, SiteOf[m.item], m.item) /\ ~m.w.item[m.item].active
         /\ m.id # NoEngine => Suits(m.w, m.id, SiteOf[m.item])
         /\ m.id = NoEngine => ~LimitReached(w, SiteOf[m.item])

Matches(w) == {m \in MatchRec : MatchOK(w, m)}

LEMMA AskedMatches ==
    ASSUME NEW w, Book(w), NEW m \in Matches(w), NEW s \in Sites
    PROVE  Asked(m, s) \in Matches(w)
<1> DEFINE c == CanStartTransfer(m.w, s)
           i == GetIdleChild(m.w, s)
           r == Asked(m, s)
<1>1. m \in MatchRec /\ Grown(w, m.w) /\ Book(m.w) /\ m.w \in Worlds
  BY DEF Matches, MatchOK, Grown, Book
<1>2. /\ Grown(m.w, c.w) /\ c.ok \in BOOLEAN
      /\ c.ok /\ c.id # NoEngine => Suits(c.w, c.id, s)
      /\ c.ok /\ c.id = NoEngine => ~LimitReached(m.w, s)
  BY <1>1, CanStart
<1>3. i # NoItem => i \in Items /\ Listed(m.w, s, i) /\ ~m.w.item[i].active
  BY <1>1, IdleChild
<1> HIDE DEF c, i
<1>4. r = IF c.ok /\ i # NoItem /\ m.item = NoItem THEN [w |-> c.w, item |-> i, id |-> c.id]
          ELSE [w |-> c.w, item |-> m.item, id |-> m.id]
  BY DEF Asked, c, i
<1> HIDE DEF r
<1>5. Grown(w, c.w) /\ c.w \in Worlds
  BY <1>1, <1>2, GrownTwice DEF Grown, Book
<1>6. CASE c.ok /\ i # NoItem /\ m.item = NoItem
  <2>1. r.w = c.w /\ r.item = i /\ r.id = c.id
    BY <1>4, <1>6
  <2>2. SiteOf[i] = s
    BY <1>1, <1>3, <1>6 DEF Book, ListsOK
  <2>3. Listed(c.w, s, i) /\ ~c.w.item[i].active
    BY <1>2, <1>3, <1>6, GrownKeeps DEF Grown
  <2>4. c.id # NoEngine => c.id \in Engines
    BY <1>2, <1>6 DEF Suits
  <2>5. LimitReached(w, s) <=> LimitReached(m.w, s)
    BY <1>1, GrownKeeps
  <2>6. r \in MatchRec
    BY <1>3, <1>4, <1>5, <1>6, <2>4 DEF MatchRec, Files
  <2>7. MatchOK(w, r)
    BY <1>2, <1>5, <1>6, <2>1, <2>2, <2>3, <2>5 DEF MatchOK
  <2> QED
    BY <2>6, <2>7 DEF Matches, r
<1>7. CASE ~(c.ok /\ i # NoItem /\ m.item = NoItem)
  <2>1. r.w = c.w /\ r.item = m.item /\ r.id = m.id
    BY <1>4, <1>7
  <2>2. MatchOK(w, m)
    BY DEF Matches
  <2>3. r \in MatchRec
    <3>1. m.item \in Files /\ m.id \in Engines \cup {NoEngine}
      BY <1>1 DEF MatchRec
    <3>2. r = [w |-> c.w, item |-> m.item, id |-> m.id]
      BY <1>4, <1>7
    <3> QED
      BY <1>5, <3>1, <3>2 DEF MatchRec
  <2>4. ASSUME m.item # NoItem
        PROVE  /\ Listed(c.w, SiteOf[m.item], m.item) /\ ~c.w.item[m.item].active
               /\ m.id # NoEngine => Suits(c.w, m.id, SiteOf[m.item])
    <3>1. Listed(c.w, SiteOf[m.item], m.item) /\ ~c.w.item[m.item].active
      BY <1>2, <2>2, <2>4, GrownKeeps DEF MatchOK, Grown
    <3>2. ASSUME m.id # NoEngine PROVE Suits(c.w, m.id, SiteOf[m.item])
      <4>1. Suits(m.w, m.id, SiteOf[m.item]) /\ m.id \in Engines
        BY <2>2, <2>4, <3>2 DEF MatchOK, Suits
      <4> QED
        BY <1>2, <4>1, GrownKeeps
    <3> QED
      BY <3>1, <3>2
  <2>5. MatchOK(w, r)
    BY <1>5, <2>1, <2>2, <2>4 DEF MatchOK
  <2> QED
    BY <2>3, <2>5 DEF Matches, r
<1> QED
  BY <1>6, <1>7

LEMMA BestMatches ==
    ASSUME NEW world, Book(world)
    PROVE  BestMatch(world) \in Matches(world)
<1> DEFINE seq == world.q.servers
           n == Len(seq)
           W == Matches(world)
           base == [w |-> world, item |-> NoItem, id |-> NoEngine]
           Eq(f) == f = [k \in 0 .. n |-> IF k = 0 THEN base ELSE Asked(f[k - 1], seq[k])]
<1>1. world \in Worlds /\ seq \in Seq(Sites) /\ n \in Nat
  <2>1. world \in Worlds
    BY DEF Book
  <2>2. seq \in Seq(Sites)
    BY <2>1, QueueType
  <2> QED
    BY <2>1, <2>2
<1>2. base \in W
  <2>1. base \in MatchRec /\ base.w = world /\ base.item = NoItem
    BY <1>1 DEF MatchRec, Files
  <2>2. Grown(world, world)
    BY GrownSelf
  <2> HIDE DEF base
  <2> QED
    BY <2>1, <2>2 DEF Matches, MatchOK
<1>3. \A m \in W, k \in 1 .. n : Asked(m, seq[k]) \in W
  <2>1. \A k \in 1 .. n : seq[k] \in Sites
    BY <1>1
  <2> QED
    BY <2>1, AskedMatches
<1>4. BestMatch(world) = (CHOOSE f : Eq(f))[n]
  BY DEF BestMatch
<1> HIDE DEF seq, n, W, base
<1>5. PICK F : F = [m \in W |-> [k \in 1 .. n |-> Asked(m, seq[k])]]
  OBVIOUS
<1>6. PICK f \in [0 .. n -> W] : f[0] = base /\ \A k \in 1 .. n : f[k] = F[f[k - 1]][k]
  <2>1. F \in [W -> [1 .. n -> W]]
    BY <1>3, <1>5
  <2>2. PICK f \in [0 .. n -> W] : IsLoop(f, n, base, F)
    BY <1>1, <1>2, <2>1, LoopExists
  <2> QED
    BY <2>2 DEF IsLoop
<1>7. ASSUME NEW k \in 1 .. n PROVE f[k] = Asked(f[k - 1], seq[k])
  <2>1. f[k - 1] \in W
    BY <1>1, <1>6
  <2> QED
    BY <1>5, <1>6, <2>1
<1>8. Eq(f)
  <2>1. \A k \in 0 .. n : f[k] = IF k = 0 THEN base ELSE Asked(f[k - 1], seq[k])
    BY <1>1, <1>6, <1>7
  <2> QED
    BY <1>6, <2>1
<1>9. ASSUME NEW x, Eq(x) PROVE x = f
  <2>1. x[0] = base /\ x = [k \in 0 .. n |-> x[k]] /\ f = [k \in 0 .. n |-> f[k]]
    BY <1>9, <1>1, <1>6
  <2>2. \A k \in 1 .. n : x[k] = Asked(x[k - 1], seq[k])
    BY <1>9, <1>1
  <2>3. Agree(x, f, n)
    BY <2>2, <1>7 DEF Agree
  <2> HIDE DEF Eq
  <2> QED
    BY <2>1, <2>3, <1>1, <1>6, LoopUnique
<1>10. (CHOOSE x : Eq(x)) = f
  <2> HIDE DEF Eq
  <2> QED
    BY <1>8, <1>9
<1>11. f[n] \in W
  BY <1>1, <1>6
<1> QED
  BY <1>4, <1>10, <1>11 DEF W

(* What file i and engine id are when TryStartNextTransfer brings them     *)
(* together in world v.                                                    *)
Starts(v, i, id) ==
    /\ Book(v) /\ i \in Items /\ id \in Engines
    /\ Listed(v, SiteOf[i], i) /\ ~v.item[i].active
    /\ HasData(v, id) /\ ~v.q.data[id].active
    /\ \/ There(v, id, SiteOf[i])
       \/ id = TabEngine /\ v.tab.site = SiteOf[i]
       \/ /\ id # TabEngine /\ ~LimitReached(v, SiteOf[i])
          /\ \A e \in Own : Idle(v, e, FALSE) => ~There(v, e, SiteOf[i])

LEMMA TryStart ==
    ASSUME NEW w, Book(w)
    PROVE  LET t == TryStartNextTransfer(w)
           IN  /\ t.ok \in BOOLEAN
               /\ ~t.ok => Grown(w, t.w)
               /\ t.ok => /\ w.q.mode # 0
                          /\ \E v, i, id : Grown(w, v) /\ Starts(v, i, id) /\ t.w = Assign(v, i, id)
<1> DEFINE t == TryStartNextTransfer(w)
           m == BestMatch(w)
           s == SiteOf[m.item]
           g == GetIdleEngine(m.w, s, FALSE)
           r == IF m.id # NoEngine THEN m ELSE g
<1>1. m \in MatchRec /\ MatchOK(w, m)
  BY BestMatches DEF Matches
<1>2. Grown(w, w)
  BY GrownSelf
<1>3. CASE w.q.mode = 0 \/ w.q.count >= MaxTransfers \/ ~(DownloadsLeft(w) \/ UploadsLeft(w))
  <2>1. t = [w |-> w, ok |-> FALSE]
    BY <1>3 DEF TryStartNextTransfer
  <2> HIDE DEF t
  <2>2. t.w = w /\ t.ok = FALSE
    BY <2>1
  <2> QED
    BY <1>2, <2>2 DEF t
<1>4. CASE ~(w.q.mode = 0 \/ w.q.count >= MaxTransfers \/ ~(DownloadsLeft(w) \/ UploadsLeft(w)))
  <2>1. t = IF m.item = NoItem THEN [w |-> m.w, ok |-> FALSE]
            ELSE IF r.id = NoEngine THEN [w |-> r.w, ok |-> FALSE]
            ELSE [w |-> Assign(r.w, m.item, r.id), ok |-> TRUE]
    BY <1>4 DEF TryStartNextTransfer
  <2> HIDE DEF t, m, r
  <2>2. CASE m.item = NoItem
    <3>1. t.w = m.w /\ t.ok = FALSE
      BY <2>1, <2>2
    <3> QED
      BY <1>1, <3>1 DEF MatchOK, t
  <2>3. CASE m.item # NoItem
    <3>1. m.item \in Items /\ s \in Sites
      BY <1>1, <2>3, QueueAssumption DEF MatchRec, Files
    <3>2. Grown(w, m.w) /\ Listed(m.w, s, m.item) /\ ~m.w.item[m.item].active
          /\ (m.id # NoEngine => Suits(m.w, m.id, s)) /\ (m.id = NoEngine => ~LimitReached(w, s))
      BY <1>1, <2>3 DEF MatchOK
    <3> HIDE DEF s
    <3>3. CASE m.id # NoEngine
      <4>1. r = m
        BY <3>3 DEF r
      <4>2. t.w = Assign(m.w, m.item, m.id) /\ t.ok = TRUE
        BY <2>1, <2>3, <3>3, <4>1
      <4>3. Starts(m.w, m.item, m.id)
        BY <3>1, <3>2, <3>3 DEF Starts, Suits, Idle, Grown, s
      <4> QED
        BY <1>4, <3>2, <4>2, <4>3 DEF t
    <3>4. CASE m.id = NoEngine
      <4>1. r = g
        BY <3>4 DEF r
      <4>2. PICK no \in BOOLEAN : no = FALSE
        OBVIOUS
      <4>3. Book(m.w)
        BY <3>2 DEF Grown
      <4>4. LET x == GetIdleEngine(m.w, s, no)
            IN  /\ Grown(m.w, x.w)
                /\ x.id # NoEngine => x.id \in Engines /\ Idle(x.w, x.id, no)
                /\ (\E e \in Engines : Idle(m.w, e, no) /\ There(m.w, e, s)) =>
                      x.id # NoEngine /\ There(x.w, x.id, s)
        BY <4>3, IdleEngine
      <4>5. /\ Grown(m.w, g.w)
            /\ g.id # NoEngine => g.id \in Engines /\ Idle(g.w, g.id, FALSE)
            /\ (\E e \in Engines : Idle(m.w, e, FALSE) /\ There(m.w, e, s)) => There(g.w, g.id, s)
        BY <4>2, <4>4 DEF s
      <4> HIDE DEF g
      <4>6. Grown(w, g.w)
        BY <3>2, <4>5, GrownTwice
      <4>7. CASE g.id = NoEngine
        <5>1. t.w = g.w /\ t.ok = FALSE
          BY <2>1, <2>3, <4>1, <4>7
        <5> QED
          BY <4>6, <5>1 DEF t
      <4>8. CASE g.id # NoEngine
        <5>1. t.w = Assign(g.w, m.item, g.id) /\ t.ok = TRUE
          BY <2>1, <2>3, <4>1, <4>8
        <5>2. Book(g.w) /\ g.id \in Engines /\ HasData(g.w, g.id) /\ ~g.w.q.data[g.id].active
              /\ g.id # TabEngine
          BY <4>5, <4>8 DEF Idle, Grown
        <5>3. Listed(g.w, s, m.item) /\ ~g.w.item[m.item].active /\ ~LimitReached(g.w, s)
          BY <3>2, <3>4, <4>5, <4>6, GrownKeeps DEF Grown
        <5>4. There(g.w, g.id, s) \/ \A e \in Own : Idle(g.w, e, FALSE) => ~There(g.w, e, s)
          <6> SUFFICES ASSUME NEW e \in Own, Idle(g.w, e, FALSE), There(g.w, e, s)
                       PROVE  There(g.w, g.id, s)
            OBVIOUS
          <6>1. e \in Engines /\ e # TabEngine /\ HasData(g.w, e)
            BY DEF Own, Idle
          <6>2. CASE HasData(m.w, e)
            <7>1. g.w.q.data[e] = m.w.q.data[e] /\ g.w.net = m.w.net
              BY <4>5, <6>1, <6>2 DEF Grown
            <7>2. Idle(m.w, e, FALSE) /\ There(m.w, e, s)
              BY <6>1, <6>2, <7>1 DEF Idle, There, IsConnected
            <7> QED
              BY <4>5, <6>1, <7>2
          <6>3. CASE ~HasData(m.w, e)
            <7>1. g.w.q.data[e] = NewData(NewState(e))
              BY <4>5, <6>1, <6>3 DEF Grown
            <7>2. g.w.q.data[e].site = NoSite
              BY <7>1 DEF NewData
            <7> QED
              BY <3>1, <7>2, QueueAssumption DEF There
          <6> QED
            BY <6>2, <6>3
        <5>5. Starts(g.w, m.item, g.id)
          BY <3>1, <5>2, <5>3, <5>4 DEF Starts, s
        <5> QED
          BY <1>4, <4>6, <5>1, <5>5 DEF t
      <4> QED
        BY <4>7, <4>8
    <3> QED
      BY <3>3, <3>4
  <2> QED
    BY <2>2, <2>3
<1> QED
  BY <1>3, <1>4

LEMMA BookStarts ==
    ASSUME NEW v, NEW i, NEW id, Starts(v, i, id)
    PROVE  Book(Assign(v, i, id))
<1>1. v.item[i].where = "queue"
  BY DEF Starts, Book, ListsOK
<1> QED
  BY <1>1, BookAssign DEF Starts

-----------------------------------------------------------------------------
(* The end of AdvanceQueue.                                                *)
LEMMA NewDataType ==
    ASSUME NEW state \in States
    PROVE  /\ NewData(state) \in DataRec /\ ~NewData(state).active /\ NewData(state).item = NoItem
           /\ NewData(state).state = state /\ NewData(state).site = NoSite /\ ~NewData(state).timer
BY DEF NewData, DataRec, Files, Servers

LEMMA ForgetViews ==
    ASSUME NEW w \in Worlds
    PROVE  LET u == Forget(w)
           IN  /\ u \in Worlds /\ u.item = w.item /\ u.tab = w.tab /\ u.net = w.net
               /\ u.q.data = [w.q.data EXCEPT ![TabEngine] = NewData("none")]
               /\ u.q.engines = Without(w.q.engines, TabEngine)
               /\ SameCounts(w, u) /\ SameLists(w, u) /\ SameMode(w, u)
               /\ u.q.refreshed = w.q.refreshed /\ u.q.servers = w.q.servers
<1> DEFINE d == NewData("none")
           v == WithData(w, TabEngine, d)
           e == Without(w.q.engines, TabEngine)
           c == [v.q EXCEPT !.engines = e]
           u == Forget(w)
<1>1. d \in DataRec /\ TabEngine \in Engines
  BY NewDataType, QueueAssumption DEF States, Engines, TabEngine
<1>2. v \in Worlds /\ v.q = [w.q EXCEPT !.data = [w.q.data EXCEPT ![TabEngine] = d]]
      /\ v.item = w.item /\ v.tab = w.tab /\ v.net = w.net
  BY <1>1, DataSet
<1>3. e \in Seq(Engines)
  BY WorldParts, WithoutHas
<1> HIDE DEF v, e, d
<1>4. w.q \in QueueRec /\ v.q \in QueueRec
  BY <1>2, WorldParts
<1>5. v.q.engines = w.q.engines /\ v.q.data = [w.q.data EXCEPT ![TabEngine] = d]
      /\ SameCounts(w, v) /\ SameLists(w, v) /\ SameMode(w, v)
      /\ v.q.refreshed = w.q.refreshed /\ v.q.servers = w.q.servers
  BY <1>2, <1>4 DEF QueueRec, SameCounts, SameLists, SameMode
<1>6. c \in QueueRec
  BY <1>3, <1>4 DEF QueueRec
<1>7. u = [v EXCEPT !.q = c]
  <2>1. Without(v.q.engines, TabEngine) = e
    BY <1>5 DEF e
  <2>2. v.q.engines = v.q.engines /\ u = [v EXCEPT !.q.engines = Without(@, TabEngine)]
    BY DEF Forget, v, d
  <2> HIDE DEF u
  <2> QED
    BY <1>2, <2>1, <2>2 DEF Worlds
<1>8. c.engines = e /\ c.data = v.q.data /\ c.busy = v.q.busy /\ c.count = v.q.count
      /\ c.down = v.q.down /\ c.up = v.q.up /\ c.now = v.q.now /\ c.later = v.q.later
      /\ c.mode = v.q.mode /\ c.inside = v.q.inside /\ c.sending = v.q.sending
      /\ c.refused = v.q.refused /\ c.servers = v.q.servers /\ c.refreshed = v.q.refreshed
  BY <1>4 DEF QueueRec
<1> HIDE DEF c, u
<1>9. u \in Worlds /\ u.q = c /\ u.item = v.item /\ u.tab = v.tab /\ u.net = v.net
  BY <1>2, <1>6, <1>7, WorldOf
<1>10. u.q.data = [w.q.data EXCEPT ![TabEngine] = d] /\ u.q.engines = e
       /\ SameCounts(w, u) /\ SameLists(w, u) /\ SameMode(w, u)
       /\ u.q.refreshed = w.q.refreshed /\ u.q.servers = w.q.servers
  BY <1>5, <1>8, <1>9 DEF SameCounts, SameLists, SameMode
<1> QED
  BY <1>2, <1>9, <1>10 DEF u, e, d

(* Engines change, but neither what they have nor whether they are active. *)
LEMMA BookSame ==
    ASSUME NEW w, Book(w), NEW u, u \in Worlds, u.item = w.item, u.net = w.net,
           SameLists(w, u), SameCounts(w, u), ListOK(u), DataOK(u),
           \A e \in Engines :
               /\ u.q.data[e].item = w.q.data[e].item
               /\ u.q.data[e].active = w.q.data[e].active
               /\ u.q.data[e].item # NoItem => u.q.data[e].site = w.q.data[e].site
    PROVE  Book(u)
<1>1. w \in Worlds /\ ItemsOK(w) /\ ListsOK(w) /\ CountsOK(w) /\ ToOK(w)
  BY DEF Book
<1>2. ItemsOK(u)
  <2>1. \A e \in Engines : w.q.data[e].item \in Items \cup {NoItem}
    BY <1>1, DataType DEF Files
  <2> QED
    BY <1>1, <2>1, SameItemsOK
<1>3. ListsOK(u)
  BY <1>1 DEF ListsOK, Listed, Children, SameLists
<1>4. CountsOK(u)
  <2>1. Busy(u.q.data) = Busy(w.q.data) /\ \A I : Having(u.q.data, I) = Having(w.q.data, I)
    BY DEF Busy, Having
  <2> QED
    BY <1>1, <2>1 DEF CountsOK, SameCounts
<1>5. ToOK(u)
  BY <1>1 DEF ToOK
<1> QED
  BY <1>2, <1>3, <1>4, <1>5 DEF Book

LEMMA BookForget ==
    ASSUME NEW w, Book(w), Unused(w)
    PROVE  Book(Forget(w)) /\ \A e \in Engines : HasData(Forget(w), e) <=> HasData(w, e) /\ e # TabEngine
<1> DEFINE u == Forget(w)
           d == NewData("none")
           seq == w.q.engines
<1>1. w \in Worlds /\ ListOK(w) /\ DataOK(w) /\ HasData(w, TabEngine) /\ ~w.q.data[TabEngine].active
  BY DEF Book, Unused, Data
<1>2. /\ u \in Worlds /\ u.item = w.item /\ u.tab = w.tab /\ u.net = w.net
      /\ u.q.data = [w.q.data EXCEPT ![TabEngine] = d]
      /\ u.q.engines = Without(seq, TabEngine)
      /\ SameCounts(w, u) /\ SameLists(w, u)
  BY <1>1, ForgetViews
<1>3. TabEngine \in Engines /\ w.q.data \in [Engines -> DataRec] /\ seq \in Seq(Engines)
  BY <1>1, WorldParts, QueueAssumption DEF Engines, TabEngine
<1>4. u.q.data[TabEngine] = d /\ \A e \in Engines \ {TabEngine} : u.q.data[e] = w.q.data[e]
  BY <1>2, <1>3
<1>5. ~d.active /\ d.item = NoItem /\ d.state = "none" /\ ~d.timer
  BY NewDataType DEF States
<1> HIDE DEF u, d, seq
<1>6. \A e \in Engines : HasData(u, e) <=> HasData(w, e) /\ e # TabEngine
  BY <1>2, <1>3, WithoutHas DEF HasData, seq
<1>7. PICK n \in Nat : n = Len(seq)
  BY <1>3
<1>8. PICK p \in 1 .. n : seq[p] = TabEngine
  BY <1>1, <1>7 DEF HasData, Contains, seq
<1>9. \A k, l \in 1 .. n : seq[k] = seq[l] => k = l
  BY <1>1, <1>7 DEF ListOK, Distinct, seq
<1>10. Len(u.q.engines) = n - 1 /\ \A k \in 1 .. n - 1 : u.q.engines[k] = IF k < p THEN seq[k] ELSE seq[k + 1]
  <2>1. p \in 1 .. Len(seq) /\ \A k, l \in 1 .. Len(seq) : seq[k] = seq[l] => k = l
    BY <1>7, <1>9
  <2>2. LET rest == Without(seq, seq[p])
        IN  /\ Len(rest) = Len(seq) - 1
            /\ \A k \in 1 .. Len(seq) - 1 : rest[k] = IF k < p THEN seq[k] ELSE seq[k + 1]
    BY <1>3, <2>1, WithoutMoves
  <2> QED
    BY <1>2, <1>7, <1>8, <2>2
<1>11. ListOK(u)
  <2>1. Distinct(u.q.engines)
    <3>1. ASSUME NEW k \in 1 .. n - 1, NEW l \in 1 .. n - 1, u.q.engines[k] = u.q.engines[l] PROVE k = l
      <4> DEFINE a == IF k < p THEN k ELSE k + 1
                 b == IF l < p THEN l ELSE l + 1
      <4>1. a \in 1 .. n /\ b \in 1 .. n
        OBVIOUS
      <4>2. u.q.engines[k] = seq[a] /\ u.q.engines[l] = seq[b]
        BY <1>10
      <4>3. a = b
        <5> HIDE DEF a, b
        <5> QED
          BY <1>9, <3>1, <4>1, <4>2
      <4> QED
        BY <4>3
    <3> QED
      BY <1>10, <3>1 DEF Distinct
  <2>2. NumOwn(u) = NumOwn(w)
    <3>1. ~HasData(u, TabEngine)
      BY <1>3, <1>6
    <3>2. NumOwn(u) = (n - 1) - 0 /\ NumOwn(w) = n - 1
      BY <1>1, <1>7, <1>10, <3>1 DEF NumOwn, seq
    <3> QED
      BY <3>2
  <2> QED
    BY <1>1, <1>6, <2>1, <2>2 DEF ListOK, Own
<1>12. DataOK(u)
  <2>1. GoodData(TabEngine, d)
    BY <1>5 DEF GoodData
  <2> QED
    BY <1>1, <1>3, <1>4, <1>6, <2>1 DEF DataOK, d
<1>13. ASSUME NEW e \in Engines
       PROVE  /\ u.q.data[e].item = w.q.data[e].item
              /\ u.q.data[e].active = w.q.data[e].active
              /\ u.q.data[e].item # NoItem => u.q.data[e].site = w.q.data[e].site
  <2>1. CASE e # TabEngine
    BY <1>4, <2>1
  <2>2. CASE e = TabEngine
    <3>1. w.q.data[e].item = NoItem
      BY <1>1, <1>3, <2>2 DEF DataOK, GoodData
    <3>2. w.q.data[e].active \in BOOLEAN /\ d.active \in BOOLEAN
      BY <1>1, DataType, NewDataType DEF d, DataRec, States
    <3> QED
      BY <1>1, <1>4, <1>5, <2>2, <3>1, <3>2
  <2> QED
    BY <2>1, <2>2
<1>14. Book(u)
  BY <1>2, <1>11, <1>12, <1>13, BookSame
<1> QED
  BY <1>6, <1>14 DEF u

(* The timers of engines that are idle are set.                            *)
Timed(w, id) ==
    IF HasData(w, id) /\ ~Data(w, id).active /\ id # TabEngine
    THEN [Data(w, id) EXCEPT !.timer = IsConnected(w, id)] ELSE Data(w, id)

LoopLeft(w) == [w EXCEPT !.q.inside = FALSE, !.q.data = [id \in Engines |-> Timed(w, id)]]

LEMMA TimedViews ==
    ASSUME NEW w \in Worlds
    PROVE  LET u == LoopLeft(w)
           IN  /\ u \in Worlds /\ u.item = w.item /\ u.tab = w.tab /\ u.net = w.net
               /\ u.q.data = [id \in Engines |-> Timed(w, id)]
               /\ u.q.engines = w.q.engines /\ ~u.q.inside
               /\ SameCounts(w, u) /\ SameLists(w, u)
               /\ u.q.mode = w.q.mode /\ u.q.sending = w.q.sending /\ u.q.refused = w.q.refused
               /\ u.q.refreshed = w.q.refreshed /\ u.q.servers = w.q.servers
<1> DEFINE x == [id \in Engines |-> Timed(w, id)]
           c == [w.q EXCEPT !.inside = FALSE, !.data = x]
           u == LoopLeft(w)
<1>1. w.q \in QueueRec
  BY WorldParts
<1>2. x \in [Engines -> DataRec]
  <2>1. ASSUME NEW id \in Engines PROVE Timed(w, id) \in DataRec
    <3>1. Data(w, id) \in DataRec
      BY DataType DEF Data
    <3>2. IsConnected(w, id) \in BOOLEAN
      BY DEF IsConnected
    <3>3. PICK b \in BOOLEAN : b = IsConnected(w, id)
      BY <3>2
    <3>4. [Data(w, id) EXCEPT !.timer = b] \in DataRec
      BY <3>1 DEF DataRec
    <3>5. [Data(w, id) EXCEPT !.timer = IsConnected(w, id)] \in DataRec
      BY <3>3, <3>4
    <3> QED
      BY <3>1, <3>5 DEF Timed
  <2> QED
    BY <2>1
<1> HIDE DEF x
<1>3. c \in QueueRec
  BY <1>1, <1>2 DEF QueueRec
<1>4. c.data = x /\ ~c.inside /\ c.engines = w.q.engines /\ c.busy = w.q.busy /\ c.count = w.q.count
      /\ c.down = w.q.down /\ c.up = w.q.up /\ c.now = w.q.now /\ c.later = w.q.later
      /\ c.mode = w.q.mode /\ c.sending = w.q.sending
      /\ c.refused = w.q.refused /\ c.servers = w.q.servers /\ c.refreshed = w.q.refreshed
  BY <1>1 DEF QueueRec
<1>5. u = [w EXCEPT !.q = c]
  BY DEF LoopLeft, x, Worlds
<1> HIDE DEF c, u
<1>6. u \in Worlds /\ u.q = c /\ u.item = w.item /\ u.tab = w.tab /\ u.net = w.net
  BY <1>3, <1>5, WorldOf
<1>7. /\ u.q.data = x
      /\ u.q.engines = w.q.engines /\ ~u.q.inside
      /\ SameCounts(w, u) /\ SameLists(w, u)
      /\ u.q.mode = w.q.mode /\ u.q.sending = w.q.sending /\ u.q.refused = w.q.refused
      /\ u.q.refreshed = w.q.refreshed /\ u.q.servers = w.q.servers
  BY <1>4, <1>6 DEF SameCounts, SameLists
<1> QED
  BY <1>6, <1>7 DEF u, x

LEMMA TimedData ==
    ASSUME NEW w \in Worlds, NEW id \in Engines
    PROVE  LET d == w.q.data[id]
               t == Timed(w, id)
           IN  /\ t.active = d.active /\ t.state = d.state /\ t.item = d.item /\ t.site = d.site
               /\ t = d \/ (HasData(w, id) /\ ~d.active /\ id # TabEngine)
               /\ t.timer => d.timer \/ id # TabEngine
<1> DEFINE d == w.q.data[id]
           b == IsConnected(w, id)
<1>1. d \in DataRec
  BY DataType
<1>2. Timed(w, id) = IF HasData(w, id) /\ ~d.active /\ id # TabEngine THEN [d EXCEPT !.timer = b] ELSE d
  BY DEF Timed, Data
<1> HIDE DEF d, b
<1>3. CASE HasData(w, id) /\ ~d.active /\ id # TabEngine
  <2>1. Timed(w, id) = [d EXCEPT !.timer = b]
    BY <1>2, <1>3
  <2> QED
    BY <1>1, <1>3, <2>1 DEF DataRec, d
<1>4. CASE ~(HasData(w, id) /\ ~d.active /\ id # TabEngine)
  <2>1. Timed(w, id) = d
    BY <1>2, <1>4
  <2> QED
    BY <2>1 DEF d
<1> QED
  BY <1>3, <1>4

LEMMA BookTimed ==
    ASSUME NEW w, Book(w)
    PROVE  Book(LoopLeft(w))
<1> DEFINE u == LoopLeft(w)
<1>1. w \in Worlds /\ ListOK(w) /\ DataOK(w)
  BY DEF Book
<1>2. /\ u \in Worlds /\ u.item = w.item /\ u.net = w.net
      /\ u.q.data = [id \in Engines |-> Timed(w, id)]
      /\ u.q.engines = w.q.engines
      /\ SameCounts(w, u) /\ SameLists(w, u)
  BY <1>1, TimedViews
<1> HIDE DEF u
<1>3. ASSUME NEW e \in Engines
      PROVE  LET d == w.q.data[e]
                 t == u.q.data[e]
             IN  /\ t.active = d.active /\ t.state = d.state /\ t.item = d.item /\ t.site = d.site
                 /\ t = d \/ (HasData(w, e) /\ ~d.active /\ e # TabEngine)
                 /\ t.timer => d.timer \/ e # TabEngine
  BY <1>1, <1>2, TimedData
<1>4. ListOK(u)
  BY <1>1, <1>2 DEF ListOK, NumOwn, HasData
<1>5. DataOK(u)
  <2>1. ASSUME NEW e \in Engines
        PROVE  GoodData(e, u.q.data[e]) /\ (~HasData(u, e) => u.q.data[e] = NewData("none"))
    <3>1. GoodData(e, w.q.data[e]) /\ (~HasData(w, e) => w.q.data[e] = NewData("none"))
      BY <1>1 DEF DataOK
    <3>2. HasData(u, e) <=> HasData(w, e)
      BY <1>2 DEF HasData
    <3>3. GoodData(e, u.q.data[e])
      BY <1>3, <3>1 DEF GoodData
    <3> QED
      BY <1>3, <3>1, <3>2, <3>3
  <2> QED
    BY <2>1 DEF DataOK
<1>6. Book(u)
  BY <1>2, <1>3, <1>4, <1>5, BookSame
<1> QED
  BY <1>6 DEF u

(* The listing of the tab's site is refreshed.                             *)
Listing(d) == [d EXCEPT !.active = TRUE, !.state = "list"]
ListSent(w, id) ==
    [WithData(Execute(w, id, "list", NoItem), id, Listing(Data(w, id)))
        EXCEPT !.q.count = w.q.count + 1]
Executing(n, cmd, to) ==
    [n EXCEPT !.cmd = cmd, !.to = to, !.cancel = FALSE, !.late = n.cancel]

LEMMA ListingType ==
    ASSUME NEW d \in DataRec
    PROVE  LET e == Listing(d)
           IN  /\ e \in DataRec /\ e.active /\ e.state = "list" /\ e.item = d.item
               /\ e.site = d.site /\ e.timer = d.timer
BY DEF Listing, DataRec, States

LEMMA ExecutingType ==
    ASSUME NEW n \in NetRec, NEW cmd \in Commands, NEW to \in Aims
    PROVE  LET m == Executing(n, cmd, to)
           IN  /\ m \in NetRec /\ m.cmd = cmd /\ m.to = to /\ m.server = n.server
               /\ ~m.cancel /\ m.late = n.cancel /\ m.inbox = n.inbox
BY DEF Executing, NetRec

LEMMA ExecutedViews ==
    ASSUME NEW w \in Worlds, NEW id \in Engines, NEW cmd \in Commands, NEW to \in Aims
    PROVE  LET u == Execute(w, id, cmd, to)
           IN  /\ u \in Worlds /\ u.item = w.item /\ u.tab = w.tab /\ u.q = w.q
               /\ u.net = [w.net EXCEPT ![id] = Executing(w.net[id], cmd, to)]
BY ExecuteSet DEF Executing

LEMMA ListViews ==
    ASSUME NEW w \in Worlds, NEW id \in Engines
    PROVE  LET u == ListSent(w, id)
           IN  /\ u \in Worlds /\ u.item = w.item /\ u.tab = w.tab
               /\ u.net = [w.net EXCEPT ![id] = Executing(w.net[id], "list", NoItem)]
               /\ u.q.data = [w.q.data EXCEPT ![id] = Listing(w.q.data[id])]
               /\ u.q.engines = w.q.engines /\ u.q.count = w.q.count + 1
               /\ u.q.busy = w.q.busy /\ u.q.down = w.q.down /\ u.q.up = w.q.up
               /\ SameLists(w, u) /\ SameMode(w, u)
               /\ u.q.refreshed = w.q.refreshed /\ u.q.servers = w.q.servers
<1> DEFINE d == Listing(w.q.data[id])
           a == Execute(w, id, "list", NoItem)
           b == WithData(a, id, d)
           x == w.q.count + 1
           u == [b EXCEPT !.q.count = x]
<1>1. d \in DataRec /\ x \in Int
  BY DataType, QueueType, ListingType
<1>2. a \in Worlds /\ a.item = w.item /\ a.tab = w.tab /\ a.q = w.q
      /\ a.net = [w.net EXCEPT ![id] = Executing(w.net[id], "list", NoItem)]
  <2>1. "list" \in Commands /\ NoItem \in Aims
    BY DEF Commands, Aims, Files
  <2> QED
    BY <2>1, ExecutedViews
<1> HIDE DEF d, a, x
<1>3. b \in Worlds /\ b.q = [a.q EXCEPT !.data = [a.q.data EXCEPT ![id] = d]]
      /\ b.item = a.item /\ b.tab = a.tab /\ b.net = a.net
  BY <1>1, <1>2, DataSet
<1> HIDE DEF b
<1>4. b.q.data = [w.q.data EXCEPT ![id] = d]
      /\ b.q.engines = w.q.engines /\ b.q.refreshed = w.q.refreshed /\ b.q.servers = w.q.servers
      /\ SameCounts(w, b) /\ SameLists(w, b) /\ SameMode(w, b)
  <2>1. w.q \in QueueRec
    BY WorldParts
  <2> QED
    BY <1>2, <1>3, <2>1 DEF QueueRec, SameCounts, SameLists, SameMode
<1>5. /\ u \in Worlds
      /\ u.item = b.item /\ u.tab = b.tab /\ u.net = b.net
      /\ SameMode(b, u) /\ SameEngines(b, u) /\ SameLists(b, u)
      /\ u.q.count = x /\ u.q.busy = b.q.busy /\ u.q.down = b.q.down /\ u.q.up = b.q.up
      /\ u.q.servers = b.q.servers /\ u.q.refreshed = b.q.refreshed
  BY <1>1, <1>3, CountSet
<1>6. u = ListSent(w, id)
  BY DEF ListSent, Data, u, b, a, d, x
<1> HIDE DEF u
<1>7. /\ u \in Worlds /\ u.item = w.item /\ u.tab = w.tab
      /\ u.net = [w.net EXCEPT ![id] = Executing(w.net[id], "list", NoItem)]
      /\ u.q.data = [w.q.data EXCEPT ![id] = d]
      /\ u.q.engines = w.q.engines /\ u.q.count = x
      /\ u.q.busy = w.q.busy /\ u.q.down = w.q.down /\ u.q.up = w.q.up
      /\ SameLists(w, u) /\ SameMode(w, u)
      /\ u.q.refreshed = w.q.refreshed /\ u.q.servers = w.q.servers
  BY <1>2, <1>3, <1>4, <1>5 DEF SameCounts, SameLists, SameMode, SameEngines
<1> QED
  BY <1>6, <1>7 DEF x, d

LEMMA BookListing ==
    ASSUME NEW w, Book(w), NEW id \in Own, HasData(w, id), ~w.q.data[id].active
    PROVE  Book(ListSent(w, id))
<1> DEFINE u == ListSent(w, id)
           d == w.q.data[id]
           e == Listing(d)
<1>1. w \in Worlds /\ ListOK(w) /\ DataOK(w) /\ ItemsOK(w) /\ ListsOK(w) /\ CountsOK(w) /\ ToOK(w)
      /\ id \in Engines /\ id # TabEngine
  BY DEF Book, Own
<1>2. /\ u \in Worlds /\ u.item = w.item /\ u.tab = w.tab
      /\ u.net = [w.net EXCEPT ![id] = Executing(w.net[id], "list", NoItem)]
      /\ u.q.data = [w.q.data EXCEPT ![id] = e]
      /\ u.q.engines = w.q.engines /\ u.q.count = w.q.count + 1
      /\ u.q.busy = w.q.busy /\ u.q.down = w.q.down /\ u.q.up = w.q.up
      /\ SameLists(w, u)
  BY <1>1, ListViews
<1>3. d \in DataRec /\ w.q.data \in [Engines -> DataRec] /\ w.net \in [Engines -> NetRec]
  BY <1>1, DataType, WorldParts
<1>4. e \in DataRec /\ e.active /\ e.state = "list" /\ e.item = d.item /\ e.site = d.site
      /\ e.timer = d.timer
  BY <1>3, ListingType
<1>5. d.item = NoItem /\ ~d.active
  BY <1>1 DEF DataOK, GoodData
<1> HIDE DEF u, d, e
<1>6. ListOK(u)
  BY <1>1, <1>2 DEF ListOK, NumOwn, HasData
<1>7. DataOK(u)
  <2>1. ASSUME NEW k \in Engines
        PROVE  GoodData(k, u.q.data[k]) /\ (~HasData(u, k) => u.q.data[k] = NewData("none"))
    <3>1. GoodData(k, w.q.data[k]) /\ (~HasData(w, k) => w.q.data[k] = NewData("none"))
      BY <1>1 DEF DataOK
    <3>2. HasData(u, k) <=> HasData(w, k)
      BY <1>2 DEF HasData
    <3>3. CASE k = id
      <4>1. u.q.data[k] = e
        BY <1>2, <1>3, <3>3
      <4>2. GoodData(k, e)
        BY <1>1, <1>4, <1>5, <3>3 DEF GoodData
      <4> QED
        BY <3>2, <3>3, <4>1, <4>2
    <3>4. CASE k # id
      BY <1>2, <1>3, <3>1, <3>2, <3>4
    <3> QED
      BY <3>3, <3>4
  <2> QED
    BY <2>1 DEF DataOK
<1>8. \A k \in Engines : u.q.data[k].item = w.q.data[k].item /\ u.q.data[k].site = w.q.data[k].site
  BY <1>2, <1>3, <1>4 DEF d
<1>9. ItemsOK(u)
  <2>1. \A k \in Engines : w.q.data[k].item \in Items \cup {NoItem}
    BY <1>1, DataType DEF Files
  <2> QED
    <3>1. \A k \in Engines : /\ u.q.data[k].item = w.q.data[k].item
                             /\ w.q.data[k].item \in Items \cup {NoItem}
                             /\ u.q.data[k].item # NoItem => u.q.data[k].site = w.q.data[k].site
      BY <1>8, <2>1
    <3>2. u.item = w.item /\ ItemsOK(w)
      BY <1>1, <1>2
    <3> QED
      BY <3>1, <3>2, SameItemsOK
<1>10. ListsOK(u)
  BY <1>1, <1>2 DEF ListsOK, Listed, Children, SameLists
<1>11. CountsOK(u)
  <2>1. \A I : Having(u.q.data, I) = Having(w.q.data, I)
    BY <1>8 DEF Having
  <2>2. Cardinality(Busy(u.q.data)) = Cardinality(Busy(w.q.data)) + 1
    <3>1. Cardinality(Busy([w.q.data EXCEPT ![id] = e])) =
             Cardinality(Busy(w.q.data)) + (IF e.active THEN 1 ELSE 0)
                                         - (IF w.q.data[id].active THEN 1 ELSE 0)
      BY <1>1, <1>3, <1>4, BusyChanges
    <3>2. Cardinality(Busy(w.q.data)) \in Nat
      BY EnginesFinite DEF Busy
    <3> QED
      BY <1>2, <1>4, <1>5, <3>1, <3>2 DEF d
  <2> QED
    BY <1>1, <1>2, <2>1, <2>2 DEF CountsOK
<1>12. ToOK(u)
  <2>1. Executing(w.net[id], "list", NoItem).cmd = "list"
    <3>1. w.net[id] \in NetRec /\ "list" \in Commands /\ NoItem \in Aims
      BY <1>1, <1>3 DEF Commands, Aims, Files
    <3> QED
      BY <3>1, ExecutingType
  <2> QED
    BY <1>1, <1>2, <1>3, <2>1 DEF ToOK
<1>13. Book(u)
  BY <1>2, <1>6, <1>7, <1>9, <1>10, <1>11, <1>12 DEF Book
<1> QED
  BY <1>13 DEF u

(* What Rest, and then all of the end of AdvanceQueue, may change.         *)
Alike(d, e) == e.active = d.active /\ e.state = d.state /\ e.item = d.item /\ e.site = d.site

(* The queue is done, and engine id refreshes the listing of the tab.      *)
Refreshing(w, u, id) ==
    /\ HasData(w, id) /\ ~w.q.data[id].active /\ w.net[id].cmd = "none" /\ IsConnected(w, id)
    /\ w.tab.site # NoSite /\ w.q.data[id].site = w.tab.site
    /\ w.q.mode # 0 /\ w.q.count = 0
    /\ Alike(Listing(w.q.data[id]), u.q.data[id])
    /\ u.net[id] = Executing(w.net[id], "list", NoItem)

Unmoved(w, u, id) == Alike(w.q.data[id], u.q.data[id]) /\ u.net[id] = w.net[id]

Rested(w, u) ==
    /\ Book(u) /\ u.item = w.item /\ SameLists(w, u)
    /\ u.q.sending = w.q.sending /\ u.q.refused = w.q.refused
    /\ u.q.mode = w.q.mode \/ (u.q.mode = 0 /\ w.q.count = 0)
    /\ u.q.data[TabEngine] = w.q.data[TabEngine] /\ u.net[TabEngine] = w.net[TabEngine]
    /\ HasData(u, TabEngine) <=> HasData(w, TabEngine)
    /\ \A e \in Own :
         /\ HasData(w, e) => HasData(u, e)
         /\ Unmoved(w, u, e) \/ Refreshing(w, u, e)

LEMMA AlikeSelf ==
    ASSUME NEW d
    PROVE  Alike(d, d)
BY DEF Alike

LEMMA GrownRested ==
    ASSUME NEW w, NEW u, Book(w), Grown(w, u), HasData(u, TabEngine) => HasData(w, TabEngine)
    PROVE  Rested(w, u) /\ u.tab = w.tab /\ u.q.inside = w.q.inside
           /\ \A e \in Own : Unmoved(w, u, e)
<1>1. TabEngine \in Engines /\ Own \subseteq Engines
  BY QueueAssumption DEF Engines, TabEngine, Own
<1>2. DataOK(w) /\ DataOK(u)
  BY DEF Book, Grown
<1>3. ASSUME NEW e \in Engines, e = TabEngine => (HasData(u, e) => HasData(w, e))
      PROVE  u.q.data[e] = w.q.data[e] /\ u.net[e] = w.net[e]
  <2>1. CASE HasData(w, e)
    BY <2>1 DEF Grown
  <2>2. CASE ~HasData(w, e)
    <3>1. w.q.data[e] = NewData("none")
      BY <1>2, <2>2 DEF DataOK
    <3>2. CASE HasData(u, e)
      <4>1. e # TabEngine /\ NewState(e) = "none"
        BY <1>3, <2>2, <3>2 DEF NewState
      <4> QED
        BY <2>2, <3>1, <3>2, <4>1 DEF Grown
    <3>3. CASE ~HasData(u, e)
      BY <1>2, <3>1, <3>3 DEF DataOK, Grown
    <3> QED
      BY <3>2, <3>3
  <2> QED
    BY <2>1, <2>2 DEF Grown
<1>4. u.q.data[TabEngine] = w.q.data[TabEngine] /\ u.net[TabEngine] = w.net[TabEngine]
  BY <1>1, <1>3
<1>5. \A e \in Own : Unmoved(w, u, e)
  BY <1>1, <1>3, AlikeSelf DEF Unmoved, Own
<1> QED
  BY <1>1, <1>4, <1>5 DEF Rested, Grown, SameMode

LEMMA RefreshViews ==
    ASSUME NEW w, Book(w), w.q.mode = 0, w.q.count = 0
    PROVE  LET u == TryRefreshListings(w)
           IN  /\ Book(u) /\ u.item = w.item /\ SameLists(w, u)
               /\ u.tab = w.tab /\ SameMode(w, u)
               /\ u.q.data[TabEngine] = w.q.data[TabEngine] /\ u.net[TabEngine] = w.net[TabEngine]
               /\ HasData(u, TabEngine) <=> HasData(w, TabEngine)
               /\ \A e \in Own :
                    /\ HasData(w, e) => HasData(u, e)
                    /\ \/ Unmoved(w, u, e)
                       \/ /\ HasData(w, e) /\ ~w.q.data[e].active /\ w.net[e].cmd = "none"
                          /\ IsConnected(w, e)
                          /\ w.tab.site # NoSite /\ w.q.data[e].site = w.tab.site
                          /\ u.q.data[e] = Listing(w.q.data[e])
                          /\ u.net[e] = Executing(w.net[e], "list", NoItem)
<1> DEFINE s == w.tab.site
           idle == GetIdleEngine(w, s, FALSE)
           v == idle.w
           id == idle.id
           x == [v EXCEPT !.q.refreshed = TRUE]
           u == TryRefreshListings(w)
           Goal(y) ==
               /\ Book(y) /\ y.item = w.item /\ SameLists(w, y)
               /\ y.tab = w.tab /\ SameMode(w, y)
               /\ y.q.data[TabEngine] = w.q.data[TabEngine] /\ y.net[TabEngine] = w.net[TabEngine]
               /\ HasData(y, TabEngine) <=> HasData(w, TabEngine)
               /\ \A e \in Own :
                    /\ HasData(w, e) => HasData(y, e)
                    /\ \/ Unmoved(w, y, e)
                       \/ /\ HasData(w, e) /\ ~w.q.data[e].active /\ w.net[e].cmd = "none"
                          /\ IsConnected(w, e)
                          /\ w.tab.site # NoSite /\ w.q.data[e].site = w.tab.site
                          /\ y.q.data[e] = Listing(w.q.data[e])
                          /\ y.net[e] = Executing(w.net[e], "list", NoItem)
<1>1. TabEngine \in Engines /\ Own \subseteq Engines /\ TabEngine \notin Own
  BY QueueAssumption DEF Engines, TabEngine, Own
<1>2. /\ Grown(w, v)
      /\ id # NoEngine => id \in Engines /\ Idle(v, id, FALSE)
      /\ HasData(v, TabEngine) => HasData(w, TabEngine)
  <2>1. PICK no \in BOOLEAN : no = FALSE
    OBVIOUS
  <2>2. LET r == GetIdleEngine(w, s, no)
        IN  /\ Grown(w, r.w)
            /\ r.id # NoEngine => r.id \in Engines /\ Idle(r.w, r.id, no)
            /\ HasData(r.w, TabEngine) => HasData(w, TabEngine)
    BY IdleEngine
  <2> QED
    BY <2>1, <2>2
<1>3. u \in {w, v, x, ListSent(x, id)}
      /\ (s = NoSite => u = w)
      /\ (u = ListSent(x, id) => u \in {w, v, x} \/ (id # NoEngine /\ IsConnected(v, id) /\ Data(v, id).site = s
                                   /\ Precondition(x, id, "list") = "wouldblock"))
  BY DEF TryRefreshListings, ListSent, Listing
<1> HIDE DEF v, id, x, idle, u
<1>4. Goal(w)
  BY AlikeSelf DEF SameLists, SameMode, Unmoved
<1>5. Rested(w, v) /\ v.tab = w.tab /\ v.q.inside = w.q.inside /\ \A e \in Own : Unmoved(w, v, e)
  BY <1>2, GrownRested
<1>6. Goal(v)
  <2>1. SameMode(w, v)
    BY <1>2 DEF Grown
  <2> QED
    BY <1>5, <2>1 DEF Rested
<1>7. Book(v) /\ v \in Worlds
  BY <1>2 DEF Grown, Book
<1>8. Book(x) /\ x.item = v.item /\ x.tab = v.tab /\ x.net = v.net /\ SameMode(v, x)
      /\ SameEngines(v, x) /\ SameLists(v, x)
  <2>1. Book(x)
    <3>1. \A b \in BOOLEAN : Book([v EXCEPT !.q.refreshed = b])
      BY <1>7, BookSets
    <3> QED
      BY <3>1 DEF x
  <2>2. PICK yes \in BOOLEAN : yes = TRUE
    OBVIOUS
  <2> DEFINE y == [v EXCEPT !.q.refreshed = yes]
  <2>3. y.item = v.item /\ y.tab = v.tab /\ y.net = v.net
        /\ y.q.mode = v.q.mode /\ y.q.inside = v.q.inside /\ y.q.sending = v.q.sending
        /\ y.q.refused = v.q.refused /\ SameEngines(v, y) /\ SameLists(v, y)
    BY <1>7, RefreshedSet
  <2>4. y = x
    BY <2>2 DEF x
  <2> QED
    BY <2>1, <2>3, <2>4 DEF SameMode
<1>9. Goal(x)
  BY <1>6, <1>8 DEF SameMode, SameEngines, SameLists, HasData, Unmoved
<1>10. ASSUME u = ListSent(x, id), u \notin {w, v, x}
       PROVE  Goal(u)
  <2>1. id # NoEngine /\ IsConnected(v, id) /\ v.q.data[id].site = s
        /\ Precondition(x, id, "list") = "wouldblock" /\ s # NoSite
    BY <1>3, <1>10 DEF Data
  <2>2. id \in Own /\ HasData(v, id) /\ ~v.q.data[id].active
    BY <1>2, <2>1 DEF Idle, Own
  <2>3. x.net[id].cmd = "none"
    BY <2>1 DEF Precondition
  <2>4. HasData(x, id) /\ ~x.q.data[id].active /\ x.q.data[id].site = s /\ IsConnected(x, id)
    BY <1>8, <2>1, <2>2 DEF SameEngines, HasData, IsConnected
  <2>5. Book(ListSent(x, id))
    BY <1>8, <2>2, <2>4, BookListing
  <2>6. /\ u \in Worlds /\ u.item = x.item /\ u.tab = x.tab
        /\ u.net = [x.net EXCEPT ![id] = Executing(x.net[id], "list", NoItem)]
        /\ u.q.data = [x.q.data EXCEPT ![id] = Listing(x.q.data[id])]
        /\ u.q.engines = x.q.engines /\ SameLists(x, u) /\ SameMode(x, u)
    BY <1>1, <1>8, <1>10, <2>2, ListViews DEF Book
  <2>7. x.q.data \in [Engines -> DataRec] /\ x.net \in [Engines -> NetRec]
    BY <1>8, WorldParts DEF Book
  <2>8. HasData(w, id)
    <3>1. IsConnected(w, id)
      BY <2>1, <1>2 DEF Grown, IsConnected
    <3>2. CASE ~HasData(w, id)
      <4>1. v.q.data[id] = NewData("none")
        BY <1>1, <1>2, <2>2, <3>2 DEF Grown, NewState, Own
      <4> QED
        BY <2>1, <4>1 DEF NewData
    <3> QED
      BY <3>2
  <2>9. x.q.data[id] = w.q.data[id] /\ x.net[id] = w.net[id]
    <3>1. v.q.data[id] = w.q.data[id] /\ v.net[id] = w.net[id]
      BY <1>1, <1>2, <2>2, <2>8 DEF Grown
    <3> QED
      BY <1>8, <3>1 DEF SameEngines
  <2>10. ASSUME NEW e \in Own
         PROVE  /\ HasData(w, e) => HasData(u, e)
                /\ \/ Unmoved(w, u, e)
                   \/ /\ HasData(w, e) /\ ~w.q.data[e].active /\ w.net[e].cmd = "none"
                      /\ IsConnected(w, e)
                      /\ w.tab.site # NoSite /\ w.q.data[e].site = w.tab.site
                      /\ u.q.data[e] = Listing(w.q.data[e])
                      /\ u.net[e] = Executing(w.net[e], "list", NoItem)
    <3>1. HasData(w, e) => HasData(u, e)
      BY <1>9, <2>6 DEF HasData
    <3>2. CASE e = id
      <4>1. u.q.data[e] = Listing(w.q.data[e]) /\ u.net[e] = Executing(w.net[e], "list", NoItem)
        BY <1>1, <2>6, <2>7, <2>9, <3>2
      <4> QED
        BY <2>1, <2>3, <2>4, <2>8, <2>9, <3>1, <3>2, <4>1 DEF IsConnected
    <3>3. CASE e # id
      <4>1. u.q.data[e] = x.q.data[e] /\ u.net[e] = x.net[e]
        BY <1>1, <2>6, <2>7, <3>3
      <4>2. Unmoved(w, x, e)
        <5>1. Unmoved(w, v, e)
          BY <1>5
        <5> QED
          BY <1>8, <5>1 DEF Unmoved, SameEngines
      <4> QED
        BY <3>1, <4>1, <4>2 DEF Unmoved
    <3> QED
      BY <3>2, <3>3
  <2>11. /\ u.q.data[TabEngine] = w.q.data[TabEngine] /\ u.net[TabEngine] = w.net[TabEngine]
         /\ HasData(u, TabEngine) <=> HasData(w, TabEngine)
    <3>1. id # TabEngine
      BY <1>1, <2>2
    <3> QED
      BY <1>1, <1>9, <2>6, <2>7, <3>1 DEF HasData
  <2>12. SameMode(w, u) /\ SameLists(w, u) /\ u.item = w.item /\ u.tab = w.tab
    BY <1>9, <2>6 DEF SameMode, SameLists
  <2> QED
    BY <1>10, <2>5, <2>10, <2>11, <2>12
<1>11. Goal(u)
  <2> HIDE DEF Goal
  <2> QED
    BY <1>3, <1>4, <1>6, <1>9, <1>10
<1> QED
  BY <1>11 DEF u

LEMMA RestViews ==
    ASSUME NEW w, Book(w)
    PROVE  LET u == Rest(w)
           IN  Rested(w, u) /\ u.tab = w.tab /\ u.q.inside = w.q.inside
               /\ (w.q.mode = 0 => u.q.engines = w.q.engines)
<1> DEFINE u == Rest(w)
           x == [w EXCEPT !.q.mode = 0]
<1>1. w \in Worlds /\ TabEngine \in Engines /\ Own \subseteq Engines
  BY QueueAssumption DEF Engines, TabEngine, Own, Book
<1>2. Rested(w, w)
  BY AlikeSelf DEF Rested, Unmoved, SameLists
<1>3. CASE w.q.count # 0 \/ w.q.mode = 0
  BY <1>2, <1>3 DEF Rest
<1>4. CASE w.q.count = 0 /\ w.q.mode # 0
  <2>1. u = TryRefreshListings(x)
    BY <1>4 DEF Rest
  <2>2. PICK m \in 0 .. 2 : m = 0
    OBVIOUS
  <2>3. Book([w EXCEPT !.q.mode = m]) /\ [w EXCEPT !.q.mode = m].item = w.item
        /\ [w EXCEPT !.q.mode = m].tab = w.tab /\ [w EXCEPT !.q.mode = m].net = w.net
        /\ [w EXCEPT !.q.mode = m].q.mode = m
        /\ [w EXCEPT !.q.mode = m].q.inside = w.q.inside
        /\ [w EXCEPT !.q.mode = m].q.sending = w.q.sending
        /\ [w EXCEPT !.q.mode = m].q.refused = w.q.refused
        /\ SameEngines(w, [w EXCEPT !.q.mode = m]) /\ SameCounts(w, [w EXCEPT !.q.mode = m])
        /\ SameLists(w, [w EXCEPT !.q.mode = m])
    BY <1>1, ModeSet, BookSets
  <2>4. Book(x) /\ x.item = w.item /\ x.tab = w.tab /\ x.net = w.net /\ x.q.mode = 0
        /\ x.q.inside = w.q.inside /\ x.q.sending = w.q.sending /\ x.q.refused = w.q.refused
        /\ SameEngines(w, x) /\ SameCounts(w, x) /\ SameLists(w, x)
    BY <2>2, <2>3
  <2> HIDE DEF x, u
  <2>5. x.q.count = 0
    BY <1>4, <2>4 DEF SameCounts
  <2>6. /\ Book(u) /\ u.item = x.item /\ SameLists(x, u)
        /\ u.tab = x.tab /\ SameMode(x, u)
        /\ u.q.data[TabEngine] = x.q.data[TabEngine] /\ u.net[TabEngine] = x.net[TabEngine]
        /\ HasData(u, TabEngine) <=> HasData(x, TabEngine)
        /\ \A e \in Own :
             /\ HasData(x, e) => HasData(u, e)
             /\ \/ Unmoved(x, u, e)
                \/ /\ HasData(x, e) /\ ~x.q.data[e].active /\ x.net[e].cmd = "none"
                   /\ IsConnected(x, e)
                   /\ x.tab.site # NoSite /\ x.q.data[e].site = x.tab.site
                   /\ u.q.data[e] = Listing(x.q.data[e])
                   /\ u.net[e] = Executing(x.net[e], "list", NoItem)
    BY <2>1, <2>4, <2>5, RefreshViews
  <2>7. \A e \in Own :
             /\ HasData(w, e) => HasData(u, e)
             /\ Unmoved(w, u, e) \/ Refreshing(w, u, e)
    <3>1. TAKE e \in Own
    <3>2. HasData(w, e) => HasData(u, e)
      BY <2>4, <2>6 DEF SameEngines, HasData
    <3>3. CASE Unmoved(x, u, e)
      BY <2>4, <3>2, <3>3 DEF SameEngines, Unmoved
    <3>4. CASE ~Unmoved(x, u, e)
      <4>1. /\ HasData(x, e) /\ ~x.q.data[e].active /\ x.net[e].cmd = "none"
            /\ IsConnected(x, e)
            /\ x.tab.site # NoSite /\ x.q.data[e].site = x.tab.site
            /\ u.q.data[e] = Listing(x.q.data[e])
            /\ u.net[e] = Executing(x.net[e], "list", NoItem)
        BY <2>6, <3>4
      <4>2. Alike(Listing(w.q.data[e]), u.q.data[e])
        BY <2>4, <4>1, AlikeSelf DEF SameEngines
      <4> QED
        BY <1>4, <2>4, <3>2, <4>1, <4>2 DEF SameEngines, HasData, Refreshing, IsConnected
    <3> QED
      BY <3>3, <3>4
  <2>8. Rested(w, u)
    BY <1>4, <2>4, <2>6, <2>7 DEF Rested, SameLists, SameMode, SameEngines, HasData
  <2> QED
    BY <1>4, <2>4, <2>6, <2>8 DEF SameMode, u
<1> QED
  BY <1>3, <1>4

(* CheckQueueState, and all of AdvanceQueue behind its loop.               *)
Settled(w, u) ==
    /\ Book(u) /\ u.item = w.item /\ SameLists(w, u)
    /\ u.q.sending = w.q.sending /\ u.q.refused = w.q.refused
    /\ u.q.mode = w.q.mode \/ (u.q.mode = 0 /\ w.q.count = 0)
    /\ u.tab = IF Unused(w) THEN ReleaseEngine(w).tab ELSE w.tab
    /\ u.q.data[TabEngine] = IF Unused(w) THEN NewData("none") ELSE w.q.data[TabEngine]
    /\ HasData(u, TabEngine) <=> HasData(w, TabEngine) /\ ~Unused(w)
    /\ u.net[TabEngine] = w.net[TabEngine]
    /\ \A e \in Own :
         /\ HasData(w, e) => HasData(u, e)
         /\ Unmoved(w, u, e) \/ Refreshing(w, u, e)

(* The engines are the same but for that of the tab.                       *)
Halts(w, u) ==
    u.q.engines = IF Unused(w) THEN Without(w.q.engines, TabEngine) ELSE w.q.engines

LEMMA CheckViews ==
    ASSUME NEW w, Book(w)
    PROVE  LET u == CheckQueueState(w)
           IN  Settled(w, u) /\ u.q.inside = w.q.inside /\ (w.q.mode = 0 => Halts(w, u))
<1> DEFINE u == CheckQueueState(w)
           v == ReleaseEngine(w)
           x == Forget(v)
<1>1. w \in Worlds /\ TabEngine \in Engines /\ Own \subseteq Engines /\ TabEngine \notin Own
  BY QueueAssumption DEF Engines, TabEngine, Own, Book
<1>2. CASE ~Unused(w)
  <2>1. u = Rest(w)
    BY <1>2 DEF CheckQueueState
  <2>2. Rested(w, u) /\ u.tab = w.tab /\ u.q.inside = w.q.inside
        /\ (w.q.mode = 0 => u.q.engines = w.q.engines)
    BY <2>1, RestViews
  <2> HIDE DEF u
  <2>3. Settled(w, u) /\ (w.q.mode = 0 => Halts(w, u))
    BY <1>2, <2>2 DEF Rested, Settled, Halts
  <2> QED
    BY <2>2, <2>3 DEF u
<1>3. CASE Unused(w)
  <2>1. u = Rest(x)
    BY <1>3 DEF CheckQueueState
  <2>2. Book(v) /\ v.q = w.q /\ v.item = w.item /\ v.net = w.net /\ v \in Worlds
    BY <1>1, BookRelease, ReleaseSet
  <2>3. Unused(v) <=> Unused(w)
    BY <2>2 DEF Unused, HasData, Data
  <2> HIDE DEF v
  <2>4. Book(x) /\ \A e \in Engines : HasData(x, e) <=> HasData(v, e) /\ e # TabEngine
    BY <1>3, <2>2, <2>3, BookForget
  <2>5. /\ x.item = v.item /\ x.tab = v.tab /\ x.net = v.net
        /\ x.q.data = [v.q.data EXCEPT ![TabEngine] = NewData("none")]
        /\ SameCounts(v, x) /\ SameLists(v, x) /\ SameMode(v, x)
        /\ x.q.engines = Without(v.q.engines, TabEngine)
    BY <2>2, ForgetViews
  <2> HIDE DEF x, u
  <2>6. Rested(x, u) /\ u.tab = x.tab /\ u.q.inside = x.q.inside
        /\ (x.q.mode = 0 => u.q.engines = x.q.engines)
    BY <2>1, <2>4, RestViews
  <2>7. w.q.data \in [Engines -> DataRec]
    BY <1>1, WorldParts
  <2>8. x.q.data[TabEngine] = NewData("none") /\ \A e \in Own : x.q.data[e] = w.q.data[e]
    BY <1>1, <2>2, <2>5, <2>7
  <2>9. \A e \in Own : HasData(x, e) <=> HasData(w, e)
    <3>1. \A e \in Own : HasData(v, e) <=> HasData(w, e)
      BY <2>2 DEF HasData
    <3> QED
      BY <1>1, <2>4, <3>1
  <2>10. \A e \in Own :
             /\ HasData(w, e) => HasData(u, e)
             /\ Unmoved(w, u, e) \/ Refreshing(w, u, e)
    <3>1. TAKE e \in Own
    <3>2. HasData(w, e) => HasData(u, e)
      BY <2>6, <2>9 DEF Rested
    <3>3. CASE Unmoved(x, u, e)
      BY <2>2, <2>5, <2>8, <3>2, <3>3 DEF Unmoved
    <3>4. CASE Refreshing(x, u, e)
      <4>1. /\ HasData(x, e) /\ ~x.q.data[e].active /\ x.net[e].cmd = "none" /\ IsConnected(x, e)
            /\ x.tab.site # NoSite /\ x.q.data[e].site = x.tab.site
            /\ x.q.mode # 0 /\ x.q.count = 0
            /\ Alike(Listing(x.q.data[e]), u.q.data[e])
            /\ u.net[e] = Executing(x.net[e], "list", NoItem)
        BY <3>4 DEF Refreshing
      <4>2. x.net = w.net /\ x.q.mode = w.q.mode /\ x.q.count = w.q.count
            /\ x.tab.site = w.tab.site
        <5>1. v.tab.site = w.tab.site
          <6>1. v.tab = IF ~w.tab.wants THEN w.tab
                        ELSE [w.tab EXCEPT !.wants = FALSE, !.lock = FALSE]
            BY <1>1, ReleaseSet DEF v
          <6>2. w.tab \in TabRec
            BY <1>1, WorldParts
          <6> QED
            BY <6>1, <6>2 DEF TabRec
        <5> QED
          BY <2>2, <2>5, <5>1 DEF SameMode, SameCounts
      <4> QED
        BY <2>8, <2>9, <3>2, <4>1, <4>2 DEF Refreshing, IsConnected
    <3> QED
      BY <2>6, <3>3, <3>4 DEF Rested
  <2>11. ~HasData(u, TabEngine) /\ u.q.data[TabEngine] = NewData("none")
         /\ u.net[TabEngine] = w.net[TabEngine]
    BY <1>1, <2>2, <2>4, <2>5, <2>6, <2>8 DEF Rested
  <2>12. u.tab = v.tab
    BY <2>5, <2>6
  <2>13. Book(u) /\ u.item = w.item /\ SameLists(w, u)
         /\ u.q.sending = w.q.sending /\ u.q.refused = w.q.refused
         /\ (u.q.mode = w.q.mode \/ (u.q.mode = 0 /\ w.q.count = 0))
         /\ u.q.inside = w.q.inside
    BY <2>2, <2>5, <2>6 DEF Rested, SameLists, SameMode, SameCounts
  <2>14. Settled(w, u)
    BY <1>3, <2>10, <2>11, <2>12, <2>13 DEF Settled, v
  <2>15. w.q.mode = 0 => Halts(w, u)
    BY <1>3, <2>2, <2>5, <2>6 DEF Halts, SameMode
  <2> QED
    BY <2>13, <2>14, <2>15 DEF u
<1> QED
  BY <1>2, <1>3

LEMMA AlikeListing ==
    ASSUME NEW d \in DataRec, NEW e \in DataRec, Alike(d, e)
    PROVE  Alike(Listing(d), Listing(e))
<1>1. Listing(d).active /\ Listing(d).state = "list" /\ Listing(d).item = d.item
      /\ Listing(d).site = d.site
  BY ListingType
<1>2. Listing(e).active /\ Listing(e).state = "list" /\ Listing(e).item = e.item
      /\ Listing(e).site = e.site
  BY ListingType
<1> QED
  BY <1>1, <1>2 DEF Alike, Listing, DataRec

LEMMA EndsViews ==
    ASSUME NEW w, Book(w)
    PROVE  LET u == AdvanceQueueEnds(w)
           IN  Settled(w, u) /\ ~u.q.inside /\ (w.q.mode = 0 => Halts(w, u))
<1> DEFINE v == LoopLeft(w)
           u == AdvanceQueueEnds(w)
<1>1. w \in Worlds /\ TabEngine \in Engines /\ Own \subseteq Engines /\ TabEngine \notin Own
  BY QueueAssumption DEF Engines, TabEngine, Own, Book
<1>2. u = CheckQueueState(v)
  BY DEF AdvanceQueueEnds, LoopLeft, Timed
<1>3. /\ v \in Worlds /\ v.item = w.item /\ v.tab = w.tab /\ v.net = w.net
      /\ v.q.data = [id \in Engines |-> Timed(w, id)]
      /\ v.q.engines = w.q.engines /\ ~v.q.inside
      /\ SameCounts(w, v) /\ SameLists(w, v)
      /\ v.q.mode = w.q.mode /\ v.q.sending = w.q.sending /\ v.q.refused = w.q.refused
  BY <1>1, TimedViews
<1>4. Book(v)
  BY BookTimed
<1> HIDE DEF v, u
<1>5. Settled(v, u) /\ u.q.inside = v.q.inside /\ (v.q.mode = 0 => Halts(v, u))
  BY <1>2, <1>4, CheckViews
<1>6. v.q.data[TabEngine] = w.q.data[TabEngine]
  BY <1>1, <1>3 DEF Timed, Data
<1>7. \A e \in Own : Alike(w.q.data[e], v.q.data[e])
  BY <1>1, <1>3, TimedData DEF Alike
<1>8. \A e \in Engines : HasData(v, e) <=> HasData(w, e)
  BY <1>3 DEF HasData
<1>9. Unused(v) <=> Unused(w)
  BY <1>1, <1>6, <1>8 DEF Unused, Data
<1>10. ReleaseEngine(v).tab = ReleaseEngine(w).tab
  <2>1. LET r == ReleaseEngine(v)
        IN  r.tab = IF ~v.tab.wants THEN v.tab ELSE [v.tab EXCEPT !.wants = FALSE, !.lock = FALSE]
    BY <1>3, ReleaseSet
  <2>2. LET r == ReleaseEngine(w)
        IN  r.tab = IF ~w.tab.wants THEN w.tab ELSE [w.tab EXCEPT !.wants = FALSE, !.lock = FALSE]
    BY <1>1, ReleaseSet
  <2> QED
    BY <1>3, <2>1, <2>2
<1>11. \A e \in Own :
             /\ HasData(w, e) => HasData(u, e)
             /\ Unmoved(w, u, e) \/ Refreshing(w, u, e)
  <2>1. TAKE e \in Own
  <2>2. HasData(w, e) => HasData(u, e)
    BY <1>1, <1>5, <1>8 DEF Settled
  <2>3. CASE Unmoved(v, u, e)
    BY <1>3, <1>7, <2>2, <2>3 DEF Unmoved, Alike
  <2>4. CASE Refreshing(v, u, e)
    <3>1. Alike(Listing(w.q.data[e]), u.q.data[e])
      <4>1. w.q.data[e] \in DataRec /\ v.q.data[e] \in DataRec
        BY <1>1, <1>3, DataType
      <4>2. Alike(Listing(w.q.data[e]), Listing(v.q.data[e]))
        BY <1>7, <4>1, AlikeListing
      <4> QED
        BY <2>4, <4>2 DEF Refreshing, Alike
    <3>2. ~w.q.data[e].active /\ w.q.data[e].site = w.tab.site
      BY <1>3, <1>7, <2>4 DEF Refreshing, Alike
    <3> QED
      BY <1>1, <1>3, <1>8, <2>2, <2>4, <3>1, <3>2 DEF Refreshing, IsConnected, SameCounts
  <2> QED
    BY <1>5, <2>3, <2>4 DEF Settled
<1>12. Settled(w, u)
  <2>1. HasData(u, TabEngine) <=> HasData(w, TabEngine) /\ ~Unused(w)
    BY <1>1, <1>5, <1>8, <1>9 DEF Settled
  <2>2. u.tab = (IF Unused(w) THEN ReleaseEngine(w).tab ELSE w.tab)
        /\ u.q.data[TabEngine] = (IF Unused(w) THEN NewData("none") ELSE w.q.data[TabEngine])
    BY <1>3, <1>5, <1>6, <1>9, <1>10 DEF Settled
  <2>3. Book(u) /\ u.item = w.item /\ SameLists(w, u)
        /\ u.q.sending = w.q.sending /\ u.q.refused = w.q.refused
        /\ (u.q.mode = w.q.mode \/ (u.q.mode = 0 /\ w.q.count = 0))
        /\ u.net[TabEngine] = w.net[TabEngine]
    BY <1>3, <1>5 DEF Settled, SameLists, SameCounts
  <2> QED
    BY <1>11, <2>1, <2>2, <2>3 DEF Settled
<1>13. w.q.mode = 0 => Halts(w, u)
  BY <1>3, <1>5, <1>9 DEF Halts
<1> QED
  BY <1>3, <1>5, <1>12, <1>13 DEF u

-----------------------------------------------------------------------------
(* The queue is stopped.                                                   *)
Released(t) == IF ~t.wants THEN t ELSE [t EXCEPT !.wants = FALSE, !.lock = FALSE]

(* An engine may be cancelled.                                             *)
Cancelled(n, m) == m = n \/ (n.cmd # "none" /\ m = [n EXCEPT !.cancel = TRUE])

(* A tab that the queue waits for is given back.                           *)
GivesBack(w, u) ==
    /\ w.q.data[TabEngine].active /\ w.q.data[TabEngine].state = "waitprimary"
    /\ u.q.data[TabEngine] = NewData("none") /\ ~HasData(u, TabEngine)
    /\ u.tab = Released(w.tab)

SameTab(w, u) ==
    /\ u.q.data[TabEngine] = w.q.data[TabEngine] /\ u.tab = w.tab
    /\ HasData(u, TabEngine) <=> HasData(w, TabEngine)

Halted(w, u) ==
    /\ Book(u) /\ u.q.mode = 0 /\ u.q.sending = w.q.sending /\ u.q.refused = w.q.refused
    /\ u.q.inside => w.q.inside
    /\ \A i \in Items : u.item[i].where = w.item[i].where /\ u.item[i].sent = w.item[i].sent
    /\ \A e \in Own :
         /\ Alike(w.q.data[e], u.q.data[e])
         /\ HasData(u, e) <=> HasData(w, e)
    /\ \A e \in Engines : Cancelled(w.net[e], u.net[e])
    /\ SameTab(w, u) \/ GivesBack(w, u)

(* Engine id has been told to stop, if it has to be.                       *)
Told(w, id) ==
    \/ ~w.q.data[id].active
    \/ w.q.data[id].state # "waitprimary" /\ (w.net[id].cancel \/ w.net[id].cmd = "none")

(* The engine of a tab waits while it has been asked for.                  *)
Waits(w) == w.q.data[TabEngine].active /\ w.q.data[TabEngine].state = "waitprimary"

LEMMA ReleasedTwice ==
    ASSUME NEW t \in TabRec
    PROVE  Released(t) \in TabRec /\ Released(Released(t)) = Released(t)
           /\ Released(t).site = t.site /\ Released(t).cmd = t.cmd /\ Released(t).listing = t.listing
BY DEF Released, TabRec

LEMMA ReleaseViews ==
    ASSUME NEW w \in Worlds
    PROVE  ReleaseEngine(w).tab = Released(w.tab)
BY ReleaseSet DEF Released

LEMMA CancelledTwice ==
    ASSUME NEW n \in NetRec, NEW m, NEW k, Cancelled(n, m), Cancelled(m, k)
    PROVE  Cancelled(n, k) /\ k.cmd = n.cmd /\ (m.cancel => k.cancel) /\ k.inbox = n.inbox
           /\ k.server = n.server /\ k.to = n.to /\ k.late = n.late /\ m.cmd = n.cmd
<1>1. CASE m = n
  BY <1>1 DEF Cancelled, NetRec
<1>2. CASE n.cmd # "none" /\ m = [n EXCEPT !.cancel = TRUE]
  <2>1. m.cmd = n.cmd /\ m.cancel /\ m.inbox = n.inbox /\ m.server = n.server /\ m.to = n.to
        /\ m.late = n.late
    BY <1>2 DEF NetRec
  <2>2. CASE k = m
    BY <1>2, <2>1, <2>2 DEF Cancelled
  <2>3. CASE k = [m EXCEPT !.cancel = TRUE]
    <3>1. k = m
      BY <1>2, <2>3 DEF NetRec
    <3> QED
      BY <1>2, <2>1, <3>1 DEF Cancelled
  <2> QED
    BY <2>2, <2>3 DEF Cancelled
<1> QED
  BY <1>1, <1>2 DEF Cancelled

LEMMA HaltedSelf ==
    ASSUME NEW w, Book(w), w.q.mode = 0
    PROVE  Halted(w, w)
BY AlikeSelf DEF Halted, Cancelled, SameTab

LEMMA HaltedTwice ==
    ASSUME NEW w, Book(w), NEW v, NEW u, Halted(w, v), Halted(v, u)
    PROVE  Halted(w, u) /\ \A e \in Engines : Told(v, e) => Told(u, e)
<1>1. w \in Worlds /\ TabEngine \in Engines /\ Own \subseteq Engines /\ Own = Engines \ {TabEngine}
  BY QueueAssumption DEF Engines, TabEngine, Own, Book
<1>2. \A e \in Engines : Cancelled(w.net[e], u.net[e]) /\ u.net[e].cmd = v.net[e].cmd
                         /\ (v.net[e].cancel => u.net[e].cancel)
  <2>1. TAKE e \in Engines
  <2>2. w.net[e] \in NetRec
    BY <1>1, NetType
  <2> QED
    BY <2>2, CancelledTwice DEF Halted
<1>3. SameTab(w, u) \/ GivesBack(w, u)
  <2>1. CASE SameTab(w, v) /\ SameTab(v, u)
    BY <2>1 DEF SameTab
  <2>2. CASE SameTab(w, v) /\ GivesBack(v, u)
    BY <2>2 DEF SameTab, GivesBack
  <2>3. CASE GivesBack(w, v) /\ SameTab(v, u)
    BY <2>3 DEF SameTab, GivesBack
  <2>4. CASE GivesBack(w, v) /\ GivesBack(v, u)
    BY <2>4 DEF GivesBack, NewData
  <2> QED
    BY <2>1, <2>2, <2>3, <2>4 DEF Halted
<1>4. \A e \in Own : Alike(w.q.data[e], u.q.data[e]) /\ (HasData(u, e) <=> HasData(w, e))
  BY DEF Halted, Alike
<1>5. Halted(w, u)
  BY <1>2, <1>3, <1>4 DEF Halted
<1>6. ASSUME NEW e \in Engines, Told(v, e) PROVE Told(u, e)
  <2>1. u.q.data[e].active => v.q.data[e].active /\ u.q.data[e].state = v.q.data[e].state
    <3>1. CASE e \in Own
      BY <3>1 DEF Halted, Alike
    <3>2. CASE e = TabEngine
      BY <3>2 DEF Halted, SameTab, GivesBack, NewData
    <3> QED
      BY <1>1, <3>1, <3>2
  <2> QED
    BY <1>2, <1>6, <2>1 DEF Told
<1> QED
  BY <1>5, <1>6

LEMMA StopViews ==
    ASSUME NEW w, Book(w), w.q.mode = 0, NEW id \in Engines
    PROVE  LET u == StopEngine(w, id)
           IN  /\ Halted(w, u) /\ Told(u, id)
               /\ \/ u.q.engines = w.q.engines
                  \/ /\ id = TabEngine /\ HasData(w, TabEngine) /\ Waits(w)
                     /\ u.q.engines = Without(w.q.engines, TabEngine)
<1> DEFINE u == StopEngine(w, id)
           d == w.q.data[id]
<1>1. w \in Worlds /\ TabEngine \in Engines /\ Own \subseteq Engines /\ Own = Engines \ {TabEngine}
      /\ DataOK(w) /\ ToOK(w)
  BY QueueAssumption DEF Engines, TabEngine, Own, Book
<1>2. CASE ~d.active
  <2>1. u = w
    BY <1>2 DEF StopEngine, Data
  <2>2. Told(w, id)
    BY <1>2 DEF Told
  <2> HIDE DEF u
  <2> QED
    BY <2>1, <2>2, HaltedSelf DEF u
<1>3. CASE d.active /\ d.state = "waitprimary"
  <2> DEFINE r == Reset(w, id, "reset")
  <2>1. u = AdvanceQueueEnds(r)
    BY <1>3 DEF StopEngine, Data
  <2>2. id = TabEngine /\ HasData(w, id)
    <3>1. GoodData(id, d) /\ (~HasData(w, id) => d = NewData("none"))
      BY <1>1 DEF DataOK
    <3> QED
      BY <1>3, <3>1 DEF GoodData, NewData
  <2>3. "reset" \in Reasons /\ Stays("reset")
    BY DEF Reasons, Stays
  <2>4. Book(r)
    BY <1>3, <2>3, BookReset
  <2>5. /\ FreedData(w, r, id)
        /\ d.item = NoItem => FreedOfNone(w, r)
        /\ d.item # NoItem => FreedOf(w, r, d.item, "reset")
    BY <1>1, <2>3, ResetViews
  <2> HIDE DEF r, u
  <2>6. /\ r \in Worlds /\ r.net = w.net /\ SameMode(w, r) /\ r.q.engines = w.q.engines
        /\ r.tab = ReleaseEngine(w).tab
        /\ r.q.data = [w.q.data EXCEPT ![id] = Freed(d)]
    BY <1>3, <2>5 DEF FreedData
  <2>7. \A i \in Items : r.item[i].where = w.item[i].where /\ r.item[i].sent = w.item[i].sent
    <3>1. TAKE i \in Items
    <3>2. CASE d.item = NoItem
      BY <2>5, <3>2 DEF FreedOfNone
    <3>3. CASE d.item # NoItem /\ i # d.item
      BY <2>5, <3>3 DEF FreedOf
    <3>4. CASE d.item # NoItem /\ i = d.item
      <4>1. r.item[i] = Left(w.item[i], "reset")
        BY <2>5, <3>4 DEF FreedOf
      <4>2. w.item[i] \in ItemRec
        BY <1>1, ItemType
      <4> QED
        BY <2>3, <4>1, <4>2, LeftFields
    <3> QED
      BY <3>2, <3>3, <3>4
  <2>8. Settled(r, u) /\ ~u.q.inside /\ (r.q.mode = 0 => Halts(r, u))
    BY <2>1, <2>4, EndsViews
  <2>9. w.q.data \in [Engines -> DataRec] /\ d \in DataRec
    BY <1>1, WorldParts, DataType
  <2>10. r.q.data[TabEngine] = Freed(d) /\ ~Freed(d).active
         /\ \A e \in Own : r.q.data[e] = w.q.data[e]
    BY <1>1, <2>2, <2>6, <2>9, FreedType
  <2>11. Unused(r)
    BY <2>2, <2>6, <2>10 DEF Unused, Data, HasData
  <2>12. r.q.mode = 0
    BY <2>6 DEF SameMode
  <2>13. u.q.engines = Without(w.q.engines, TabEngine)
    BY <2>6, <2>8, <2>11, <2>12 DEF Halts
  <2>14. GivesBack(w, u)
    <3>1. u.q.data[TabEngine] = NewData("none") /\ ~HasData(u, TabEngine)
          /\ u.tab = ReleaseEngine(r).tab
      BY <2>8, <2>11 DEF Settled
    <3>2. u.tab = Released(w.tab)
      <4>1. ReleaseEngine(r).tab = Released(r.tab) /\ r.tab = Released(w.tab)
        BY <1>1, <2>6, ReleaseViews
      <4>2. w.tab \in TabRec
        BY <1>1, WorldParts
      <4> QED
        BY <3>1, <4>1, <4>2, ReleasedTwice
    <3> QED
      BY <1>3, <2>2, <3>1, <3>2 DEF GivesBack
  <2>15. ASSUME NEW e \in Own
         PROVE  /\ Alike(w.q.data[e], u.q.data[e])
                /\ HasData(u, e) <=> HasData(w, e)
                /\ u.net[e] = w.net[e]
    <3>1. Unmoved(r, u, e)
      BY <2>8, <2>12 DEF Settled, Refreshing
    <3>2. HasData(u, e) <=> HasData(w, e)
      <4>1. w.q.engines \in Seq(Engines)
        BY <1>1, WorldParts
      <4>2. e # TabEngine
        BY <1>1
      <4> QED
        BY <2>13, <4>1, <4>2, WithoutHas DEF HasData
    <3> QED
      BY <2>6, <2>10, <3>1, <3>2 DEF Unmoved
  <2>16. \A e \in Engines : Cancelled(w.net[e], u.net[e])
    BY <1>1, <2>6, <2>8, <2>15 DEF Cancelled, Settled
  <2>17. Halted(w, u)
    <3>1. u.q.mode = 0
      BY <2>8, <2>12 DEF Settled
    <3>2. Book(u) /\ u.q.sending = w.q.sending /\ u.q.refused = w.q.refused
      BY <2>6, <2>8 DEF Settled, SameMode
    <3>3. \A i \in Items : u.item[i].where = w.item[i].where /\ u.item[i].sent = w.item[i].sent
      BY <2>7, <2>8 DEF Settled
    <3> QED
      BY <2>8, <2>14, <2>15, <2>16, <3>1, <3>2, <3>3 DEF Halted
  <2>18. Told(u, id)
    BY <2>2, <2>14 DEF Told, GivesBack, NewData
  <2>19. Waits(w)
    BY <1>3, <2>2 DEF Waits
  <2> QED
    BY <2>2, <2>13, <2>17, <2>18, <2>19 DEF u
<1>4. CASE d.active /\ d.state # "waitprimary"
  <2>1. u = CancelEngine(w, id)
    BY <1>4 DEF StopEngine, Data
  <2> HIDE DEF u
  <2>2. /\ u \in Worlds
        /\ u.net = IF w.net[id].cmd = "none" THEN w.net
                   ELSE [w.net EXCEPT ![id] = [w.net[id] EXCEPT !.cancel = TRUE]]
        /\ u.item = w.item /\ u.tab = w.tab /\ u.q = w.q
    BY <1>1, <2>1, CancelSet
  <2>3. w.net \in [Engines -> NetRec] /\ w.net[id] \in NetRec
    BY <1>1, WorldParts
  <2>4. \A e \in Engines : Cancelled(w.net[e], u.net[e])
    BY <2>2, <2>3 DEF Cancelled
  <2>5. Told(u, id)
    <3>1. CASE w.net[id].cmd = "none"
      BY <1>4, <2>2, <3>1 DEF Told
    <3>2. CASE w.net[id].cmd # "none"
      <4>1. u.net[id] = [w.net[id] EXCEPT !.cancel = TRUE]
        BY <2>2, <2>3, <3>2
      <4>2. u.net[id].cancel
        BY <2>3, <4>1 DEF NetRec
      <4> QED
        BY <1>4, <2>2, <4>2 DEF Told
    <3> QED
      BY <3>1, <3>2
  <2>6. Book(u)
    <3>1. ASSUME NEW e \in Engines PROVE u.net[e].cmd = w.net[e].cmd /\ u.net[e].to = w.net[e].to
      <4>1. w.net[e] \in NetRec
        BY <1>1, NetType
      <4> QED
        BY <2>4, <4>1 DEF Cancelled, NetRec
    <3>2. ToOK(u)
      BY <1>1, <3>1 DEF ToOK
    <3> QED
      BY <2>2, <3>2, BookOutside
  <2>7. Halted(w, u)
    BY <2>2, <2>4, <2>6, AlikeSelf DEF Halted, SameTab, HasData
  <2> QED
    BY <2>2, <2>5, <2>7 DEF u
<1> QED
  BY <1>2, <1>3, <1>4

LEMMA PutAllBack ==
    ASSUME NEW w, Book(w)
    PROVE  LET u == QueueImmediateFiles(w)
           IN  Book(u) /\ u.item = w.item /\ SameRest(w, u)
<1> DEFINE S == {i \in Items : w.item[i].active}
           now == [s \in Sites |-> Chosen(w.q.now[s], S)]
           later == [s \in Sites |-> Chosen(w.q.now[s], Items \ S) \o w.q.later[s]]
           u == WithLists(w, now, later)
<1>1. w \in Worlds
  BY DEF Book
<1>2. ASSUME NEW s \in Sites
      PROVE  /\ Chosen(w.q.now[s], S) \in Seq(Items) /\ Chosen(w.q.now[s], Items \ S) \in Seq(Items)
             /\ w.q.now[s] \in Seq(Items) /\ w.q.later[s] \in Seq(Items)
  <2>1. w.q.now[s] \in Seq(Items) /\ w.q.later[s] \in Seq(Items)
    BY <1>1, WorldParts
  <2> HIDE DEF S
  <2> QED
    BY <2>1, ChosenType
<1>3. u = QueueImmediateFiles(w)
  BY DEF QueueImmediateFiles
<1> HIDE DEF S
<1>4. now \in [Sites -> Seq(Items)] /\ later \in [Sites -> Seq(Items)]
  <2>1. ASSUME NEW s \in Sites
        PROVE  Chosen(w.q.now[s], Items \ S) \o w.q.later[s] \in Seq(Items)
    <3>1. PICK a \in Seq(Items) : a = Chosen(w.q.now[s], Items \ S)
      BY <1>2
    <3>2. PICK b \in Seq(Items) : b = w.q.later[s]
      BY <1>2
    <3>3. a \o b \in Seq(Items)
      OBVIOUS
    <3> QED
      BY <3>1, <3>2, <3>3
  <2> QED
    BY <1>2, <2>1
<1>5. \A s \in Sites, i \in Items : Contains(now[s] \o later[s], i) <=> Listed(w, s, i)
  <2>1. TAKE s \in Sites, i \in Items
  <2> DEFINE a == Chosen(w.q.now[s], S)
             b == Chosen(w.q.now[s], Items \ S)
             c == w.q.later[s]
             o == w.q.now[s]
  <2>2. a \in Seq(Items) /\ b \in Seq(Items) /\ c \in Seq(Items) /\ o \in Seq(Items)
    BY <1>2
  <2>3. (Contains(a, i) <=> Contains(o, i) /\ i \in S)
        /\ (Contains(b, i) <=> Contains(o, i) /\ i \in Items \ S)
    BY <2>2, ChosenHas
  <2>4. now[s] = a /\ later[s] = b \o c /\ Children(w, s) = o \o c
    BY DEF Children
  <2> HIDE DEF a, b, c, o, now, later
  <2>5. b \o c \in Seq(Items)
    BY <2>2
  <2>6. Contains(a \o (b \o c), i) <=> Contains(a, i) \/ Contains(b \o c, i)
    BY <2>2, <2>5, ConcatHas, ZenonT(40)
  <2>7. Contains(b \o c, i) <=> Contains(b, i) \/ Contains(c, i)
    BY <2>2, ConcatHas
  <2>8. Contains(o \o c, i) <=> Contains(o, i) \/ Contains(c, i)
    BY <2>2, ConcatHas
  <2> QED
    BY <2>3, <2>4, <2>6, <2>7, <2>8 DEF Listed
<1> HIDE DEF now, later, u
<1>6. Book(u)
  BY <1>4, <1>5, BookLists DEF u
<1>7. u.item = w.item /\ SameRest(w, u)
  BY <1>1, <1>4, ListsViews DEF u
<1> QED
  BY <1>3, <1>6, <1>7

(* The worlds of the loop of Deactivate.                                   *)
StopLoop(w, f, b) ==
    /\ f[0] = b
    /\ \A k \in 1 .. Len(w.q.engines) : f[k] = StopAt(f[k - 1], k)

Stopped == {u \in Worlds : Book(u) /\ u.q.mode = 0}

LEMMA StopAtStops ==
    ASSUME NEW w \in Stopped, NEW k \in Nat \ {0}
    PROVE  StopAt(w, k) \in Stopped /\ Halted(w, StopAt(w, k))
<1>1. w.q.engines \in Seq(Engines) /\ Book(w) /\ w.q.mode = 0
  BY WorldParts DEF Stopped
<1>2. CASE k > Len(w.q.engines)
  BY <1>1, <1>2, HaltedSelf DEF StopAt
<1>3. CASE ~(k > Len(w.q.engines))
  <2>1. w.q.engines[k] \in Engines
    BY <1>1, <1>3
  <2>2. StopAt(w, k) = StopEngine(w, w.q.engines[k])
    BY <1>3 DEF StopAt
  <2>3. Halted(w, StopAt(w, k))
    BY <1>1, <2>1, <2>2, StopViews
  <2> QED
    BY <2>3 DEF Halted, Book, Stopped
<1> QED
  BY <1>2, <1>3

LEMMA DeactivateLoop ==
    ASSUME NEW w, Book(w)
    PROVE  LET b == QueueImmediateFiles([w EXCEPT !.q.mode = 0])
           IN  /\ Halted(w, b) /\ b.q.engines = w.q.engines
               /\ \E f \in [0 .. Len(w.q.engines) -> Stopped] :
                      StopLoop(w, f, b) /\ Deactivate(w) = f[Len(w.q.engines)]
<1> DEFINE n == Len(w.q.engines)
           W == Stopped
           v == [w EXCEPT !.q.mode = 0]
           base == QueueImmediateFiles(v)
           Eq(f) == f = [k \in 0 .. n |-> IF k = 0 THEN base ELSE StopAt(f[k - 1], k)]
<1>1. n \in Nat /\ w \in Worlds
  <2>1. w \in Worlds
    BY DEF Book
  <2>2. w.q.engines \in Seq(Engines)
    BY <2>1, WorldParts
  <2> QED
    BY <2>1, <2>2
<1>2. Book(v) /\ v.item = w.item /\ v.tab = w.tab /\ v.net = w.net /\ v.q.mode = 0
      /\ v.q.inside = w.q.inside /\ v.q.sending = w.q.sending /\ v.q.refused = w.q.refused
      /\ SameEngines(w, v)
  <2>1. PICK m \in 0 .. 2 : m = 0
    OBVIOUS
  <2> DEFINE y == [w EXCEPT !.q.mode = m]
  <2>2. Book(y) /\ y.item = w.item /\ y.tab = w.tab /\ y.net = w.net /\ y.q.mode = m
        /\ y.q.inside = w.q.inside /\ y.q.sending = w.q.sending /\ y.q.refused = w.q.refused
        /\ SameEngines(w, y)
    BY <1>1, ModeSet, BookSets
  <2>3. y = v
    BY <2>1
  <2> QED
    BY <2>1, <2>2, <2>3
<1>3. Deactivate(w) = (CHOOSE f : Eq(f))[n]
  BY DEF Deactivate
<1> HIDE DEF v
<1>4. Book(base) /\ base.item = v.item /\ SameRest(v, base)
  BY <1>2, PutAllBack
<1> HIDE DEF base
<1>5. base.q.mode = 0 /\ base.q.inside = w.q.inside /\ base.q.sending = w.q.sending
      /\ base.q.refused = w.q.refused /\ SameEngines(w, base) /\ base.item = w.item
      /\ base.tab = w.tab /\ base.net = w.net
  BY <1>2, <1>4 DEF SameRest, SameMode, SameEngines
<1>6. Halted(w, base)
  BY <1>4, <1>5, AlikeSelf DEF Halted, SameTab, Cancelled, SameEngines, HasData
<1>7. base \in W
  BY <1>4, <1>5 DEF Book, Stopped
<1>8. \A u \in W, k \in 1 .. n : StopAt(u, k) \in W
  <2>1. \A k \in 1 .. n : k \in Nat \ {0}
    OBVIOUS
  <2> QED
    BY <2>1, StopAtStops
<1> HIDE DEF W, n
<1>9. PICK F : F = [u \in W |-> [k \in 1 .. n |-> StopAt(u, k)]]
  OBVIOUS
<1>10. PICK f \in [0 .. n -> W] : f[0] = base /\ \A k \in 1 .. n : f[k] = F[f[k - 1]][k]
  <2>1. F \in [W -> [1 .. n -> W]]
    BY <1>8, <1>9
  <2>2. PICK f \in [0 .. n -> W] : IsLoop(f, n, base, F)
    BY <1>1, <1>7, <2>1, LoopExists
  <2> QED
    BY <2>2 DEF IsLoop
<1>11. ASSUME NEW k \in 1 .. n PROVE f[k] = StopAt(f[k - 1], k)
  <2>1. f[k - 1] \in W
    BY <1>1, <1>10
  <2> QED
    BY <1>9, <1>10, <2>1
<1>12. Eq(f)
  <2>1. \A k \in 0 .. n : f[k] = IF k = 0 THEN base ELSE StopAt(f[k - 1], k)
    BY <1>1, <1>10, <1>11
  <2> QED
    BY <1>10, <2>1
<1>13. ASSUME NEW x, Eq(x) PROVE x = f
  <2>1. x[0] = base /\ x = [k \in 0 .. n |-> x[k]] /\ f = [k \in 0 .. n |-> f[k]]
    BY <1>13, <1>1, <1>10
  <2>2. \A k \in 1 .. n : x[k] = StopAt(x[k - 1], k)
    BY <1>13, <1>1
  <2>3. Agree(x, f, n)
    BY <2>2, <1>11 DEF Agree
  <2> HIDE DEF Eq
  <2> QED
    BY <2>1, <2>3, <1>1, <1>10, LoopUnique
<1>14. (CHOOSE x : Eq(x)) = f
  <2> HIDE DEF Eq
  <2> QED
    BY <1>12, <1>13
<1>15. StopLoop(w, f, base)
  BY <1>10, <1>11 DEF StopLoop, n
<1>16. base.q.engines = w.q.engines
  BY <1>5 DEF SameEngines
<1> QED
  BY <1>3, <1>6, <1>10, <1>14, <1>15, <1>16 DEF base, v, n, W

(* How far the loop of Deactivate has come: every engine up to index k has *)
(* been told, except the one that has taken the place of the tab's.        *)
AllTold(e, u, k) == u.q.engines = e /\ \A j \in 1 .. k : Told(u, e[j])

OneSkipped(e, u, k) ==
    \E p \in 1 .. k :
        /\ p =< Len(e) /\ e[p] = TabEngine /\ u.q.engines = Without(e, TabEngine)
        /\ \A j \in 1 .. Len(e) - 1 : j =< k /\ j # p => Told(u, u.q.engines[j])

(* The engine, if any, that the walk skips: the one behind the tab's.      *)
Skipped(w) ==
    {w.q.engines[k] : k \in {k \in 2 .. Len(w.q.engines) :
        w.q.engines[k - 1] = TabEngine /\ Waits(w)}}

LEMMA HaltedWaits ==
    ASSUME NEW w, NEW u, Halted(w, u), Waits(u)
    PROVE  Waits(w)
BY DEF Halted, SameTab, GivesBack, NewData, Waits

LEMMA DeactivateViews ==
    ASSUME NEW w, Book(w)
    PROVE  LET u == Deactivate(w)
           IN  /\ Halted(w, u) /\ Told(u, TabEngine)
               /\ \A id \in Engines \ Skipped(w) : Told(u, id)
<1> DEFINE e == w.q.engines
           n == Len(e)
           b == QueueImmediateFiles([w EXCEPT !.q.mode = 0])
           u == Deactivate(w)
<1>1. PICK f \in [0 .. n -> Stopped] : StopLoop(w, f, b) /\ u = f[n]
  BY DeactivateLoop
<1>2. Halted(w, b) /\ b.q.engines = e
  BY DeactivateLoop
<1>3. e \in Seq(Engines) /\ n \in Nat /\ w \in Worlds /\ Distinct(e)
  <2>1. w \in Worlds /\ Distinct(e)
    BY DEF Book, ListOK
  <2>2. e \in Seq(Engines)
    BY <2>1, WorldParts
  <2> QED
    BY <2>1, <2>2
<1> HIDE DEF b, u
<1> DEFINE Walked(v, k) == /\ Halted(w, v)
                           /\ AllTold(e, v, k) \/ (Waits(w) /\ OneSkipped(e, v, k))
           T == {k \in 0 .. n : Walked(f[k], k)}
<1>4. 0 \in T
  BY <1>1, <1>2, <1>3 DEF StopLoop, AllTold
<1>5. ASSUME NEW k \in 1 .. n, k - 1 \in T PROVE k \in T
  <2> DEFINE v == f[k - 1]
             y == f[k]
  <2>1. v \in Stopped /\ y = StopAt(v, k) /\ k \in Nat \ {0} /\ k - 1 \in Nat
    <3>1. k - 1 \in 0 .. n /\ k \in Nat \ {0} /\ k - 1 \in Nat
      BY <1>3
    <3> QED
      BY <1>1, <3>1 DEF StopLoop
  <2>2. Walked(v, k - 1)
    BY <1>5
  <2> HIDE DEF v, y, T
  <2>3. Halted(v, y) /\ Book(v) /\ v.q.mode = 0
    BY <2>1, StopAtStops DEF Stopped
  <2>4. Halted(w, y) /\ \A id \in Engines : Told(v, id) => Told(y, id)
    BY <2>2, <2>3, HaltedTwice
  <2>5. CASE AllTold(e, v, k - 1)
    <3>1. e[k] \in Engines
      BY <1>3
    <3>2. y = StopEngine(v, e[k])
      BY <1>3, <2>1, <2>5 DEF StopAt, AllTold
    <3>3. /\ Told(y, e[k])
          /\ \/ y.q.engines = e
             \/ e[k] = TabEngine /\ y.q.engines = Without(e, TabEngine) /\ Waits(v)
      BY <2>3, <2>5, <3>1, <3>2, StopViews DEF AllTold
    <3>4. ASSUME NEW j \in 1 .. k PROVE Told(y, e[j])
      <4>1. CASE j = k
        BY <3>3, <4>1
      <4>2. CASE j # k
        <5>1. j \in 1 .. k - 1 /\ j \in 1 .. n
          BY <1>3, <4>2
        <5>2. e[j] \in Engines /\ Told(v, e[j])
          BY <1>3, <2>5, <5>1 DEF AllTold
        <5> QED
          BY <2>4, <5>2
      <4> QED
        BY <4>1, <4>2
    <3>5. CASE y.q.engines = e
      BY <2>4, <3>4, <3>5 DEF AllTold, T, y
    <3>6. CASE e[k] = TabEngine /\ y.q.engines = Without(e, TabEngine) /\ Waits(v)
      <4>1. \A m, l \in 1 .. n : e[m] = e[l] => m = l
        BY <1>3 DEF Distinct
      <4>2. LET rest == Without(e, e[k])
            IN  /\ Len(rest) = n - 1
                /\ \A j \in 1 .. n - 1 : rest[j] = IF j < k THEN e[j] ELSE e[j + 1]
        BY <1>3, <4>1, WithoutMoves
      <4>3. ASSUME NEW j \in 1 .. n - 1, j =< k, j # k
            PROVE  Told(y, y.q.engines[j])
        <5>1. j < k /\ j \in 1 .. k
          BY <4>3
        <5>2. y.q.engines[j] = e[j]
          BY <3>6, <4>2, <5>1
        <5> QED
          BY <3>4, <5>1, <5>2
      <4>4. OneSkipped(e, y, k)
        <5>1. k \in 1 .. k /\ k =< Len(e)
          BY <1>3
        <5> QED
          BY <3>6, <4>3, <5>1 DEF OneSkipped
      <4>5. Waits(w)
        BY <2>2, <3>6, HaltedWaits
      <4> QED
        BY <2>4, <4>4, <4>5 DEF T, y
    <3> QED
      BY <3>3, <3>5, <3>6
  <2>6. CASE Waits(w) /\ OneSkipped(e, v, k - 1)
    <3>1. PICK p \in 1 .. k - 1 :
             /\ p =< Len(e) /\ e[p] = TabEngine /\ v.q.engines = Without(e, TabEngine)
             /\ \A j \in 1 .. Len(e) - 1 : j =< k - 1 /\ j # p => Told(v, v.q.engines[j])
      BY <2>6 DEF OneSkipped
    <3> DEFINE r == v.q.engines
    <3>2. r \in Seq(Engines) /\ Len(r) = n - 1
      <4>1. \A m, l \in 1 .. n : e[m] = e[l] => m = l
        BY <1>3 DEF Distinct
      <4>2. p \in 1 .. n
        BY <1>3, <3>1
      <4>3. LET rest == Without(e, e[p])
            IN  Len(rest) = n - 1
        BY <1>3, <4>1, <4>2, WithoutMoves
      <4>4. r \in Seq(Engines)
        BY <1>3, <3>1, WithoutHas
      <4> QED
        BY <3>1, <4>3, <4>4
    <3>3. ~HasData(v, TabEngine)
      BY <1>3, <3>1, WithoutHas DEF HasData
    <3> HIDE DEF r
    <3>4. /\ y.q.engines = r
          /\ k =< n - 1 => Told(y, r[k])
      <4>1. CASE k > n - 1
        <5>1. y = v
          BY <2>1, <3>2, <4>1 DEF StopAt, r
        <5> QED
          BY <4>1, <5>1 DEF r
      <4>2. CASE k =< n - 1
        <5>1. r[k] \in Engines /\ ~(k > Len(r))
          BY <1>3, <3>2, <4>2
        <5>2. y = StopEngine(v, r[k])
          BY <2>1, <5>1 DEF StopAt, r
        <5> QED
          BY <2>3, <3>3, <5>1, <5>2, StopViews DEF r
      <4> QED
        BY <1>3, <4>1, <4>2
    <3>5. ASSUME NEW j \in 1 .. Len(e) - 1, j =< k, j # p
          PROVE  Told(y, y.q.engines[j])
      <4>1. CASE j = k
        BY <3>4, <3>5, <4>1
      <4>2. CASE j # k
        <5>1. j =< k - 1
          BY <3>5, <4>2, <1>3
        <5>2. Told(v, r[j])
          BY <3>1, <3>5, <5>1 DEF r
        <5>3. r[j] \in Engines
          BY <1>3, <3>2
        <5> QED
          BY <2>4, <3>4, <5>2, <5>3
      <4> QED
        BY <4>1, <4>2
    <3>6. OneSkipped(e, y, k)
      <4>1. p \in 1 .. k
        BY <1>3
      <4> QED
        BY <3>1, <3>4, <3>5, <4>1 DEF OneSkipped, r
    <3> QED
      BY <2>4, <2>6, <3>6 DEF T, y
  <2> QED
    BY <2>2, <2>5, <2>6
<1>6. T = 0 .. n
  <2>1. T \in SUBSET (0 .. n)
    OBVIOUS
  <2> HIDE DEF T, n
  <2> QED
    BY <1>3, <1>4, <1>5, <2>1, Rounds
<1>7. Walked(u, n)
  <2>1. n \in 0 .. n
    BY <1>3
  <2> HIDE DEF n
  <2>2. Walked(f[n], n)
    BY <1>6, <2>1
  <2> HIDE DEF Walked
  <2> QED
    BY <1>1, <2>2
<1>8. Book(u) /\ \A id \in Engines : ~HasData(u, id) => Told(u, id)
  <2>1. Book(u)
    BY <1>7 DEF Halted
  <2>2. \A id \in Engines : ~HasData(u, id) => u.q.data[id] = NewData("none")
    BY <2>1 DEF Book, DataOK
  <2>3. ~NewData("none").active
    BY DEF NewData
  <2> QED
    BY <2>1, <2>2, <2>3 DEF Told
<1>9. CASE AllTold(e, u, n)
  <2>1. \A id \in Engines : Told(u, id)
    <3>1. TAKE id \in Engines
    <3>2. CASE HasData(u, id)
      <4>1. PICK j \in 1 .. n : e[j] = id
        BY <1>9, <3>2 DEF HasData, Contains, AllTold
      <4> QED
        BY <1>9, <4>1 DEF AllTold
    <3> QED
      BY <1>8, <3>2
  <2>2. TabEngine \in Engines
    BY QueueAssumption DEF Engines, TabEngine
  <2> QED
    BY <1>7, <2>1, <2>2 DEF u
<1>10. CASE Waits(w) /\ OneSkipped(e, u, n)
  <2>1. PICK p \in 1 .. n :
           /\ p =< Len(e) /\ e[p] = TabEngine /\ u.q.engines = Without(e, TabEngine)
           /\ \A j \in 1 .. Len(e) - 1 : j =< n /\ j # p => Told(u, u.q.engines[j])
    BY <1>10 DEF OneSkipped
  <2> DEFINE r == u.q.engines
  <2>2. Len(r) = n - 1 /\ (p \in 1 .. n - 1 => r[p] = e[p + 1])
    <3>1. \A m, l \in 1 .. n : e[m] = e[l] => m = l
      BY <1>3 DEF Distinct
    <3>2. LET rest == Without(e, e[p])
          IN  /\ Len(rest) = n - 1
              /\ \A j \in 1 .. n - 1 : rest[j] = IF j < p THEN e[j] ELSE e[j + 1]
      BY <1>3, <3>1, WithoutMoves
    <3> QED
      BY <2>1, <3>2
  <2>3. \A id \in Engines \ Skipped(w) : Told(u, id)
    <3>1. TAKE id \in Engines \ Skipped(w)
    <3>2. CASE HasData(u, id)
      <4>1. PICK j \in 1 .. n - 1 : r[j] = id
        BY <2>2, <3>2 DEF HasData, Contains
      <4>2. j # p
        <5>1. SUFFICES ASSUME j = p PROVE FALSE
          OBVIOUS
        <5>2. id = e[p + 1] /\ p + 1 \in 2 .. n /\ e[(p + 1) - 1] = TabEngine
          BY <1>3, <2>1, <2>2, <4>1, <5>1
        <5>3. id \in Skipped(w)
          BY <1>10, <5>2 DEF Skipped
        <5> QED
          BY <3>1, <5>3
      <4>3. j =< n
        BY <1>3, <4>1
      <4> QED
        BY <2>1, <4>1, <4>2, <4>3
    <3> QED
      BY <1>8, <3>2
  <2> HIDE DEF r
  <2>4. Told(u, TabEngine)
    <3>1. ~HasData(u, TabEngine)
      BY <1>3, <2>1, WithoutHas DEF HasData
    <3> QED
      BY <1>8, <3>1, QueueAssumption DEF Engines, TabEngine
  <2> QED
    BY <1>7, <2>3, <2>4 DEF u
<1> QED
  BY <1>7, <1>9, <1>10

-----------------------------------------------------------------------------
(* The handlers: what SendNextCommand and ProcessReply decide.             *)
Nexts == Reasons \cup {"send", "alone"}

Onward(w) == IF w.q.mode = 0 THEN {"reset", "remove"} ELSE {"send"}

Answered(w, id, r, v) ==
    LET d == w.q.data[id]
    IN  \/ /\ r.code = "canceled" /\ v.next \in {"reset", "remove"}
           /\ v.w = IF d.state = "connect" THEN Deactivate(w) ELSE w
        \/ d.state = "disconnect" /\ v.w = SetState(w, id, "connect") /\ v.next \in Onward(w)
        \/ /\ d.state = "connect" /\ v.next \in Onward(w) \cup {"failure"}
           /\ v.w \in {w, SetState(w, id, Work(d.item)), Faulted(w, d.item)}
        \/ d.state \in {"transfer", "mkdir"} /\ r.code = "ok" /\ v.w = w /\ v.next = "success"
        \/ /\ d.state \in {"transfer", "mkdir"} /\ r.code # "ok"
           /\ v.next \in Onward(w) \cup {"failure", "retry"}
           /\ v.w \in {w, Faulted(w, d.item)}
        \/ d.state = "list" /\ v.w = w /\ v.next = "remove"
        \/ d.state \in {"none", "waitprimary"} /\ v.w = w /\ v.next = "alone"

Refusal(w, u) == u = w \/ u = [w EXCEPT !.q.refused = TRUE]

SentNext(w, id, v) ==
    LET d == w.q.data[id]
        n == w.net[id]
    IN  \/ d.state = "waitprimary" /\ v.w = RequestExclusiveEngine(w) /\ v.next = "alone"
        \/ /\ d.state # "waitprimary" /\ n.cmd = "none" /\ v.next = "alone"
           /\ d.state \in {"connect", "disconnect"} \/ IsConnected(w, id)
           /\ d.state = "connect" => ~IsConnected(w, id)
           /\ v.w = Execute(w, id, d.state, d.item)
        \/ /\ d.state = "disconnect" /\ n.cmd # "none"
           /\ v.w = SetState(w, id, "connect") /\ v.next = "send"
        \/ /\ d.state = "connect" /\ n.cmd = "none" /\ v.w = SetState(w, id, "disconnect")
           /\ v.next = "send"
        \/ /\ d.state \notin {"waitprimary", "disconnect"} /\ v.next \in {"send", "failure"}
           /\ n.cmd # "none" \/ (d.state # "connect" /\ ~IsConnected(w, id))
           /\ \E x : /\ x = w \/ (n.cmd # "none" /\ x = [w EXCEPT !.q.refused = TRUE])
                     /\ v.w = Faulted(x, d.item) \/ (v.w = x /\ v.next = "failure")

LEMMA GoesOn ==
    ASSUME NEW w, NEW id
    PROVE  GoOn(w, id) \in Onward(w) /\ PutBack(w, id) \in {"reset", "remove"}
BY DEF GoOn, PutBack, Onward

LEMMA Counts ==
    ASSUME NEW w, NEW id, NEW next
    PROVE  LET v == IncreaseErrorCount(w, id, next)
           IN  v.w = Faulted(w, w.q.data[id].item) /\ v.next \in {next, "failure"}
BY DEF IncreaseErrorCount, Decide, Data, Faulted

LEMMA ReplyAnswered ==
    ASSUME NEW w, Book(w), NEW id \in Engines, NEW r
    PROVE  Answered(w, id, r, ProcessReply(w, id, r))
<1> DEFINE d == w.q.data[id]
           v == ProcessReply(w, id, r)
<1>1. w \in Worlds /\ GoodData(id, d)
  BY DEF Book, DataOK
<1>2. d.state \in States /\ d.active \in BOOLEAN
  BY <1>1, DataType
<1>3. GoOn(w, id) \in Onward(w) /\ PutBack(w, id) \in {"reset", "remove"}
  BY GoesOn
<1>4. \A next : LET c == IncreaseErrorCount(w, id, next)
                IN  c.w = Faulted(w, d.item) /\ c.next \in {next, "failure"}
  BY Counts
<1>5. Data(w, id) = d
  BY DEF Data
<1> HIDE DEF d
<1>6. CASE r.code = "canceled"
  <2>1. v = CancelReply(w, id)
    BY <1>6 DEF ProcessReply
  <2>2. v.w = (IF d.state = "connect" THEN Deactivate(w) ELSE w) /\ v.next = PutBack(w, id)
    BY <1>5, <2>1 DEF CancelReply, Decide
  <2> HIDE DEF v
  <2>3. Answered(w, id, r, v)
    BY <1>3, <1>6, <2>2 DEF Answered, d
  <2> QED
    BY <2>3 DEF v
<1>7. CASE r.code # "canceled"
  <2>1. d.state \in {"connect", "transfer"} => d.item # NoItem
    BY <1>1, <1>2 DEF GoodData
  <2>2. CASE d.state = "disconnect"
    <3>1. v.w = SetState(w, id, "connect") /\ v.next = GoOn(w, id)
      BY <1>5, <1>7, <2>2 DEF ProcessReply, Decide
    <3> HIDE DEF v
    <3>2. Answered(w, id, r, v)
      BY <1>3, <2>2, <3>1 DEF Answered, d
    <3> QED
      BY <3>2 DEF v
  <2>3. CASE d.state = "connect"
    <3>1. v = ConnectReply(w, id, r)
      BY <1>5, <1>7, <2>1, <2>3 DEF ProcessReply
    <3>2. \/ v = Decide(SetState(w, id, Work(d.item)), GoOn(w, id))
          \/ v = Decide(w, GoOn(w, id))
          \/ v = IncreaseErrorCount(w, id, GoOn(w, id))
      BY <1>5, <3>1 DEF ConnectReply
    <3> HIDE DEF v
    <3>3. v.w \in {w, SetState(w, id, Work(d.item)), Faulted(w, d.item)}
          /\ v.next \in Onward(w) \cup {"failure"}
      BY <1>3, <1>4, <3>2 DEF Decide
    <3>4. Answered(w, id, r, v)
      BY <2>3, <3>3 DEF Answered, d
    <3> QED
      BY <3>4 DEF v
  <2>4. CASE d.state = "transfer"
    <3>1. v = TransferReply(w, id, r)
      BY <1>5, <1>7, <2>1, <2>4 DEF ProcessReply
    <3>2. \/ r.code = "ok" /\ v = Decide(w, "success")
          \/ r.code # "ok" /\ v = Decide(w, GoOn(w, id))
          \/ r.code # "ok" /\ v = Decide(w, "failure")
          \/ r.code # "ok" /\ v = IncreaseErrorCount(w, id, "retry")
          \/ r.code # "ok" /\ v = IncreaseErrorCount(w, id, GoOn(w, id))
      BY <3>1 DEF TransferReply
    <3> HIDE DEF v
    <3>3. \/ r.code = "ok" /\ v.w = w /\ v.next = "success"
          \/ /\ r.code # "ok" /\ v.w \in {w, Faulted(w, d.item)}
             /\ v.next \in Onward(w) \cup {"failure", "retry"}
      BY <1>3, <1>4, <3>2 DEF Decide
    <3>4. Answered(w, id, r, v)
      BY <2>4, <3>3 DEF Answered, d
    <3> QED
      BY <3>4 DEF v
  <2>5. CASE d.state = "mkdir"
    <3>1. v = MkdirReply(w, id, r)
      BY <1>5, <1>7, <2>5 DEF ProcessReply
    <3>2. \/ r.code = "ok" /\ v = Decide(w, "success")
          \/ r.code # "ok" /\ v = Decide(w, "failure")
          \/ r.code # "ok" /\ v = IncreaseErrorCount(w, id, GoOn(w, id))
      BY <3>1 DEF MkdirReply
    <3> HIDE DEF v
    <3>3. \/ r.code = "ok" /\ v.w = w /\ v.next = "success"
          \/ /\ r.code # "ok" /\ v.w \in {w, Faulted(w, d.item)}
             /\ v.next \in Onward(w) \cup {"failure", "retry"}
      BY <1>3, <1>4, <3>2 DEF Decide
    <3>4. Answered(w, id, r, v)
      BY <2>5, <3>3 DEF Answered, d
    <3> QED
      BY <3>4 DEF v
  <2>6. CASE d.state = "list"
    <3>1. v.w = w /\ v.next = "remove"
      BY <1>5, <1>7, <2>6 DEF ProcessReply, Decide
    <3> HIDE DEF v
    <3>2. Answered(w, id, r, v)
      BY <2>6, <3>1 DEF Answered, d
    <3> QED
      BY <3>2 DEF v
  <2>7. CASE d.state \in {"none", "waitprimary"}
    <3>1. v.w = w /\ v.next = "alone"
      BY <1>5, <1>7, <2>7 DEF ProcessReply, Decide
    <3> HIDE DEF v
    <3>2. Answered(w, id, r, v)
      BY <2>7, <3>1 DEF Answered, d
    <3> QED
      BY <3>2 DEF v
  <2> QED
    BY <1>2, <2>2, <2>3, <2>4, <2>5, <2>6, <2>7 DEF States
<1> QED
  BY <1>6, <1>7

LEMMA RoundSent ==
    ASSUME NEW w \in Worlds, NEW id \in Engines
    PROVE  SentNext(w, id, SendRound(w, id))
<1> DEFINE d == w.q.data[id]
           n == w.net[id]
           code == Precondition(w, id, d.state)
           v == SendRound(w, id)
           x == Refused(w, code)
<1>1. Data(w, id) = d
  BY DEF Data
<1>2. d.state \in States
  BY DataType
<1>3. /\ code = "busy" <=> n.cmd # "none"
      /\ code = "wouldblock" => n.cmd = "none"
      /\ code = "wouldblock" => d.state \in {"connect", "disconnect"} \/ IsConnected(w, id)
      /\ code = "wouldblock" => (d.state = "connect" => ~IsConnected(w, id))
      /\ code = "alreadyconnected" => n.cmd = "none" /\ d.state = "connect"
      /\ code = "notconnected" => d.state # "connect" /\ ~IsConnected(w, id)
      /\ code \in {"busy", "wouldblock", "alreadyconnected", "notconnected"}
  BY DEF Precondition
<1>4. \/ d.state = "waitprimary" /\ v = Decide(RequestExclusiveEngine(w), "alone")
      \/ /\ d.state # "waitprimary" /\ code = "wouldblock"
         /\ v = Decide(Execute(w, id, d.state, d.item), "alone")
      \/ /\ d.state = "disconnect" /\ code # "wouldblock"
         /\ v = Decide(SetState(w, id, "connect"), "send")
      \/ /\ code = "alreadyconnected" /\ v = Decide(SetState(w, id, "disconnect"), "send")
      \/ /\ d.state \notin {"waitprimary", "disconnect"} /\ code \notin {"wouldblock", "alreadyconnected"}
         /\ v = Decide(x, "failure")
      \/ /\ d.state \notin {"waitprimary", "disconnect"} /\ code \notin {"wouldblock", "alreadyconnected"}
         /\ v = IncreaseErrorCount(x, id, "send")
  BY <1>1 DEF SendRound
<1>5. /\ x = w \/ (n.cmd # "none" /\ x = [w EXCEPT !.q.refused = TRUE])
      /\ x.q.data = w.q.data
  <2>1. w.q \in QueueRec
    BY WorldParts
  <2>2. [w EXCEPT !.q.refused = TRUE].q.data = w.q.data
    BY <2>1 DEF QueueRec, Worlds
  <2> QED
    BY <1>3, <2>2 DEF Refused
<1>6. LET c == IncreaseErrorCount(x, id, "send")
      IN  c.w = Faulted(x, d.item) /\ c.next \in {"send", "failure"}
  <2> HIDE DEF x
  <2>1. LET c == IncreaseErrorCount(x, id, "send")
        IN  c.w = Faulted(x, x.q.data[id].item) /\ c.next \in {"send", "failure"}
    BY Counts
  <2> QED
    BY <1>5, <2>1
<1>7. \/ d.state = "waitprimary" /\ v.w = RequestExclusiveEngine(w) /\ v.next = "alone"
      \/ /\ d.state # "waitprimary" /\ code = "wouldblock"
         /\ v.w = Execute(w, id, d.state, d.item) /\ v.next = "alone"
      \/ /\ d.state = "disconnect" /\ code # "wouldblock"
         /\ v.w = SetState(w, id, "connect") /\ v.next = "send"
      \/ /\ code = "alreadyconnected" /\ v.w = SetState(w, id, "disconnect") /\ v.next = "send"
      \/ /\ d.state \notin {"waitprimary", "disconnect"} /\ code \notin {"wouldblock", "alreadyconnected"}
         /\ v.w = x /\ v.next = "failure"
      \/ /\ d.state \notin {"waitprimary", "disconnect"} /\ code \notin {"wouldblock", "alreadyconnected"}
         /\ v.w = Faulted(x, d.item) /\ v.next \in {"send", "failure"}
  <2> HIDE DEF v, x, d, code
  <2> QED
    BY <1>4, <1>6 DEF Decide
<1> HIDE DEF v, x, d, n, code
<1>8. CASE d.state = "disconnect" /\ code # "wouldblock"
  <2>1. n.cmd # "none"
    BY <1>8 DEF Precondition, code, n
  <2>2. (v.w = SetState(w, id, "connect") /\ v.next = "send") \/ code = "alreadyconnected"
    BY <1>7, <1>8
  <2> QED
    BY <1>3, <1>8, <2>1, <2>2 DEF SentNext, v, d, n
<1>9. CASE ~(d.state = "disconnect" /\ code # "wouldblock")
  <2>1. SentNext(w, id, v)
    BY <1>3, <1>5, <1>7, <1>9 DEF SentNext, d, n
  <2> QED
    BY <2>1 DEF v
<1> QED
  BY <1>8, <1>9

(* A file that an engine has is in the book.                               *)
LEMMA ActiveHas ==
    ASSUME NEW w, Book(w), NEW id \in Engines, w.q.data[id].active \/ w.q.data[id].item # NoItem
    PROVE  /\ HasData(w, id) /\ w.q.data[id].active
           /\ w.q.data[id].state # "list" => w.q.data[id].item \in Items
<1>1. w \in Worlds /\ GoodData(id, w.q.data[id]) /\ (~HasData(w, id) => w.q.data[id] = NewData("none"))
  BY DEF Book, DataOK
<1>2. w.q.data[id].item \in Files /\ w.q.data[id].active \in BOOLEAN
  BY <1>1, DataType
<1> QED
  BY <1>1, <1>2 DEF GoodData, NewData, Files

WithState(d, s) == [d EXCEPT !.state = s]

LEMMA WithStateType ==
    ASSUME NEW d \in DataRec, NEW s \in States
    PROVE  /\ WithState(d, s) \in DataRec /\ WithState(d, s).active = d.active
           /\ WithState(d, s).state = s /\ WithState(d, s).item = d.item
           /\ WithState(d, s).site = d.site /\ WithState(d, s).timer = d.timer
BY DEF WithState, DataRec

(* An engine that has a file goes on to another state.                     *)
LEMMA StateViews ==
    ASSUME NEW w \in Worlds, NEW id \in Engines, NEW s \in States
    PROVE  LET u == SetState(w, id, s)
           IN  /\ u \in Worlds /\ u.item = w.item /\ u.tab = w.tab /\ u.net = w.net
               /\ u.q.data = [w.q.data EXCEPT ![id] = WithState(w.q.data[id], s)]
               /\ u.q.engines = w.q.engines
               /\ SameMode(w, u) /\ SameLists(w, u) /\ SameCounts(w, u)
<1> DEFINE d == WithState(w.q.data[id], s)
           u == WithData(w, id, d)
<1>1. d \in DataRec
  BY DataType, WithStateType
<1>2. u = SetState(w, id, s)
  BY DEF SetState, Data, WithState
<1> HIDE DEF d
<1>3. u \in Worlds /\ u.q = [w.q EXCEPT !.data = [w.q.data EXCEPT ![id] = d]]
      /\ u.item = w.item /\ u.tab = w.tab /\ u.net = w.net
  BY <1>1, DataSet
<1> HIDE DEF u
<1>4. w.q \in QueueRec
  BY WorldParts
<1>5. u.q.data = [w.q.data EXCEPT ![id] = d] /\ u.q.engines = w.q.engines
      /\ SameMode(w, u) /\ SameLists(w, u) /\ SameCounts(w, u)
  BY <1>3, <1>4 DEF QueueRec, SameMode, SameLists, SameCounts
<1> QED
  BY <1>2, <1>3, <1>5 DEF d

LEMMA WorkType ==
    ASSUME NEW i
    PROVE  Work(i) \in {"transfer", "mkdir"}
BY DEF Work

LEMMA BookState ==
    ASSUME NEW w, Book(w), NEW id \in Engines, w.q.data[id].item # NoItem,
           NEW s \in {"connect", "disconnect", Work(w.q.data[id].item)}
    PROVE  Book(SetState(w, id, s))
<1> DEFINE d == w.q.data[id]
           e == WithState(d, s)
<1>1. w \in Worlds /\ GoodData(id, d) /\ HasData(w, id) /\ d.active
  BY ActiveHas DEF Book, DataOK
<1>2. d \in DataRec /\ s \in States
  <2>1. d \in DataRec
    BY <1>1, DataType
  <2> QED
    BY <2>1, WorkType DEF States
<1>3. e \in DataRec /\ e.active = d.active /\ e.state = s /\ e.item = d.item /\ e.site = d.site
      /\ e.timer = d.timer
  BY <1>2, WithStateType
<1>4. SetState(w, id, s) = WithData(w, id, e)
  BY DEF SetState, Data, WithState
<1> HIDE DEF d, e
<1>5. s # "list" /\ s # "waitprimary" /\ s # "none"
      /\ (s \in {"transfer", "mkdir"} => s = Work(d.item))
  BY WorkType DEF d
<1>6. d.item # NoItem
  BY DEF d
<1>7. GoodData(id, e)
  BY <1>1, <1>3, <1>5, <1>6 DEF GoodData
<1>8. Book(WithData(w, id, e))
  BY <1>1, <1>3, <1>7, BookData DEF d
<1> QED
  BY <1>4, <1>8

LEMMA BookFaulted ==
    ASSUME NEW w, Book(w), NEW i \in Items
    PROVE  LET u == Faulted(w, i)
           IN  /\ Book(u) /\ u.q = w.q /\ u.tab = w.tab /\ u.net = w.net
               /\ \A j \in Items : /\ u.item[j].active = w.item[j].active
                                   /\ u.item[j].where = w.item[j].where
                                   /\ u.item[j].sent = w.item[j].sent
<1> DEFINE u == Faulted(w, i)
<1>1. w \in Worlds /\ ToOK(w)
  BY DEF Book
<1>2. /\ u \in Worlds
      /\ u.item[i] = [w.item[i] EXCEPT !.errors = w.item[i].errors + 1]
      /\ \A j \in Items \ {i} : u.item[j] = w.item[j]
      /\ u.q = w.q /\ u.tab = w.tab /\ u.net = w.net
  BY <1>1, ErrorsSet
<1> HIDE DEF u
<1>3. \A j \in Items : /\ u.item[j].active = w.item[j].active
                       /\ u.item[j].where = w.item[j].where
                       /\ u.item[j].sent = w.item[j].sent
  <2>1. TAKE j \in Items
  <2>2. CASE j = i
    <3>1. w.item[i] \in ItemRec /\ w.item[i].errors + 1 \in Nat
      <4>1. w.item[i] \in ItemRec /\ w.item[i].errors \in Nat
        BY <1>1, ItemType
      <4> QED
        BY <4>1
    <3>2. PICK m \in Nat : m = w.item[i].errors + 1
      BY <3>1
    <3>3. u.item[i] = [w.item[i] EXCEPT !.errors = m]
      BY <1>2, <3>2
    <3> QED
      BY <2>2, <3>1, <3>3, ItemFieldsKept DEF ItemRec
  <2>3. CASE j # i
    BY <1>2, <2>3
  <2> QED
    BY <2>2, <2>3
<1>4. Book(u)
  <2>1. ToOK(u)
    BY <1>1, <1>2 DEF ToOK
  <2> QED
    BY <1>2, <1>3, <2>1, BookFrame DEF SameEngines, SameCounts, SameLists
<1> QED
  BY <1>2, <1>3, <1>4 DEF u

LEMMA BookRefused ==
    ASSUME NEW w, Book(w)
    PROVE  LET u == [w EXCEPT !.q.refused = TRUE]
           IN  Book(u) /\ u.q.data = w.q.data /\ u.item = w.item /\ u.tab = w.tab /\ u.net = w.net
<1>1. w \in Worlds
  BY DEF Book
<1>2. PICK yes \in BOOLEAN : yes = TRUE
  OBVIOUS
<1>3. LET u == [w EXCEPT !.q.refused = yes]
      IN  Book(u) /\ u.q.data = w.q.data /\ u.item = w.item /\ u.tab = w.tab /\ u.net = w.net
  BY <1>1, RefusedSet, BookSets DEF SameEngines
<1> QED
  BY <1>2, <1>3

(* What is done next can be done.                                          *)
BookDecided(v, id) ==
    /\ Book(v.w) /\ v.next \in Nexts
    /\ v.next = "send" => v.w.q.data[id].item # NoItem

LEMMA BookAnswered ==
    ASSUME NEW w, Book(w), NEW id \in Engines, NEW r, NEW v, Answered(w, id, r, v)
    PROVE  BookDecided(v, id)
<1> DEFINE d == w.q.data[id]
<1>1. w \in Worlds /\ GoodData(id, d) /\ d \in DataRec /\ w.q.data \in [Engines -> DataRec]
  BY DataType, WorldParts DEF Book, DataOK
<1>2. d.state \notin {"none", "waitprimary", "list"} => d.item \in Items /\ d.item # NoItem
  <2>1. d.item \in Files
    BY <1>1, DataType
  <2> QED
    BY <1>1, <2>1 DEF GoodData, Files
<1>3. Onward(w) \subseteq {"reset", "remove", "send"}
  BY DEF Onward
<1>4. Book(w) /\ (d.item # NoItem => w.q.data[id].item # NoItem)
  OBVIOUS
<1>5. d.state = "connect" => Book(Deactivate(w))
  BY DeactivateViews DEF Halted
<1>6. ASSUME d.item # NoItem, NEW s \in {"connect", "disconnect", Work(d.item)}
      PROVE  Book(SetState(w, id, s)) /\ SetState(w, id, s).q.data[id].item # NoItem
  <2>1. Book(SetState(w, id, s))
    BY <1>6, BookState
  <2>2. s \in States
    BY WorkType DEF States
  <2>3. LET u == SetState(w, id, s)
        IN  u.q.data = [w.q.data EXCEPT ![id] = WithState(w.q.data[id], s)]
    BY <1>1, <2>2, StateViews
  <2>4. WithState(d, s).item = d.item
    BY <1>1, <2>2, WithStateType
  <2> QED
    BY <1>1, <1>6, <2>1, <2>3, <2>4
<1>7. d.item \in Items => Book(Faulted(w, d.item)) /\ Faulted(w, d.item).q = w.q
  BY BookFaulted
<1> HIDE DEF d
<1>8. CASE r.code = "canceled" /\ v.next \in {"reset", "remove"}
           /\ v.w = IF d.state = "connect" THEN Deactivate(w) ELSE w
  BY <1>5, <1>8 DEF BookDecided, Nexts, Reasons
<1>9. CASE d.state = "disconnect" /\ v.w = SetState(w, id, "connect") /\ v.next \in Onward(w)
  <2>1. Book(v.w) /\ v.w.q.data[id].item # NoItem
    BY <1>2, <1>6, <1>9
  <2> QED
    BY <1>3, <1>9, <2>1 DEF BookDecided, Nexts, Reasons
<1>10. CASE /\ d.state = "connect" /\ v.next \in Onward(w) \cup {"failure"}
            /\ v.w \in {w, SetState(w, id, Work(d.item)), Faulted(w, d.item)}
  <2>1. Book(v.w) /\ v.w.q.data[id].item # NoItem
    BY <1>2, <1>6, <1>7, <1>10 DEF d
  <2> QED
    BY <1>3, <1>10, <2>1 DEF BookDecided, Nexts, Reasons
<1>11. CASE d.state \in {"transfer", "mkdir"} /\ v.w \in {w, Faulted(w, d.item)}
            /\ v.next \in Onward(w) \cup {"failure", "retry", "success"}
  <2>1. Book(v.w) /\ v.w.q.data[id].item # NoItem
    BY <1>2, <1>7, <1>11 DEF d
  <2> QED
    BY <1>3, <1>11, <2>1 DEF BookDecided, Nexts, Reasons
<1>12. CASE v.w = w /\ v.next \in {"remove", "alone"}
  BY <1>12 DEF BookDecided, Nexts, Reasons
<1> QED
  BY <1>8, <1>9, <1>10, <1>11, <1>12 DEF Answered, d

LEMMA BookExecute ==
    ASSUME NEW w, Book(w), NEW id \in Engines, NEW cmd \in Commands, NEW to \in Aims,
           cmd \in {"transfer", "mkdir"} \/ (cmd = "connect" /\ id # TabEngine) => to \in Items
    PROVE  Book(Execute(w, id, cmd, to))
<1> DEFINE u == Execute(w, id, cmd, to)
<1>1. w \in Worlds /\ ToOK(w)
  BY DEF Book
<1>2. /\ u \in Worlds /\ u.item = w.item /\ u.tab = w.tab /\ u.q = w.q
      /\ u.net = [w.net EXCEPT ![id] = Executing(w.net[id], cmd, to)]
  BY <1>1, ExecutedViews
<1> HIDE DEF u
<1>3. w.net \in [Engines -> NetRec] /\ w.net[id] \in NetRec
  BY <1>1, WorldParts
<1>4. Executing(w.net[id], cmd, to).cmd = cmd /\ Executing(w.net[id], cmd, to).to = to
  BY <1>3, ExecutingType
<1>5. ToOK(u)
  BY <1>1, <1>2, <1>3, <1>4 DEF ToOK
<1>6. Book(u)
  BY <1>2, <1>5, BookOutside
<1> QED
  BY <1>6 DEF u

LEMMA BookSent ==
    ASSUME NEW w, Book(w), NEW id \in Engines, w.q.data[id].item # NoItem, NEW v, SentNext(w, id, v)
    PROVE  BookDecided(v, id)
<1> DEFINE d == w.q.data[id]
<1>1. w \in Worlds /\ GoodData(id, d) /\ d \in DataRec /\ w.q.data \in [Engines -> DataRec]
      /\ d.active /\ d.item \in Items /\ d.state # "none" /\ d.state # "list"
  <2>1. w \in Worlds /\ GoodData(id, d)
    BY DEF Book, DataOK
  <2>2. d.active
    BY ActiveHas
  <2>3. d.state # "none" /\ d.state # "list"
    BY <2>1, <2>2 DEF GoodData
  <2> QED
    BY <2>1, <2>2, <2>3, ActiveHas, DataType, WorldParts
<1>2. d.state \in States /\ d.item # NoItem
  BY <1>1, DataType
<1>3. ASSUME NEW s \in {"connect", "disconnect"}
      PROVE  Book(SetState(w, id, s)) /\ SetState(w, id, s).q.data[id].item # NoItem
  <2>1. Book(SetState(w, id, s))
    BY BookState
  <2>2. s \in States
    BY DEF States
  <2>3. LET u == SetState(w, id, s)
        IN  u.q.data = [w.q.data EXCEPT ![id] = WithState(w.q.data[id], s)]
    BY <1>1, <2>2, StateViews
  <2>4. WithState(d, s).item = d.item
    BY <1>1, <2>2, WithStateType
  <2> QED
    BY <1>1, <2>1, <2>3, <2>4
<1>4. ASSUME NEW x, x = w \/ x = [w EXCEPT !.q.refused = TRUE]
      PROVE  Book(x) /\ x.q.data = w.q.data /\ Book(Faulted(x, d.item))
             /\ Faulted(x, d.item).q.data = w.q.data
  <2>1. Book(x) /\ x.q.data = w.q.data
    BY <1>4, BookRefused
  <2> QED
    BY <1>1, <2>1, BookFaulted
<1>5. ASSUME d.state # "waitprimary" PROVE Book(Execute(w, id, d.state, d.item))
  <2>1. d.state \in Commands /\ d.item \in Aims
    BY <1>1, <1>2, <1>5 DEF States, Commands, Aims, Files
  <2> QED
    BY <1>1, <2>1, BookExecute
<1>6. Book(RequestExclusiveEngine(w))
  BY BookRelease
<1>7. {"alone", "send", "failure"} \subseteq Nexts
  BY DEF Nexts, Reasons
<1> HIDE DEF d
<1>8. CASE v.next = "alone" /\ (v.w = RequestExclusiveEngine(w)
                                \/ (d.state # "waitprimary" /\ v.w = Execute(w, id, d.state, d.item)))
  BY <1>5, <1>6, <1>7, <1>8 DEF BookDecided
<1>9. CASE v.next = "send" /\ v.w \in {SetState(w, id, "connect"), SetState(w, id, "disconnect")}
  BY <1>3, <1>7, <1>9 DEF BookDecided
<1>10. CASE /\ v.next \in {"send", "failure"}
            /\ \E x : /\ x = w \/ x = [w EXCEPT !.q.refused = TRUE]
                      /\ v.w = Faulted(x, d.item) \/ (v.w = x /\ v.next = "failure")
  <2>1. PICK x : /\ x = w \/ x = [w EXCEPT !.q.refused = TRUE]
                 /\ v.w = Faulted(x, d.item) \/ (v.w = x /\ v.next = "failure")
    BY <1>10
  <2>2. Book(v.w) /\ v.w.q.data = w.q.data
    BY <1>4, <2>1
  <2> QED
    BY <1>7, <1>10, <2>2 DEF BookDecided
<1> QED
  BY <1>8, <1>9, <1>10 DEF SentNext, d

SendingOK(w) == w.q.sending # NoEngine => w.q.data[w.q.sending].item # NoItem

LEMMA AdvancedViews ==
    ASSUME NEW w, Book(w)
    PROVE  LET u == AdvanceQueue(w)
           IN  /\ Book(u) /\ u.item = w.item /\ u.tab = w.tab /\ u.net = w.net
               /\ u.q.mode = w.q.mode /\ u.q.sending = w.q.sending /\ u.q.refused = w.q.refused
               /\ u.q.inside /\ SameEngines(w, u) /\ SameCounts(w, u) /\ SameLists(w, u)
<1>1. PICK yes \in BOOLEAN : yes = TRUE
  OBVIOUS
<1> DEFINE u == [w EXCEPT !.q.inside = yes]
<1>2. /\ Book(u) /\ u.item = w.item /\ u.tab = w.tab /\ u.net = w.net
      /\ u.q.mode = w.q.mode /\ u.q.sending = w.q.sending /\ u.q.refused = w.q.refused
      /\ u.q.inside = yes /\ SameEngines(w, u) /\ SameCounts(w, u) /\ SameLists(w, u)
  BY BookSets, InsideSet DEF Book
<1> HIDE DEF u
<1>3. AdvanceQueue(w) = u
  BY <1>1 DEF AdvanceQueue, u
<1> QED
  BY <1>1, <1>2, <1>3

(* An engine is reset.                                                     *)
LEMMA BookResets ==
    ASSUME NEW w, Book(w), w.q.sending = NoEngine, NEW id \in Engines, NEW reason \in Reasons
    PROVE  LET u == ResetEngine(w, id, reason) IN Book(u) /\ u.q.sending = NoEngine
<1> DEFINE u == ResetEngine(w, id, reason)
           r == Reset(w, id, reason)
<1>1. CASE ~w.q.data[id].active
  <2>1. u = w
    BY <1>1 DEF ResetEngine, Data
  <2> QED
    BY <2>1
<1>2. CASE w.q.data[id].active
  <2>1. u = AdvanceQueue(r)
    BY <1>2 DEF ResetEngine, Data
  <2>2. Book(r)
    BY <1>2, BookReset
  <2>3. r.q.sending = NoEngine
    <3>1. FreedData(w, r, id)
      BY ResetViews DEF Book
    <3> QED
      BY <3>1 DEF FreedData, SameMode
  <2> HIDE DEF r, u
  <2>4. Book(u) /\ u.q.sending = r.q.sending
    BY <2>1, <2>2, AdvancedViews
  <2> QED
    BY <2>3, <2>4 DEF u
<1> QED
  BY <1>1, <1>2

LEMMA BookDone ==
    ASSUME NEW v, NEW id \in Engines, BookDecided(v, id)
    PROVE  LET u == Done(v, id) IN Book(u) /\ SendingOK(u)
<1> DEFINE w == v.w
           idle == [w EXCEPT !.q.sending = NoEngine]
           next == [w EXCEPT !.q.sending = id]
           u == Done(v, id)
<1>1. Book(w) /\ w \in Worlds
  BY DEF BookDecided, Book
<1>2. PICK none \in Engines \cup {NoEngine} : none = NoEngine
  OBVIOUS
<1>3. Book(idle) /\ idle.q.sending = NoEngine /\ idle.q.data = w.q.data
  <2> DEFINE y == [w EXCEPT !.q.sending = none]
  <2>1. Book(y) /\ y.q.sending = none /\ y.q.data = w.q.data
    BY <1>1, SendingSet, BookSets DEF SameEngines
  <2>2. y = idle
    BY <1>2
  <2> QED
    BY <1>2, <2>1, <2>2
<1>4. Book(next) /\ next.q.sending = id /\ next.q.data = w.q.data
  BY <1>1, SendingSet, BookSets, ZenonT(40) DEF SameEngines
<1>5. CASE v.next = "alone"
  <2>1. u = idle
    BY <1>5 DEF Done
  <2> QED
    BY <1>3, <2>1 DEF SendingOK
<1>6. CASE v.next = "send"
  <2>1. u = next
    BY <1>6 DEF Done
  <2> QED
    BY <1>4, <1>6, <2>1 DEF SendingOK, BookDecided
<1>7. CASE v.next \in Reasons
  <2>1. u = ResetEngine(idle, id, v.next)
    BY <1>7 DEF Done, Reasons
  <2> HIDE DEF idle, u
  <2>2. Book(u) /\ u.q.sending = NoEngine
    BY <1>3, <1>7, <2>1, BookResets
  <2> QED
    BY <2>2 DEF SendingOK, u
<1> QED
  BY <1>5, <1>6, <1>7 DEF BookDecided, Nexts

-----------------------------------------------------------------------------
(* The book is right.                                                      *)
BookInv == \E w \in {World} : Book(w) /\ SendingOK(w)

LEMMA Becoming ==
    ASSUME NEW w \in Worlds, Becomes(w)
    PROVE  World' = w
<1>1. w = [q |-> w.q, item |-> w.item, tab |-> w.tab, net |-> w.net]
  BY DEF Worlds
<1> QED
  BY <1>1 DEF Becomes, World

LEMMA BookBecomes ==
    ASSUME NEW w, Becomes(w), Book(w), SendingOK(w)
    PROVE  BookInv'
<1>1. World' = w
  BY Becoming DEF Book
<1> QED
  BY <1>1 DEF BookInv

LEMMA InvWorld ==
    ASSUME BookInv
    PROVE  /\ Book(World) /\ SendingOK(World) /\ World \in Worlds
           /\ World.q = q /\ World.item = item /\ World.tab = tab /\ World.net = net
BY DEF BookInv, World, Book

(* What an engine is doing changes.                                        *)
LEMMA BookNet ==
    ASSUME NEW w, Book(w), NEW id \in Engines, NEW n \in NetRec,
           n.cmd \in {"transfer", "mkdir"} \/ (n.cmd = "connect" /\ id # TabEngine) => n.to \in Items
    PROVE  LET u == WithNet(w, id, n)
           IN  /\ Book(u) /\ u.q = w.q /\ u.item = w.item /\ u.tab = w.tab
               /\ u.net = [w.net EXCEPT ![id] = n]
<1> DEFINE u == WithNet(w, id, n)
<1>1. w \in Worlds /\ ToOK(w)
  BY DEF Book
<1>2. u \in Worlds /\ u.net = [w.net EXCEPT ![id] = n] /\ u.item = w.item /\ u.tab = w.tab
      /\ u.q = w.q
  BY <1>1, NetSet
<1> HIDE DEF u
<1>3. w.net \in [Engines -> NetRec]
  BY <1>1, WorldParts
<1>4. ToOK(u)
  BY <1>1, <1>2, <1>3 DEF ToOK
<1> QED
  BY <1>2, <1>4, BookOutside DEF u

Emptier(n) == [n EXCEPT !.inbox = Tail(n.inbox)]

LEMMA EmptierType ==
    ASSUME NEW n \in NetRec, n.inbox # <<>>
    PROVE  LET m == Emptier(n)
           IN  /\ m \in NetRec /\ m.cmd = n.cmd /\ m.to = n.to /\ m.server = n.server
               /\ m.cancel = n.cancel /\ m.late = n.late /\ m.inbox = Tail(n.inbox)
               /\ Head(n.inbox) \in Replies /\ Head(n.inbox) = n.inbox[1]
<1>1. n.inbox \in Seq(Replies)
  BY DEF NetRec
<1>2. Tail(n.inbox) \in Seq(Replies) /\ Head(n.inbox) \in Replies /\ Head(n.inbox) = n.inbox[1]
  BY <1>1
<1> QED
  BY <1>2 DEF Emptier, NetRec

LEMMA BookReceived ==
    ASSUME NEW w, Book(w), NEW id \in Engines, w.net[id].inbox # <<>>
    PROVE  LET u == Received(w, id)
           IN  /\ Book(u) /\ u.q = w.q /\ u.item = w.item /\ u.tab = w.tab
               /\ u.net = [w.net EXCEPT ![id] = Emptier(w.net[id])]
<1> DEFINE n == Emptier(w.net[id])
<1>1. w \in Worlds /\ ToOK(w)
  BY DEF Book
<1>2. w.net[id] \in NetRec
  BY <1>1, NetType
<1>3. n \in NetRec /\ n.cmd = w.net[id].cmd /\ n.to = w.net[id].to
  BY <1>2, EmptierType
<1>4. Received(w, id) = WithNet(w, id, n)
  BY <1>1 DEF Received, WithNet, Emptier, Worlds
<1> HIDE DEF n
<1>5. n.cmd \in {"transfer", "mkdir"} \/ (n.cmd = "connect" /\ id # TabEngine) => n.to \in Items
  BY <1>1, <1>3 DEF ToOK
<1> QED
  BY <1>3, <1>4, <1>5, BookNet DEF n

LEMMA SendNextCommandBook ==
    ASSUME BookInv, SendNextCommand
    PROVE  BookInv'
<1> DEFINE id == World.q.sending
           v == SendRound(World, id)
<1>1. Book(World) /\ SendingOK(World) /\ World \in Worlds /\ World.q = q
  BY InvWorld
<1>2. id # NoEngine /\ id \in Engines /\ World.q.data[id].item # NoItem
  <2>1. id # NoEngine
    BY <1>1 DEF SendNextCommand
  <2>2. id \in Engines \cup {NoEngine}
    BY <1>1, QueueType
  <2> QED
    BY <1>1, <2>1, <2>2 DEF SendingOK
<1>3. Becomes(Done(v, id))
  BY <1>1 DEF SendNextCommand
<1> HIDE DEF id
<1>4. SentNext(World, id, v)
  BY <1>1, <1>2, RoundSent
<1> HIDE DEF v
<1>5. BookDecided(v, id)
  BY <1>1, <1>2, <1>4, BookSent
<1>6. Book(Done(v, id)) /\ SendingOK(Done(v, id))
  BY <1>2, <1>5, BookDone
<1> QED
  BY <1>3, <1>6, BookBecomes

LEMMA AssignSends ==
    ASSUME NEW v, NEW i, NEW id, Starts(v, i, id)
    PROVE  LET u == Assign(v, i, id)
           IN  Book(u) /\ SendingOK(u)
<1> DEFINE u == Assign(v, i, id)
<1>1. Book(v) /\ v \in Worlds /\ i \in Items /\ id \in Engines
  BY DEF Starts, Book
<1>2. Book(u)
  BY BookStarts
<1>3. Assign(v, i, id).q.data[id] = Given(v, i, id)
  BY <1>1, AssignViews, ZenonT(40)
<1>3a. Assign(v, i, id).q.sending = id
  BY <1>1, AssignViews, ZenonT(40)
<1> HIDE DEF u
<1>4. Given(v, i, id).item = i
  <2>1. v.q.data[id] \in DataRec
    BY <1>1, DataType
  <2> QED
    BY <2>1 DEF Given, DataRec
<1>5. i # NoItem
  BY <1>1, QueueAssumption
<1> QED
  BY <1>2, <1>3, <1>3a, <1>4, <1>5 DEF SendingOK, u

LEMMA StartNextTransferBook ==
    ASSUME BookInv, StartNextTransfer
    PROVE  BookInv'
<1> DEFINE w == World
           t == TryStartNextTransfer(w)
<1>1. Book(w) /\ SendingOK(w) /\ w \in Worlds /\ w.q = q
  BY InvWorld
<1>2. w.q.sending = NoEngine /\ Becomes(IF t.ok THEN t.w ELSE AdvanceQueueEnds(t.w))
  BY <1>1 DEF StartNextTransfer
<1> HIDE DEF w
<1>3. /\ t.ok \in BOOLEAN
      /\ ~t.ok => Grown(w, t.w)
      /\ t.ok => \E v, i, id : Starts(v, i, id) /\ t.w = Assign(v, i, id)
  BY <1>1, TryStart
<1> HIDE DEF t
<1>4. CASE t.ok
  <2>1. Book(t.w) /\ SendingOK(t.w)
    BY <1>3, <1>4, AssignSends
  <2> QED
    BY <1>2, <1>4, <2>1, BookBecomes
<1>5. CASE ~t.ok
  <2> DEFINE x == t.w
             u == AdvanceQueueEnds(x)
  <2>1. Book(x) /\ x.q.sending = NoEngine
    BY <1>2, <1>3, <1>5 DEF Grown, SameMode
  <2>2. Becomes(u)
    BY <1>2, <1>5
  <2> HIDE DEF x
  <2>3. Settled(x, u)
    BY <2>1, EndsViews
  <2> HIDE DEF u
  <2>4. Book(u) /\ SendingOK(u)
    BY <2>1, <2>3 DEF Settled, SendingOK
  <2> QED
    BY <2>2, <2>4, BookBecomes
<1> QED
  BY <1>3, <1>4, <1>5

LEMMA OnEngineEventBook ==
    ASSUME BookInv, NEW id \in Engines, OnEngineEvent(id)
    PROVE  BookInv'
<1> DEFINE w == World
           u == Received(w, id)
           v == ProcessReply(u, id, Head(net[id].inbox))
<1>1. Book(w) /\ SendingOK(w) /\ w.q = q /\ w.net = net
  BY InvWorld
<1>2. w.net[id].inbox # <<>>
  BY <1>1 DEF OnEngineEvent, HasReply
<1>3. Becomes(u) \/ Becomes(Done(v, id))
  BY DEF OnEngineEvent
<1> HIDE DEF w
<1>4. Book(u) /\ u.q = w.q
  BY <1>1, <1>2, BookReceived
<1>5. Answered(u, id, Head(net[id].inbox), v)
  BY <1>4, ReplyAnswered
<1> HIDE DEF u, v
<1>6. BookDecided(v, id)
  BY <1>4, <1>5, BookAnswered
<1>7. Book(Done(v, id)) /\ SendingOK(Done(v, id))
  BY <1>6, BookDone
<1>8. SendingOK(u)
  BY <1>1, <1>4 DEF SendingOK
<1> QED
  BY <1>3, <1>4, <1>7, <1>8, BookBecomes

(* The command queue of the tab.                                           *)
LEMMA BookTab ==
    ASSUME NEW w, Book(w), NEW t \in TabRec
    PROVE  LET u == [w EXCEPT !.tab = t]
           IN  Book(u) /\ u.q = w.q /\ u.item = w.item /\ u.net = w.net /\ u.tab = t
<1> DEFINE u == [w EXCEPT !.tab = t]
<1>1. w \in Worlds /\ ToOK(w)
  BY DEF Book
<1>2. u \in Worlds /\ u.tab = t /\ u.q = w.q /\ u.item = w.item /\ u.net = w.net
  BY <1>1, TabSet
<1> HIDE DEF u
<1>3. ToOK(u)
  BY <1>1, <1>2 DEF ToOK
<1> QED
  BY <1>2, <1>3, BookOutside DEF u

TabAfter(t, r) == [t EXCEPT !.cmd = "none", !.listing = (r.cmd # "disconnect")]

LEMMA TabAfterType ==
    ASSUME NEW t \in TabRec, NEW r
    PROVE  LET u == TabAfter(t, r)
           IN  /\ u \in TabRec /\ u.cmd = "none" /\ u.site = t.site /\ u.lock = t.lock
               /\ u.wants = t.wants
BY DEF TabAfter, TabRec

LEMMA BookTabEnds ==
    ASSUME NEW w, Book(w), w.net[TabEngine].inbox # <<>>
    PROVE  LET u == TabEnds(w)
           IN  /\ Book(u) /\ u.item = w.item /\ u.q.data = w.q.data /\ u.q.engines = w.q.engines
               /\ u.q.sending = w.q.sending /\ u.q.inside = w.q.inside /\ u.q.mode = w.q.mode
               /\ u.q.refused = w.q.refused
               /\ u.tab = TabAfter(w.tab, Head(w.net[TabEngine].inbox))
               /\ u.net = [w.net EXCEPT ![TabEngine] = Emptier(w.net[TabEngine])]
               /\ u.q.busy = w.q.busy
<1> DEFINE r == Head(w.net[TabEngine].inbox)
           u == Received(w, TabEngine)
           t == TabAfter(w.tab, r)
           x == [u EXCEPT !.tab = t]
<1>1. TabEngine \in Engines /\ w \in Worlds
  BY QueueAssumption DEF Engines, TabEngine, Book
<1>2. Book(u) /\ u.q = w.q /\ u.item = w.item /\ u.tab = w.tab
      /\ u.net = [w.net EXCEPT ![TabEngine] = Emptier(w.net[TabEngine])]
  BY <1>1, BookReceived
<1>3. t \in TabRec
  <2>1. w.tab \in TabRec
    BY <1>1, WorldParts
  <2> QED
    BY <2>1, TabAfterType
<1>4. TabEnds(w) = [x EXCEPT !.q.refreshed = FALSE]
  BY DEF TabEnds, TabAfter
<1> HIDE DEF u, t
<1>5. Book(x) /\ x.q = w.q /\ x.item = w.item /\ x.net = u.net /\ x.tab = t
  BY <1>2, <1>3, BookTab
<1> HIDE DEF x
<1>6. PICK no \in BOOLEAN : no = FALSE
  OBVIOUS
<1> DEFINE y == [x EXCEPT !.q.refreshed = no]
<1>7. Book(y) /\ y.item = x.item /\ y.tab = x.tab /\ y.net = x.net
      /\ y.q.mode = x.q.mode /\ y.q.inside = x.q.inside /\ y.q.sending = x.q.sending
      /\ y.q.refused = x.q.refused /\ SameEngines(x, y) /\ SameCounts(x, y)
  BY <1>5, BookSets, RefreshedSet, ZenonT(40) DEF Book
<1>8. TabEnds(w) = y
  BY <1>4, <1>6
<1> HIDE DEF y
<1> QED
  BY <1>2, <1>5, <1>7, <1>8 DEF SameEngines, SameCounts, t

LEMMA FinishBook ==
    ASSUME BookInv, Finish
    PROVE  BookInv'
<1> DEFINE w == World
           u == TabEnds(w)
<1>1. Book(w) /\ w.q = q /\ w.net = net /\ w.tab = tab
  BY InvWorld
<1>2. w.net[TabEngine].inbox # <<>> /\ w.q.sending = NoEngine
  BY <1>1 DEF Finish, HasReply, Quiet
<1>3. Becomes(IF w.tab.wants THEN GrantExclusiveEngineRequest(u) ELSE u)
  BY <1>1 DEF Finish
<1> HIDE DEF w
<1>4. Book(u) /\ u.q.sending = NoEngine
  BY <1>1, <1>2, BookTabEnds
<1> HIDE DEF u
<1>5. LET g == GrantExclusiveEngineRequest(u)
      IN  Book(g) /\ g.q = u.q
  BY <1>4, BookRelease, GrantSet DEF Book
<1> QED
  BY <1>3, <1>4, <1>5, BookBecomes DEF SendingOK

(* The tab's engine is lent to the queue.                                  *)
LEMMA BookGranted ==
    ASSUME NEW w, Book(w)
    PROVE  BookDecided(Granted(w), TabEngine)
<1> DEFINE d == w.q.data[TabEngine]
           r == ReleaseEngine(w)
<1>1. TabEngine \in Engines /\ w \in Worlds /\ GoodData(TabEngine, d)
  BY QueueAssumption DEF Engines, TabEngine, Book, DataOK
<1>2. Book(r)
  BY BookRelease
<1>3. {"alone", "send", "retry"} \subseteq Nexts
  BY DEF Nexts, Reasons
<1>4. CASE ~HasData(w, TabEngine) \/ ~d.active
  BY <1>2, <1>3, <1>4 DEF Granted, BookDecided, Decide, Data
<1>5. CASE HasData(w, TabEngine) /\ d.active /\ d.state # "waitprimary"
  BY <1>3, <1>5 DEF Granted, BookDecided, Decide, Data
<1>6. CASE HasData(w, TabEngine) /\ d.active /\ d.state = "waitprimary"
           /\ w.tab.site # SiteOf[d.item]
  BY <1>2, <1>3, <1>6 DEF Granted, BookDecided, Decide, Data
<1>7. CASE HasData(w, TabEngine) /\ d.active /\ d.state = "waitprimary"
           /\ w.tab.site = SiteOf[d.item]
  <2> DEFINE s == Work(d.item)
             u == SetState(w, TabEngine, s)
  <2>1. Granted(w) = Decide(u, "send")
    BY <1>7 DEF Granted, Data
  <2>2. d.item # NoItem /\ d \in DataRec
    BY <1>1, <1>7, DataType DEF GoodData
  <2>3. Book(u)
    BY <1>1, <2>2, BookState
  <2>4. s \in States
    BY WorkType DEF States
  <2>5. u.q.data = [w.q.data EXCEPT ![TabEngine] = WithState(d, s)]
    BY <1>1, <2>4, StateViews
  <2>6. WithState(d, s).item = d.item
    BY <2>2, <2>4, WithStateType
  <2>7. w.q.data \in [Engines -> DataRec]
    BY <1>1, WorldParts
  <2> HIDE DEF u, s, d
  <2>8. u.q.data[TabEngine].item # NoItem
    BY <1>1, <2>2, <2>5, <2>6, <2>7
  <2> QED
    BY <1>3, <2>1, <2>3, <2>8 DEF BookDecided, Decide
<1> QED
  BY <1>4, <1>5, <1>6, <1>7

Popped(t) == [t EXCEPT !.grants = Tail(t.grants)]

LEMMA PoppedType ==
    ASSUME NEW t \in TabRec, t.grants # <<>>
    PROVE  /\ Popped(t) \in TabRec /\ Popped(t).site = t.site /\ Popped(t).cmd = t.cmd
           /\ Popped(t).lock = t.lock /\ Popped(t).wants = t.wants
           /\ Popped(t).listing = t.listing /\ Popped(t).id = t.id
<1>1. Tail(t.grants) \in Seq(Nat)
  BY DEF TabRec
<1> QED
  BY <1>1 DEF Popped, TabRec

LEMMA OnExclusiveEngineRequestGrantedBook ==
    ASSUME BookInv, OnExclusiveEngineRequestGranted
    PROVE  BookInv'
<1> DEFINE t == Popped(tab)
           w == [World EXCEPT !.tab = t]
           v == Granted(w)
<1>1. Book(World) /\ World \in Worlds /\ World.q = q /\ World.tab = tab
  BY InvWorld
<1>2. [World EXCEPT !.tab.grants = Tail(tab.grants)] = w
  BY <1>1 DEF Popped, Worlds
<1>3. Becomes(w) \/ Becomes(Done(v, TabEngine))
  <2> HIDE DEF w
  <2> QED
    BY <1>2 DEF OnExclusiveEngineRequestGranted
<1>4. tab.grants # <<>> /\ q.sending = NoEngine
  BY DEF OnExclusiveEngineRequestGranted, Handler, Quiet
<1>5. tab \in TabRec
  BY <1>1, WorldParts
<1>6. t \in TabRec
  BY <1>4, <1>5, PoppedType
<1> HIDE DEF t
<1>7. Book(w) /\ w.q = World.q
  BY <1>1, <1>6, BookTab
<1> HIDE DEF w
<1>8. BookDecided(v, TabEngine)
  BY <1>7, BookGranted
<1> HIDE DEF v
<1>9. TabEngine \in Engines
  BY QueueAssumption DEF Engines, TabEngine
<1>10. Book(Done(v, TabEngine)) /\ SendingOK(Done(v, TabEngine))
  BY <1>8, <1>9, BookDone
<1>11. SendingOK(w)
  BY <1>1, <1>4, <1>7 DEF SendingOK
<1> QED
  BY <1>3, <1>7, <1>10, <1>11, BookBecomes

(* The lists and the places of the files change.                           *)
LEMMA BookRelisted ==
    ASSUME NEW w, Book(w), NEW u \in Worlds, SameEngines(w, u), SameCounts(w, u), u.net = w.net,
           ListsOK(u), \A i \in Items : /\ u.item[i].active = w.item[i].active
                                        /\ w.item[i].active => u.item[i].where = "queue"
    PROVE  Book(u)
<1>1. w \in Worlds /\ ItemsOK(w)
  BY DEF Book
<1>2. ListOK(u) /\ DataOK(u)
  BY DEF Book, ListOK, DataOK, NumOwn, HasData, SameEngines
<1>3. ItemsOK(u)
  <2>1. \A e \in Engines : w.q.data[e].item \in Items \cup {NoItem}
    BY <1>1, DataType DEF Files
  <2>2. u.q.data = w.q.data
    BY DEF SameEngines
  <2> QED
    BY <1>1, <2>1, <2>2, SameItemsOK
<1>4. CountsOK(u)
  BY DEF Book, CountsOK, SameEngines, SameCounts
<1>5. ToOK(u)
  BY DEF Book, ToOK
<1> QED
  BY <1>2, <1>3, <1>4, <1>5 DEF Book

FiledIn(w, u, i, p, now, later) ==
    /\ u \in Worlds /\ SameRest(w, u) /\ u.q.now = now /\ u.q.later = later
    /\ u.item[i] = [w.item[i] EXCEPT !.where = p]
    /\ \A j \in Items \ {i} : u.item[j] = w.item[j]

LEMMA FiledViews ==
    ASSUME NEW w \in Worlds, NEW i \in Items, NEW p \in Places, NEW now, NEW later,
           now \in [Sites -> Seq(Items)], later \in [Sites -> Seq(Items)]
    PROVE  FiledIn(w, Placed(WithLists(w, now, later), i, p), i, p, now, later)
<1> DEFINE u == Placed(WithLists(w, now, later), i, p)
<1>1. /\ u \in Worlds /\ SameRest(w, u) /\ u.q.now = now /\ u.q.later = later
      /\ u.item[i] = [w.item[i] EXCEPT !.where = p]
      /\ \A j \in Items \ {i} : u.item[j] = w.item[j]
  BY RemoveFrom
<1> HIDE DEF u
<1>2. FiledIn(w, u, i, p, now, later)
  BY <1>1 DEF FiledIn
<1> QED
  BY <1>2 DEF u

FiledWith(w, i, p, now, later, servers, mode) ==
    [w EXCEPT !.item[i].where = p, !.q.servers = servers, !.q.now = now, !.q.later = later,
              !.q.mode = mode]

FiledInTurns(w, i, p, now, later, servers, mode) ==
    [[Placed(WithLists(w, now, later), i, p) EXCEPT !.q.servers = servers] EXCEPT !.q.mode = mode]

LEMMA FiledInTurn ==
    ASSUME NEW w \in Worlds, NEW i, NEW p, NEW now, NEW later, NEW servers, NEW mode
    PROVE  FiledWith(w, i, p, now, later, servers, mode) =
               FiledInTurns(w, i, p, now, later, servers, mode)
<1> DEFINE c == w.q
           c1 == [c EXCEPT !.servers = servers, !.now = now, !.later = later, !.mode = mode]
           c0 == [c EXCEPT !.now = now, !.later = later]
           c3 == [c0 EXCEPT !.servers = servers]
           c2 == [c3 EXCEPT !.mode = mode]
           y == [w.item EXCEPT ![i].where = p]
           W(k, z) == [q |-> k, item |-> z, tab |-> w.tab, net |-> w.net]
<1>0. w = W(c, w.item)
  BY DEF Worlds
<1>1. c1 = c2
  BY DEF Worlds, QueueRec
<1>2. FiledWith(w, i, p, now, later, servers, mode) = W(c1, y)
  <2>1. FiledWith(w, i, p, now, later, servers, mode) = [[w EXCEPT !.item = y] EXCEPT !.q = c1]
    BY DEF FiledWith, Worlds
  <2> HIDE DEF c1, y
  <2> QED
    BY <2>1, <1>0
<1>3. WithLists(w, now, later) = W(c0, w.item)
  <2>1. WithLists(w, now, later) = [w EXCEPT !.q = c0]
    BY DEF WithLists, Worlds
  <2> HIDE DEF c0
  <2> QED
    BY <2>1, <1>0
<1> HIDE DEF c0
<1>4. Placed(WithLists(w, now, later), i, p) = W(c0, y)
  BY <1>3 DEF Placed
<1> HIDE DEF y
<1>5. ASSUME NEW k PROVE /\ [W(k, y) EXCEPT !.q.servers = servers] = W([k EXCEPT !.servers = servers], y)
                         /\ [W(k, y) EXCEPT !.q.mode = mode] = W([k EXCEPT !.mode = mode], y)
  OBVIOUS
<1>6. [Placed(WithLists(w, now, later), i, p) EXCEPT !.q.servers = servers] = W(c3, y)
  BY <1>4, <1>5
<1> HIDE DEF c3
<1>7. [W(c3, y) EXCEPT !.q.mode = mode] = W(c2, y)
  BY <1>5
<1> HIDE DEF c1, c2, W
<1>8. FiledInTurns(w, i, p, now, later, servers, mode) = W(c2, y)
  <2>1. FiledInTurns(w, i, p, now, later, servers, mode) =
            [[Placed(WithLists(w, now, later), i, p) EXCEPT !.q.servers = servers] EXCEPT !.q.mode = mode]
    BY DEF FiledInTurns
  <2> QED
    BY <2>1, <1>6, <1>7
<1> QED
  BY <1>1, <1>2, <1>8

(* QueueFile.                                                              *)
LEMMA QueuedViews ==
    ASSUME NEW w \in Worlds, NEW i \in Items, NEW queueOnly \in BOOLEAN
    PROVE  LET u == Queued(w, i, queueOnly)
           IN  /\ u \in Worlds /\ SameEngines(w, u) /\ SameCounts(w, u)
               /\ u.tab = w.tab /\ u.net = w.net
               /\ u.item[i] = [w.item[i] EXCEPT !.where = "queue"]
               /\ \A j \in Items \ {i} : u.item[j] = w.item[j]
               /\ \A s \in Sites, j \in Items :
                    Listed(u, s, j) <=> Listed(w, s, j) \/ (s = SiteOf[i] /\ j = i)
               /\ u.q.sending = w.q.sending /\ u.q.inside = w.q.inside /\ u.q.refused = w.q.refused
               /\ u.q.mode = w.q.mode \/ u.q.mode = 1
<1>0. PICK p \in Places : p = "queue"
  BY DEF Places
<1> DEFINE c == w.q
           s == SiteOf[i]
           now == IF queueOnly THEN c.now ELSE [c.now EXCEPT ![s] = Append(c.now[s], i)]
           later == IF queueOnly THEN [c.later EXCEPT ![s] = Append(c.later[s], i)] ELSE c.later
           servers == IF Contains(c.servers, s) THEN c.servers ELSE Append(c.servers, s)
           mode == IF c.mode = 0 /\ ~queueOnly THEN 1 ELSE c.mode
           y == Placed(WithLists(w, now, later), i, p)
           z == [y EXCEPT !.q.servers = servers]
           u == [z EXCEPT !.q.mode = mode]
<1>1. s \in Sites /\ c.now \in [Sites -> Seq(Items)] /\ c.later \in [Sites -> Seq(Items)]
      /\ c.servers \in Seq(Sites) /\ c.mode \in 0 .. 2
  BY QueueAssumption, WorldParts, QueueType
<1>2. Append(c.now[s], i) \in Seq(Items) /\ Append(c.later[s], i) \in Seq(Items)
  BY <1>1
<1>3. now \in [Sites -> Seq(Items)] /\ later \in [Sites -> Seq(Items)]
      /\ servers \in Seq(Sites) /\ mode \in 0 .. 2 /\ (mode = c.mode \/ mode = 1)
  <2> HIDE DEF s, c
  <2> QED
    BY <1>1, <1>2
<1>4. Queued(w, i, queueOnly) = u
  <2>1. now = (IF queueOnly THEN c.now ELSE [c.now EXCEPT ![s] = Append(@, i)])
        /\ later = (IF queueOnly THEN [c.later EXCEPT ![s] = Append(@, i)] ELSE c.later)
    <3> HIDE DEF s, c
    <3> QED
      BY <1>1
  <2>2. Queued(w, i, queueOnly) = FiledWith(w, i, p, now, later, servers, mode)
    BY <1>0, <2>1 DEF Queued, FiledWith
  <2> HIDE DEF now, later, servers, mode
  <2>3. FiledWith(w, i, p, now, later, servers, mode) = FiledInTurns(w, i, p, now, later, servers, mode)
    BY FiledInTurn
  <2>4. FiledInTurns(w, i, p, now, later, servers, mode) = u
    BY DEF FiledInTurns
  <2> QED
    BY <2>2, <2>3, <2>4
<1> HIDE DEF now, later, servers, mode
<1>6. /\ y \in Worlds /\ SameRest(w, y) /\ y.q.now = now /\ y.q.later = later
      /\ y.item[i] = [w.item[i] EXCEPT !.where = p]
      /\ \A j \in Items \ {i} : y.item[j] = w.item[j]
  <2>1. now \in [Sites -> Seq(Items)] /\ later \in [Sites -> Seq(Items)]
    BY <1>3
  <2>2. FiledIn(w, y, i, p, now, later)
    BY <2>1, FiledViews
  <2> HIDE DEF y
  <2> QED
    BY <2>2 DEF FiledIn
<1> HIDE DEF y
<1>7. z \in Worlds /\ z.item = y.item /\ SameRest(y, z) /\ SameLists(y, z)
  BY <1>3, <1>6, ServersViews
<1> HIDE DEF z
<1>8. /\ u \in Worlds /\ u.item = z.item /\ u.tab = z.tab /\ u.net = z.net
      /\ u.q.inside = z.q.inside /\ u.q.sending = z.q.sending /\ u.q.refused = z.q.refused
      /\ u.q.mode = mode /\ SameEngines(z, u) /\ SameCounts(z, u) /\ SameLists(z, u)
  BY <1>3, <1>7, ModeSet, ZenonT(40)
<1> HIDE DEF u
<1>9. ASSUME NEW t \in Sites, NEW j \in Items
      PROVE  Listed(u, t, j) <=> Listed(w, t, j) \/ (t = s /\ j = i)
  <2> DEFINE a == w.q.now[t]
             b == w.q.later[t]
             a1 == now[t]
             b1 == later[t]
  <2>1. a \in Seq(Items) /\ b \in Seq(Items) /\ a1 \in Seq(Items) /\ b1 \in Seq(Items)
    BY <1>1, <1>3
  <2>2. Children(u, t) = a1 \o b1 /\ Children(w, t) = a \o b
    BY <1>6, <1>7, <1>8 DEF Children, SameLists
  <2>2a. Listed(u, t, j) <=> Contains(a1, j) \/ Contains(b1, j)
    <3> HIDE DEF a1, b1
    <3> QED
      BY <2>1, <2>2, ConcatHas DEF Listed
  <2>2b. Listed(w, t, j) <=> Contains(a, j) \/ Contains(b, j)
    <3> HIDE DEF a, b
    <3> QED
      BY <2>1, <2>2, ConcatHas DEF Listed
  <2>3. CASE t # s
    <3>1. a1 = a /\ b1 = b
      <4> HIDE DEF s
      <4> QED
        BY <1>1, <2>3 DEF now, later
    <3> QED
      BY <2>2, <2>3, <3>1 DEF Listed
  <2>4. CASE t = s /\ queueOnly
    <3>1. a1 = a /\ b1 = Append(b, i)
      <4> HIDE DEF s
      <4> QED
        BY <1>1, <2>4 DEF now, later
    <3> HIDE DEF a, b, a1, b1
    <3>2. Contains(b1, j) <=> Contains(b, j) \/ i = j
      BY <2>1, <3>1, AppendHas
    <3> QED
      BY <2>2a, <2>2b, <2>4, <3>1, <3>2
  <2>5. CASE t = s /\ ~queueOnly
    <3>1. a1 = Append(a, i) /\ b1 = b
      <4> HIDE DEF s
      <4> QED
        BY <1>1, <2>5 DEF now, later
    <3> HIDE DEF a, b, a1, b1
    <3>2. Contains(a1, j) <=> Contains(a, j) \/ i = j
      BY <2>1, <3>1, AppendHas
    <3> QED
      BY <2>2a, <2>2b, <2>5, <3>1, <3>2
  <2> QED
    BY <2>3, <2>4, <2>5
<1>10. SameEngines(w, u) /\ SameCounts(w, u) /\ u.tab = w.tab /\ u.net = w.net
       /\ u.q.sending = w.q.sending /\ u.q.inside = w.q.inside /\ u.q.refused = w.q.refused
  BY <1>6, <1>7, <1>8 DEF SameEngines, SameCounts, SameRest, SameMode
<1>11. u.item[i] = [w.item[i] EXCEPT !.where = "queue"] /\ \A j \in Items \ {i} : u.item[j] = w.item[j]
  BY <1>0, <1>6, <1>7, <1>8
<1> QED
  BY <1>3, <1>4, <1>8, <1>9, <1>10, <1>11

LEMMA PlacedFields ==
    ASSUME NEW r \in ItemRec, NEW p \in Places
    PROVE  LET t == [r EXCEPT !.where = p]
           IN  /\ t.active = r.active /\ t.where = p /\ t.sent = r.sent /\ t.remove = r.remove
               /\ t.errors = r.errors
BY DEF ItemRec

LEMMA BookQueued ==
    ASSUME NEW w, Book(w), NEW i \in Items, NEW queueOnly \in BOOLEAN
    PROVE  LET u == Queued(w, i, queueOnly)
           IN  Book(u)
<1> DEFINE u == Queued(w, i, queueOnly)
<1>1. w \in Worlds /\ ListsOK(w) /\ ItemsOK(w)
  BY DEF Book
<1>2. /\ u \in Worlds /\ SameEngines(w, u) /\ SameCounts(w, u) /\ u.net = w.net
      /\ u.item[i] = [w.item[i] EXCEPT !.where = "queue"]
      /\ \A j \in Items \ {i} : u.item[j] = w.item[j]
      /\ \A s \in Sites, j \in Items :
           Listed(u, s, j) <=> Listed(w, s, j) \/ (s = SiteOf[i] /\ j = i)
  BY <1>1, QueuedViews
<1> HIDE DEF u
<1>3. u.item[i].where = "queue" /\ u.item[i].active = w.item[i].active
  <2>1. w.item[i] \in ItemRec
    BY <1>1, ItemType
  <2>2. PICK p \in Places : p = "queue"
    BY DEF Places
  <2>3. u.item[i] = [w.item[i] EXCEPT !.where = p]
    BY <1>2, <2>2
  <2> QED
    BY <2>1, <2>2, <2>3, PlacedFields
<1>4. \A j \in Items : SiteOf[j] \in Sites
  BY QueueAssumption
<1>5. ListsOK(u)
  <2>1. ASSUME NEW j \in Items PROVE u.item[j].where = "queue" <=> Listed(u, SiteOf[j], j)
    <3>1. w.item[j].where = "queue" <=> Listed(w, SiteOf[j], j)
      BY <1>1 DEF ListsOK
    <3>2. Listed(u, SiteOf[j], j) <=> Listed(w, SiteOf[j], j) \/ (SiteOf[j] = SiteOf[i] /\ j = i)
      BY <1>2, <1>4
    <3>3. CASE j = i
      BY <1>3, <3>2, <3>3
    <3>4. CASE j # i
      BY <1>2, <3>1, <3>2, <3>4
    <3> QED
      BY <3>3, <3>4
  <2>2. ASSUME NEW s \in Sites, NEW j \in Items, Listed(u, s, j) PROVE SiteOf[j] = s
    BY <1>1, <1>2, <2>2 DEF ListsOK
  <2> QED
    BY <2>1, <2>2 DEF ListsOK
<1>6. ASSUME NEW j \in Items
      PROVE  /\ u.item[j].active = w.item[j].active
             /\ w.item[j].active => u.item[j].where = "queue"
  <2>1. w.item[j].active => w.item[j].where = "queue"
    <3>1. ASSUME w.item[j].active PROVE w.item[j].where = "queue"
      <4>1. PICK e \in Engines : w.q.data[e].item = j
        BY <1>1, <3>1 DEF ItemsOK
      <4>2. j # NoItem
        BY QueueAssumption
      <4> QED
        BY <1>1, <4>1, <4>2 DEF ItemsOK
    <3> QED
      BY <3>1
  <2> QED
    BY <1>2, <1>3, <2>1
<1>7. Book(u)
  BY <1>2, <1>5, <1>6, BookRelisted
<1> QED
  BY <1>7 DEF u

LEMMA QueueFileBook ==
    ASSUME BookInv, QueueFile
    PROVE  BookInv'
<1>1. Book(World) /\ World \in Worlds /\ World.q = q
  BY InvWorld
<1>2. PICK i \in Items, queueOnly \in BOOLEAN :
         LET w == Queued(World, i, queueOnly)
         IN  Becomes(IF w.q.mode # 0 THEN AdvanceQueue(w) ELSE w)
  BY DEF QueueFile
<1>3. q.sending = NoEngine
  BY DEF QueueFile, Handler, Quiet
<1> DEFINE w == Queued(World, i, queueOnly)
           u == AdvanceQueue(w)
<1>4. Becomes(w) \/ Becomes(u)
  BY <1>2
<1>5. Book(w) /\ w.q.sending = World.q.sending
  BY <1>1, BookQueued, QueuedViews, ZenonT(40)
<1> HIDE DEF w
<1>6. Book(u) /\ u.q.sending = w.q.sending
  BY <1>5, AdvancedViews
<1> QED
  BY <1>1, <1>3, <1>4, <1>5, <1>6, BookBecomes DEF SendingOK

LEMMA HandlerQuiet ==
    ASSUME Handler
    PROVE  q.sending = NoEngine
BY DEF Handler, Quiet

LEMMA SetActiveBook ==
    ASSUME BookInv, SetActive
    PROVE  BookInv'
<1>1. Book(World) /\ World \in Worlds /\ World.q = q
  BY InvWorld
<1>2. q.sending = NoEngine /\ Becomes(AdvanceQueue([World EXCEPT !.q.mode = 2]))
  BY HandlerQuiet DEF SetActive, Event
<1>3. PICK m \in 0 .. 2 : m = 2
  OBVIOUS
<1> DEFINE w == [World EXCEPT !.q.mode = m]
           u == AdvanceQueue(w)
<1>4. Becomes(u)
  BY <1>2, <1>3
<1>5. Book(w) /\ w.q.sending = World.q.sending
  BY <1>1, BookSets, ModeSet
<1> HIDE DEF w
<1>6. Book(u) /\ u.q.sending = w.q.sending
  BY <1>5, AdvancedViews
<1> QED
  BY <1>1, <1>2, <1>4, <1>5, <1>6, BookBecomes DEF SendingOK

LEMMA StopBook ==
    ASSUME BookInv, Stop
    PROVE  BookInv'
<1>1. Book(World) /\ World \in Worlds /\ World.q = q
  BY InvWorld
<1>2. q.sending = NoEngine /\ Becomes(Deactivate(World))
  BY HandlerQuiet DEF Stop, Event
<1>3. Halted(World, Deactivate(World))
  BY <1>1, DeactivateViews
<1>4. Book(Deactivate(World)) /\ Deactivate(World).q.sending = World.q.sending
  BY <1>3 DEF Halted
<1> QED
  BY <1>1, <1>2, <1>4, BookBecomes DEF SendingOK

(* OnTimer.                                                                *)
Untimed(d) == [d EXCEPT !.timer = FALSE]

LEMMA UntimedType ==
    ASSUME NEW d \in DataRec
    PROVE  LET e == Untimed(d)
           IN  /\ e \in DataRec /\ ~e.timer /\ e.active = d.active /\ e.item = d.item
               /\ e.state = d.state /\ e.site = d.site
<1>1. PICK no \in BOOLEAN : no = FALSE
  OBVIOUS
<1>2. Untimed(d) = [d EXCEPT !.timer = no]
  BY <1>1 DEF Untimed
<1> QED
  BY <1>1, <1>2 DEF DataRec

LEMMA BookUntimed ==
    ASSUME NEW w, Book(w), NEW id \in Engines, w.q.data[id].timer
    PROVE  LET u == WithData(w, id, Untimed(w.q.data[id]))
           IN  /\ Book(u) /\ u.item = w.item /\ u.tab = w.tab /\ u.net = w.net
               /\ u.q.data = [w.q.data EXCEPT ![id] = Untimed(w.q.data[id])]
               /\ u.q.engines = w.q.engines
               /\ u.q.sending = w.q.sending /\ u.q.mode = w.q.mode /\ u.q.inside = w.q.inside
               /\ u.q.refused = w.q.refused
<1> DEFINE d == w.q.data[id]
           e == Untimed(d)
<1>1. w \in Worlds /\ DataOK(w)
  BY DEF Book
<1>2. d \in DataRec
  BY <1>1, DataType
<1>3. HasData(w, id)
  BY <1>1 DEF DataOK, NewData
<1>4. e \in DataRec /\ ~e.timer /\ e.active = d.active /\ e.item = d.item
      /\ e.state = d.state /\ e.site = d.site
  BY <1>2, UntimedType
<1>5. GoodData(id, e)
  <2>1. GoodData(id, d)
    BY <1>1 DEF DataOK
  <2> HIDE DEF d, e
  <2> QED
    BY <1>4, <2>1 DEF GoodData
<1>6. Book(WithData(w, id, e))
  <2> HIDE DEF e
  <2> QED
    BY <1>3, <1>4, <1>5, BookData
<1> DEFINE u == WithData(w, id, e)
<1>7. /\ u.q = [w.q EXCEPT !.data = [w.q.data EXCEPT ![id] = e]]
      /\ u.item = w.item /\ u.tab = w.tab /\ u.net = w.net
  <2> HIDE DEF e
  <2> QED
    BY <1>1, <1>4, DataSet
<1> HIDE DEF u, e
<1>8. /\ u.q.data = [w.q.data EXCEPT ![id] = e] /\ u.q.engines = w.q.engines
      /\ u.q.sending = w.q.sending /\ u.q.mode = w.q.mode /\ u.q.inside = w.q.inside
      /\ u.q.refused = w.q.refused
  BY <1>1, <1>7 DEF Worlds, QueueRec
<1> QED
  BY <1>6, <1>7, <1>8 DEF u, e

LEMMA OnTimerBook ==
    ASSUME BookInv, OnTimer
    PROVE  BookInv'
<1>1. Book(World) /\ World \in Worlds /\ World.q = q /\ World.net = net
  BY InvWorld
<1>2. q.sending = NoEngine
  BY HandlerQuiet DEF OnTimer, Event
<1>3. PICK id \in Engines :
         LET w == WithData(World, id, [q.data[id] EXCEPT !.timer = FALSE])
         IN  /\ q.data[id].timer
             /\ Becomes(IF IsConnected(w, id) /\ Precondition(w, id, "disconnect") # "busy"
                        THEN Execute(w, id, "disconnect", NoItem) ELSE w)
  BY DEF OnTimer
<1> DEFINE w == WithData(World, id, Untimed(World.q.data[id]))
           u == Execute(w, id, "disconnect", NoItem)
<1>4. q.data[id].timer /\ (Becomes(w) \/ Becomes(u))
  BY <1>1, <1>3 DEF Untimed
<1>5. Book(w) /\ w.q.sending = World.q.sending
  BY <1>1, <1>4, BookUntimed
<1> HIDE DEF w
<1>6. PICK cmd \in Commands, to \in Aims : cmd = "disconnect" /\ to = NoItem
  BY DEF Commands, Aims, Files
<1> DEFINE x == Execute(w, id, cmd, to)
<1>7. Book(x)
  BY <1>5, <1>6, BookExecute
<1>8. x.q = w.q
  <2>1. w \in Worlds
    BY <1>5 DEF Book
  <2>2. x \in Worlds /\ x.item = w.item /\ x.tab = w.tab /\ x.q = w.q
        /\ x.net = [w.net EXCEPT ![id] = Executing(w.net[id], cmd, to)]
    BY <2>1, ExecutedViews
  <2> QED
    BY <2>2
<1>9. Book(u) /\ u.q = w.q
  <2>1. u = x
    BY <1>6
  <2> HIDE DEF u, x
  <2> QED
    BY <1>7, <1>8, <2>1
<1> QED
  BY <1>1, <1>2, <1>4, <1>5, <1>9, BookBecomes DEF SendingOK

(* TabCommand.                                                             *)
TabBegun(t, cmd, s) == [t EXCEPT !.cmd = cmd, !.site = IF cmd = "disconnect" THEN NoSite ELSE s]

LEMMA TabBegunType ==
    ASSUME NEW t \in TabRec, NEW cmd \in {"browse", "connect", "disconnect"}, NEW s \in Sites
    PROVE  LET u == TabBegun(t, cmd, s)
           IN  /\ u \in TabRec /\ u.cmd = cmd /\ u.lock = t.lock /\ u.wants = t.wants
               /\ u.site = IF cmd = "disconnect" THEN NoSite ELSE s
<1> DEFINE y == IF cmd = "disconnect" THEN NoSite ELSE s
<1>1. y \in Servers
  BY DEF Servers
<1>2. TabBegun(t, cmd, s) = [t EXCEPT !.cmd = cmd, !.site = y]
  BY DEF TabBegun
<1> HIDE DEF y
<1>3. LET u == [t EXCEPT !.cmd = cmd, !.site = y]
      IN  u \in TabRec /\ u.cmd = cmd /\ u.lock = t.lock /\ u.wants = t.wants /\ u.site = y
  BY <1>1 DEF TabRec
<1> QED
  BY <1>2, <1>3 DEF y

LEMMA BookTabBegins ==
    ASSUME NEW w, Book(w), NEW cmd \in {"browse", "connect", "disconnect"}, NEW s \in Sites
    PROVE  LET u == TabBegins(w, cmd, s)
           IN  /\ Book(u) /\ u.q = w.q /\ u.item = w.item /\ u.tab = TabBegun(w.tab, cmd, s)
               /\ u.net = [w.net EXCEPT ![TabEngine] = Executing(w.net[TabEngine], cmd, s)]
<1> DEFINE v == Execute(w, TabEngine, cmd, s)
           t == TabBegun(w.tab, cmd, s)
<1>1. TabEngine \in Engines /\ cmd \in Commands /\ s \in Aims /\ w \in Worlds
  BY QueueAssumption DEF Engines, TabEngine, Commands, Aims, Book
<1>2. Book(v)
  BY <1>1, BookExecute
<1>3. v.q = w.q /\ v.item = w.item /\ v.tab = w.tab
      /\ v.net = [w.net EXCEPT ![TabEngine] = Executing(w.net[TabEngine], cmd, s)]
  BY <1>1, ExecutedViews
<1>4. TabBegins(w, cmd, s) = [v EXCEPT !.tab = t]
  BY DEF TabBegins, TabBegun
<1> HIDE DEF v
<1>5. t \in TabRec
  <2>1. w.tab \in TabRec
    BY <1>1, WorldParts
  <2> QED
    BY <2>1, TabBegunType
<1> HIDE DEF t
<1> DEFINE u == [v EXCEPT !.tab = t]
<1>6. Book(u) /\ u.q = v.q /\ u.item = v.item /\ u.net = v.net /\ u.tab = t
  BY <1>2, <1>5, BookTab
<1> HIDE DEF u
<1> QED
  BY <1>3, <1>4, <1>6 DEF u, t

LEMMA TabCommandBook ==
    ASSUME BookInv, TabCommand
    PROVE  BookInv'
<1>1. Book(World) /\ World.q = q
  BY InvWorld
<1>2. q.sending = NoEngine
  BY HandlerQuiet DEF TabCommand, Event
<1>3. PICK cmd \in {"browse", "connect", "disconnect"}, s \in Sites : Becomes(TabBegins(World, cmd, s))
  BY DEF TabCommand
<1>4. Book(TabBegins(World, cmd, s)) /\ TabBegins(World, cmd, s).q = World.q
  BY <1>1, BookTabBegins, ZenonT(40)
<1> QED
  BY <1>1, <1>2, <1>3, <1>4, BookBecomes DEF SendingOK

LEMMA ActiveQueued ==
    ASSUME NEW w, Book(w), NEW i \in Items, w.item[i].active
    PROVE  /\ w.item[i].where = "queue" /\ Listed(w, SiteOf[i], i)
           /\ \E e \in Engines : w.q.data[e].item = i
<1>1. ItemsOK(w) /\ ListsOK(w)
  BY DEF Book
<1>2. PICK e \in Engines : w.q.data[e].item = i
  BY <1>1 DEF ItemsOK
<1>3. i # NoItem
  BY QueueAssumption
<1>4. w.item[i].where = "queue"
  BY <1>1, <1>2, <1>3 DEF ItemsOK
<1> QED
  BY <1>1, <1>2, <1>4 DEF ListsOK

LEMMA BookToBeRemoved ==
    ASSUME NEW w, Book(w), NEW i \in Items
    PROVE  LET u == ToBeRemoved(w, i)
           IN  /\ Book(u) /\ u.q = w.q /\ u.tab = w.tab /\ u.net = w.net
               /\ \A j \in Items : /\ u.item[j].active = w.item[j].active
                                   /\ u.item[j].where = w.item[j].where
                                   /\ u.item[j].sent = w.item[j].sent
<1> DEFINE u == ToBeRemoved(w, i)
<1>1. w \in Worlds /\ ToOK(w)
  BY DEF Book
<1>2. PICK yes \in BOOLEAN : yes = TRUE
  OBVIOUS
<1>3. /\ u \in Worlds /\ u.item[i] = [w.item[i] EXCEPT !.remove = yes]
      /\ \A j \in Items \ {i} : u.item[j] = w.item[j]
      /\ u.q = w.q /\ u.tab = w.tab /\ u.net = w.net
  BY <1>1, <1>2, RemoveSet
<1> HIDE DEF u
<1>4. w.item[i] \in ItemRec
  BY <1>1, ItemType
<1>5. u.item[i].active = w.item[i].active /\ u.item[i].where = w.item[i].where
      /\ u.item[i].sent = w.item[i].sent
  BY <1>3, <1>4 DEF ItemRec
<1>6. \A j \in Items : /\ u.item[j].active = w.item[j].active
                       /\ u.item[j].where = w.item[j].where
                       /\ u.item[j].sent = w.item[j].sent
  BY <1>3, <1>5
<1>7. SameEngines(w, u) /\ SameCounts(w, u) /\ SameLists(w, u) /\ ToOK(u)
  BY <1>1, <1>3 DEF SameEngines, SameCounts, SameLists, ToOK
<1>8. Book(u)
  BY <1>3, <1>6, <1>7, BookFrame
<1> QED
  BY <1>3, <1>6, <1>8 DEF u

LEMMA BookPutBack ==
    ASSUME NEW w, Book(w), NEW i \in Items
    PROVE  LET u == QueueImmediateFile(w, i)
           IN  Book(u) /\ u.item = w.item /\ SameRest(w, u)
<1> DEFINE u == QueueImmediateFile(w, i)
<1>1. w \in Worlds /\ ListsOK(w)
  BY DEF Book
<1>2. /\ u \in Worlds /\ u.item = w.item /\ SameRest(w, u) /\ u.q.servers = w.q.servers
      /\ \A s \in Sites, j \in Items : Listed(u, s, j) <=> Listed(w, s, j)
  BY <1>1, PutBackViews
<1> HIDE DEF u
<1>3. ListsOK(u)
  <2>1. \A j \in Items : SiteOf[j] \in Sites
    BY QueueAssumption
  <2> QED
    BY <1>1, <1>2, <2>1 DEF ListsOK
<1>4. \A j \in Items : /\ u.item[j].active = w.item[j].active
                       /\ w.item[j].active => u.item[j].where = "queue"
  BY <1>2, ActiveQueued
<1>5. SameEngines(w, u) /\ SameCounts(w, u) /\ u.net = w.net
  BY <1>2 DEF SameRest
<1>6. Book(u)
  BY <1>2, <1>3, <1>4, <1>5, BookRelisted
<1> QED
  BY <1>2, <1>6 DEF u

LEMMA BookCancel ==
    ASSUME NEW w, Book(w), NEW id \in Engines
    PROVE  LET u == CancelEngine(w, id)
           IN  /\ Book(u) /\ u.q = w.q /\ u.item = w.item /\ u.tab = w.tab
               /\ \A e \in Engines : Cancelled(w.net[e], u.net[e])
<1> DEFINE u == CancelEngine(w, id)
           n == [w.net[id] EXCEPT !.cancel = TRUE]
<1>1. w \in Worlds /\ ToOK(w)
  BY DEF Book
<1>2. w.net \in [Engines -> NetRec] /\ w.net[id] \in NetRec
  BY <1>1, WorldParts, NetType
<1>3. /\ u \in Worlds /\ u.item = w.item /\ u.tab = w.tab /\ u.q = w.q
      /\ u.net = IF w.net[id].cmd = "none" THEN w.net
                 ELSE [w.net EXCEPT ![id] = [w.net[id] EXCEPT !.cancel = TRUE]]
  BY <1>1, CancelSet
<1> HIDE DEF u
<1>4. n.cmd = w.net[id].cmd /\ n.to = w.net[id].to
  BY <1>2 DEF NetRec
<1>5. u.net = IF w.net[id].cmd = "none" THEN w.net ELSE [w.net EXCEPT ![id] = n]
  BY <1>3
<1>6. \A e \in Engines : Cancelled(w.net[e], u.net[e])
  BY <1>2, <1>5 DEF Cancelled
<1> HIDE DEF n
<1>7. \A e \in Engines : u.net[e].cmd = w.net[e].cmd /\ u.net[e].to = w.net[e].to
  BY <1>2, <1>4, <1>5
<1>8. ToOK(u)
  BY <1>1, <1>7 DEF ToOK
<1>9. Book(u)
  BY <1>3, <1>8, BookOutside
<1> QED
  BY <1>3, <1>6, <1>9 DEF u

LEMMA BookStopItem ==
    ASSUME NEW w, Book(w), w.q.sending = NoEngine, NEW i \in Items, w.item[i].active
    PROVE  LET u == StopItem(w, i) IN Book(u) /\ u.q.sending = NoEngine
<1> DEFINE id == CHOOSE k \in Engines : Data(w, k).item = i
           v == QueueImmediateFile(w, i)
<1>1. id \in Engines
  BY ActiveQueued DEF Data
<1>2. Book(v) /\ SameRest(w, v)
  BY BookPutBack
<1>3. StopItem(w, i) = ResetEngine(v, id, "remove") \/ StopItem(w, i) = CancelEngine(v, id)
  BY DEF StopItem
<1> HIDE DEF id, v
<1>4. v.q.sending = NoEngine
  BY <1>2 DEF SameRest, SameMode
<1>5. PICK reason \in Reasons : reason = "remove"
  BY DEF Reasons
<1> DEFINE a == ResetEngine(v, id, reason)
           b == CancelEngine(v, id)
<1>6. Book(a) /\ a.q.sending = NoEngine
  BY <1>1, <1>2, <1>4, BookResets
<1>7. Book(b) /\ b.q = v.q
  BY <1>1, <1>2, BookCancel
<1>8. StopItem(w, i) = a \/ StopItem(w, i) = b
  BY <1>3, <1>5
<1> HIDE DEF a, b
<1> QED
  BY <1>4, <1>6, <1>7, <1>8

LEMMA BookRemoved ==
    ASSUME NEW w, Book(w), NEW i \in Items, ~w.item[i].active, NEW p \in Places, p # "queue"
    PROVE  LET u == RemoveItem(w, i, p) IN Book(u) /\ SameRest(w, u)
<1> DEFINE u == RemoveItem(w, i, p)
<1>1. w \in Worlds /\ ListsOK(w)
  BY DEF Book
<1>2. /\ u \in Worlds /\ SameRest(w, u)
      /\ u.item[i] = [w.item[i] EXCEPT !.where = p]
      /\ \A j \in Items \ {i} : u.item[j] = w.item[j]
      /\ \A s \in Sites, j \in Items :
           Listed(u, s, j) <=> Listed(w, s, j) /\ ~(s = SiteOf[i] /\ j = i)
  BY <1>1, RemoveViews
<1> HIDE DEF u
<1>3. u.item[i].where = p /\ u.item[i].active = w.item[i].active
  <2>1. w.item[i] \in ItemRec
    BY <1>1, ItemType
  <2> QED
    BY <1>2, <2>1, PlacedFields
<1>4. \A j \in Items : SiteOf[j] \in Sites
  BY QueueAssumption
<1>5. ListsOK(u)
  <2>1. ASSUME NEW j \in Items PROVE u.item[j].where = "queue" <=> Listed(u, SiteOf[j], j)
    <3>1. w.item[j].where = "queue" <=> Listed(w, SiteOf[j], j)
      BY <1>1 DEF ListsOK
    <3>2. Listed(u, SiteOf[j], j) <=> Listed(w, SiteOf[j], j) /\ ~(SiteOf[j] = SiteOf[i] /\ j = i)
      BY <1>2, <1>4
    <3>3. CASE j = i
      BY <1>3, <3>2, <3>3
    <3>4. CASE j # i
      BY <1>2, <3>1, <3>2, <3>4
    <3> QED
      BY <3>3, <3>4
  <2>2. ASSUME NEW s \in Sites, NEW j \in Items, Listed(u, s, j) PROVE SiteOf[j] = s
    BY <1>1, <1>2, <2>2 DEF ListsOK
  <2> QED
    BY <2>1, <2>2 DEF ListsOK
<1>6. ASSUME NEW j \in Items
      PROVE  /\ u.item[j].active = w.item[j].active
             /\ w.item[j].active => u.item[j].where = "queue"
  <2>1. CASE j = i
    BY <1>3, <2>1
  <2>2. CASE j # i
    BY <1>2, <2>2, ActiveQueued
  <2> QED
    BY <2>1, <2>2
<1>7. SameEngines(w, u) /\ SameCounts(w, u) /\ u.net = w.net
  BY <1>2 DEF SameRest
<1>8. Book(u)
  BY <1>2, <1>5, <1>6, <1>7, BookRelisted
<1> QED
  BY <1>2, <1>8 DEF u

LEMMA OnRemoveSelectedBook ==
    ASSUME BookInv, OnRemoveSelected
    PROVE  BookInv'
<1>1. Book(World) /\ World \in Worlds /\ World.q = q /\ World.item = item
  BY InvWorld
<1>2. q.sending = NoEngine
  BY HandlerQuiet DEF OnRemoveSelected, Event
<1>3. PICK i \in Items :
         Becomes(IF item[i].active THEN StopItem(ToBeRemoved(World, i), i)
                 ELSE RemoveItem(World, i, "gone"))
  BY DEF OnRemoveSelected
<1>4. CASE item[i].active
  <2> DEFINE w == ToBeRemoved(World, i)
             u == StopItem(w, i)
  <2>1. Book(w) /\ w.q = World.q /\ w.item[i].active
    BY <1>1, <1>4, BookToBeRemoved
  <2>2. Becomes(u)
    BY <1>3, <1>4
  <2> HIDE DEF w
  <2>3. Book(u) /\ u.q.sending = NoEngine
    BY <1>1, <1>2, <2>1, BookStopItem
  <2> HIDE DEF u
  <2> QED
    BY <2>2, <2>3, BookBecomes DEF SendingOK
<1>5. CASE ~item[i].active
  <2>1. PICK p \in Places : p = "gone"
    BY DEF Places
  <2> DEFINE u == RemoveItem(World, i, p)
  <2>2. Becomes(u)
    BY <1>3, <1>5, <2>1
  <2>3. Book(u) /\ SameRest(World, u)
    BY <1>1, <1>5, <2>1, BookRemoved
  <2> HIDE DEF u
  <2>4. u.q.sending = NoEngine
    BY <1>1, <1>2, <2>3 DEF SameRest, SameMode
  <2> QED
    BY <2>2, <2>3, <2>4, BookBecomes DEF SendingOK
<1> QED
  BY <1>4, <1>5

(* RemoveAll.                                                              *)
Kept(w) == {i \in Items : w.item[i].where # "queue" \/ w.item[i].active}
LeftIn(w, i) ==
    IF i \notin Kept(w) THEN [w.item[i] EXCEPT !.where = "gone"]
    ELSE IF w.item[i].active THEN [w.item[i] EXCEPT !.remove = TRUE] ELSE w.item[i]

LEMMA LeftInType ==
    ASSUME NEW w \in Worlds, NEW i \in Items
    PROVE  LET r == LeftIn(w, i)
           IN  /\ r \in ItemRec /\ r.active = w.item[i].active /\ r.sent = w.item[i].sent
               /\ r.where = IF i \notin Kept(w) THEN "gone" ELSE w.item[i].where
<1> DEFINE j == w.item[i]
<1>1. PICK p \in Places, yes \in BOOLEAN : p = "gone" /\ yes = TRUE
  BY DEF Places
<1>2. j \in ItemRec
  BY ItemType
<1>3. LeftIn(w, i) = IF i \notin Kept(w) THEN [j EXCEPT !.where = p]
                     ELSE IF j.active THEN [j EXCEPT !.remove = yes] ELSE j
  BY <1>1 DEF LeftIn
<1> HIDE DEF j
<1>4. LET r == [j EXCEPT !.where = p]
      IN  r \in ItemRec /\ r.active = j.active /\ r.sent = j.sent /\ r.where = p
  BY <1>2 DEF ItemRec
<1>5. LET r == [j EXCEPT !.remove = yes]
      IN  r \in ItemRec /\ r.active = j.active /\ r.sent = j.sent /\ r.where = j.where
  BY <1>2 DEF ItemRec
<1>6. CASE i \notin Kept(w)
  BY <1>1, <1>3, <1>4, <1>6 DEF j
<1>7. CASE i \in Kept(w) /\ j.active
  BY <1>3, <1>5, <1>7 DEF j
<1>8. CASE i \in Kept(w) /\ ~j.active
  BY <1>2, <1>3, <1>8 DEF j
<1> QED
  BY <1>6, <1>7, <1>8

LEMMA EmptiedViews ==
    ASSUME NEW w \in Worlds
    PROVE  LET u == Emptied(w)
           IN  /\ u \in Worlds /\ SameRest(w, u)
               /\ u.item = [i \in Items |-> LeftIn(w, i)]
               /\ \A s \in Sites, j \in Items : Listed(u, s, j) <=> Listed(w, s, j) /\ j \in Kept(w)
<1> DEFINE kept == Kept(w)
           now == [s \in Sites |-> Chosen(w.q.now[s], kept)]
           later == [s \in Sites |-> Chosen(w.q.later[s], kept)]
           x == [i \in Items |-> LeftIn(w, i)]
           servers == Chosen(w.q.servers, {s \in Sites : now[s] \o later[s] # <<>>})
           a == WithLists(w, now, later)
           b == [a EXCEPT !.item = x]
           u == [b EXCEPT !.q.servers = servers]
<1>1. Emptied(w) = u
  <2>1. Emptied(w) = [a EXCEPT !.item = x, !.q.servers = servers]
    BY DEF Emptied, Kept, LeftIn
  <2> HIDE DEF a, x, servers
  <2> QED
    BY <2>1
<1>2. ASSUME NEW s \in Sites
      PROVE  /\ w.q.now[s] \in Seq(Items) /\ w.q.later[s] \in Seq(Items)
             /\ now[s] = Chosen(w.q.now[s], kept) /\ later[s] = Chosen(w.q.later[s], kept)
             /\ now[s] \in Seq(Items) /\ later[s] \in Seq(Items)
             /\ \A j : Contains(now[s], j) <=> Contains(w.q.now[s], j) /\ j \in kept
             /\ \A j : Contains(later[s], j) <=> Contains(w.q.later[s], j) /\ j \in kept
  <2>1. w.q.now[s] \in Seq(Items) /\ w.q.later[s] \in Seq(Items)
    BY WorldParts
  <2>2. now[s] = Chosen(w.q.now[s], kept) /\ later[s] = Chosen(w.q.later[s], kept)
    OBVIOUS
  <2> HIDE DEF kept, now, later
  <2>3. ASSUME NEW l \in Seq(Items)
        PROVE  /\ Chosen(l, kept) \in Seq(Items)
               /\ \A j : Contains(Chosen(l, kept), j) <=> Contains(l, j) /\ j \in kept
    <3>1. Chosen(l, kept) \in Seq(Items)
      BY ChosenType
    <3>2. ASSUME NEW j PROVE Contains(Chosen(l, kept), j) <=> Contains(l, j) /\ j \in kept
      BY ChosenHas
    <3> QED
      BY <3>1, <3>2
  <2> QED
    BY <2>1, <2>2, <2>3
<1>3. now \in [Sites -> Seq(Items)] /\ later \in [Sites -> Seq(Items)]
  <2>1. \A s \in Sites : now[s] \in Seq(Items) /\ later[s] \in Seq(Items)
    BY <1>2
  <2>2. now = [s \in Sites |-> now[s]] /\ later = [s \in Sites |-> later[s]]
    OBVIOUS
  <2> HIDE DEF now, later
  <2> QED
    BY <2>1, <2>2
<1>4. servers \in Seq(Sites)
  <2>1. w.q.servers \in Seq(Sites)
    BY QueueType
  <2> HIDE DEF now, later
  <2> QED
    BY <2>1, ChosenType
<1>5. x \in [Items -> ItemRec]
  BY LeftInType
<1> HIDE DEF kept, now, later, servers, x
<1>6. /\ a \in Worlds /\ a.item = w.item /\ SameRest(w, a)
      /\ a.q.now = now /\ a.q.later = later /\ a.q.servers = w.q.servers
  BY <1>3, ListsViews
<1> HIDE DEF a
<1>7. b \in Worlds /\ b.item = x /\ b.q = a.q /\ b.tab = a.tab /\ b.net = a.net
  BY <1>5, <1>6, ItemsSet
<1> HIDE DEF b
<1>8. u \in Worlds /\ u.item = b.item /\ SameRest(b, u) /\ SameLists(b, u) /\ u.q.servers = servers
  BY <1>4, <1>7, ServersViews
<1> HIDE DEF u
<1>9. SameRest(w, u) /\ u.q.now = now /\ u.q.later = later
  BY <1>6, <1>7, <1>8 DEF SameRest, SameMode, SameEngines, SameCounts, SameLists
<1>10. ASSUME NEW s \in Sites, NEW j \in Items
       PROVE  Listed(u, s, j) <=> Listed(w, s, j) /\ j \in kept
  <2> DEFINE c == now[s]
             d == later[s]
             e == w.q.now[s]
             f == w.q.later[s]
  <2>1. /\ c \in Seq(Items) /\ d \in Seq(Items) /\ e \in Seq(Items) /\ f \in Seq(Items)
        /\ Contains(c, j) <=> Contains(e, j) /\ j \in kept
        /\ Contains(d, j) <=> Contains(f, j) /\ j \in kept
    BY <1>2
  <2>2. Children(u, s) = c \o d /\ Children(w, s) = e \o f
    BY <1>9 DEF Children
  <2> HIDE DEF c, d, e, f
  <2>3. Listed(u, s, j) <=> Contains(c, j) \/ Contains(d, j)
    BY <2>1, <2>2, ConcatHas DEF Listed
  <2>4. Listed(w, s, j) <=> Contains(e, j) \/ Contains(f, j)
    BY <2>1, <2>2, ConcatHas DEF Listed
  <2> QED
    BY <2>1, <2>3, <2>4
<1> QED
  BY <1>1, <1>7, <1>8, <1>9, <1>10 DEF x, kept

LEMMA BookEmptied ==
    ASSUME NEW w, Book(w)
    PROVE  LET u == Emptied(w)
           IN  /\ Book(u) /\ SameRest(w, u)
               /\ \A i \in Items : u.item[i].sent = w.item[i].sent
               /\ \A i \in Items : u.item[i].where = w.item[i].where \/ u.item[i].where = "gone"
<1> DEFINE u == Emptied(w)
<1>1. w \in Worlds /\ ListsOK(w)
  BY DEF Book
<1>2. /\ u \in Worlds /\ SameRest(w, u)
      /\ u.item = [i \in Items |-> LeftIn(w, i)]
      /\ \A s \in Sites, j \in Items : Listed(u, s, j) <=> Listed(w, s, j) /\ j \in Kept(w)
  BY <1>1, EmptiedViews
<1> HIDE DEF u
<1>3. ASSUME NEW i \in Items
      PROVE  /\ u.item[i].active = w.item[i].active /\ u.item[i].sent = w.item[i].sent
             /\ u.item[i].where = IF i \notin Kept(w) THEN "gone" ELSE w.item[i].where
  <2>1. u.item[i] = LeftIn(w, i)
    BY <1>2
  <2> QED
    BY <1>1, <2>1, LeftInType
<1>4. \A j \in Items : SiteOf[j] \in Sites
  BY QueueAssumption
<1>5. ListsOK(u)
  <2>1. ASSUME NEW j \in Items PROVE u.item[j].where = "queue" <=> Listed(u, SiteOf[j], j)
    <3>1. w.item[j].where = "queue" <=> Listed(w, SiteOf[j], j)
      BY <1>1 DEF ListsOK
    <3>2. Listed(u, SiteOf[j], j) <=> Listed(w, SiteOf[j], j) /\ j \in Kept(w)
      BY <1>2, <1>4
    <3> QED
      BY <1>3, <3>1, <3>2
  <2>2. ASSUME NEW s \in Sites, NEW j \in Items, Listed(u, s, j) PROVE SiteOf[j] = s
    BY <1>1, <1>2, <2>2 DEF ListsOK
  <2> QED
    BY <2>1, <2>2 DEF ListsOK
<1>6. ASSUME NEW j \in Items
      PROVE  /\ u.item[j].active = w.item[j].active
             /\ w.item[j].active => u.item[j].where = "queue"
  <2>1. w.item[j].active => j \in Kept(w) /\ w.item[j].where = "queue"
    BY ActiveQueued DEF Kept
  <2> QED
    BY <1>3, <2>1
<1>7. SameEngines(w, u) /\ SameCounts(w, u) /\ u.net = w.net
  BY <1>2 DEF SameRest
<1>8. Book(u)
  BY <1>2, <1>5, <1>6, <1>7, BookRelisted
<1> QED
  BY <1>2, <1>3, <1>8 DEF u

LEMMA RemoveAllBook ==
    ASSUME BookInv, RemoveAll
    PROVE  BookInv'
<1>1. Book(World) /\ World.q = q
  BY InvWorld
<1>2. q.sending = NoEngine /\ Becomes(CheckQueueState(Emptied(World)))
  BY HandlerQuiet DEF RemoveAll, Event
<1> DEFINE w == Emptied(World)
           u == CheckQueueState(w)
<1>3. Book(w) /\ SameRest(World, w)
  BY <1>1, BookEmptied
<1> HIDE DEF w
<1>4. Settled(w, u)
  BY <1>3, CheckViews
<1>5. Book(u) /\ u.q.sending = NoEngine
  BY <1>1, <1>2, <1>3, <1>4 DEF Settled, SameRest, SameMode
<1> QED
  BY <1>2, <1>5, BookBecomes DEF SendingOK, w

(* The engines' steps.                                                     *)
LEMMA ChangeBook ==
    ASSUME BookInv, NEW id \in Engines, NEW n \in NetRec, Change(id, n),
           n.cmd \in {"transfer", "mkdir"} \/ (n.cmd = "connect" /\ id # TabEngine) => n.to \in Items,
           UNCHANGED <<q, item, tab>>
    PROVE  BookInv'
<1>1. Book(World) /\ SendingOK(World) /\ World \in Worlds /\ World.q = q /\ World.item = item
      /\ World.tab = tab /\ World.net = net
  BY InvWorld
<1> DEFINE u == WithNet(World, id, n)
<1>2. /\ Book(u) /\ u.q = World.q /\ u.item = World.item /\ u.tab = World.tab
      /\ u.net = [World.net EXCEPT ![id] = n]
  BY <1>1, BookNet
<1> HIDE DEF u
<1>3. q' = u.q /\ item' = u.item /\ tab' = u.tab /\ net' = u.net
  BY <1>1, <1>2 DEF Change
<1>4. Becomes(u)
  BY <1>3 DEF Becomes
<1>5. SendingOK(u)
  BY <1>1, <1>2 DEF SendingOK
<1> QED
  BY <1>2, <1>4, <1>5, BookBecomes

(* What an engine is in the middle of.                                     *)
LEMMA NetOf ==
    ASSUME BookInv, NEW id \in Engines
    PROVE  LET n == net[id]
           IN  /\ n \in NetRec /\ n.cmd \in Commands /\ n.to \in Aims /\ n.server \in Servers
               /\ n.cancel \in BOOLEAN /\ n.late \in BOOLEAN /\ n.inbox \in Seq(Replies)
               /\ n.cmd \in {"transfer", "mkdir"} \/ (n.cmd = "connect" /\ id # TabEngine)
                      => n.to \in Items
<1>1. Book(World) /\ World \in Worlds /\ World.net = net
  BY InvWorld
<1>2. ToOK(World)
  BY <1>1 DEF Book
<1> QED
  BY <1>1, <1>2, NetType DEF ToOK

LEMMA EndedType ==
    ASSUME NEW n \in NetRec, NEW code \in Codes, NEW progress \in BOOLEAN
    PROVE  LET m == Ended(n, code, progress)
           IN  /\ m \in NetRec /\ m.cmd = "none" /\ m.cancel = n.cancel /\ m.late = n.late
               /\ m.inbox = Reply(n, code, progress)
               /\ m.server = IF n.cmd = "disconnect" THEN NoSite ELSE n.server
               /\ \A s \in Servers : [m EXCEPT !.server = s] \in NetRec
                                     /\ [m EXCEPT !.server = s].cmd = "none"
<1> DEFINE r == [cmd |-> n.cmd, to |-> n.to, code |-> code, progress |-> progress]
           inbox == Append(n.inbox, r)
           server == IF n.cmd = "disconnect" THEN NoSite ELSE n.server
<1>1. /\ n.cmd \in Commands /\ n.to \in Aims /\ n.server \in Servers
      /\ n.cancel \in BOOLEAN /\ n.late \in BOOLEAN /\ n.inbox \in Seq(Replies)
  BY DEF NetRec
<1>2. r \in Replies
  BY <1>1 DEF Replies
<1>3. inbox \in Seq(Replies)
  <2> HIDE DEF r
  <2> QED
    BY <1>1, <1>2
<1>4. server \in Servers
  BY <1>1 DEF Servers
<1>5. PICK none \in Commands, to \in Aims : none = "none" /\ to = NoItem
  BY DEF Commands, Aims, Files
<1>6. Ended(n, code, progress) = [n EXCEPT !.cmd = none, !.to = to, !.inbox = inbox, !.server = server]
  BY <1>5 DEF Ended, Reply
<1>7. inbox = Reply(n, code, progress)
  BY DEF Reply
<1> HIDE DEF inbox, server
<1> DEFINE m == [n EXCEPT !.cmd = none, !.to = to, !.inbox = inbox, !.server = server]
<1>8. m \in NetRec /\ m.cmd = none /\ m.cancel = n.cancel /\ m.late = n.late
      /\ m.inbox = inbox /\ m.server = server
  BY <1>1, <1>3, <1>4, <1>5 DEF NetRec
<1> HIDE DEF m
<1>9. ASSUME NEW s \in Servers
      PROVE  [m EXCEPT !.server = s] \in NetRec /\ [m EXCEPT !.server = s].cmd = m.cmd
  BY <1>8 DEF NetRec
<1>10. Ended(n, code, progress) = m
  BY <1>6 DEF m
<1> QED
  BY <1>5, <1>7, <1>8, <1>9, <1>10 DEF server

LEMMA EngineBeginsBook ==
    ASSUME BookInv, NEW id \in Engines, EngineBegins(id)
    PROVE  BookInv'
<1>1. World \in Worlds /\ World.tab = tab
  BY InvWorld
<1>2. net[id].cmd = "connect" /\ Change(id, [net[id] EXCEPT !.server = Target(id)])
      /\ UNCHANGED <<q, item, tab>>
  BY DEF EngineBegins
<1>3. net[id] \in NetRec /\ (id # TabEngine => net[id].to \in Items)
  BY <1>2, NetOf
<1>4. Target(id) \in Servers
  BY <1>1, <1>3, TabType, QueueAssumption DEF Target, Servers
<1> DEFINE s == Target(id)
           n == [net[id] EXCEPT !.server = s]
<1> HIDE DEF s
<1>5. n \in NetRec /\ n.cmd = net[id].cmd /\ n.to = net[id].to
  BY <1>3, <1>4 DEF NetRec, s
<1>6. Change(id, n)
  BY <1>2 DEF s
<1> HIDE DEF n
<1> QED
  BY <1>2, <1>3, <1>5, <1>6, ChangeBook

LEMMA EngineFailsBook ==
    ASSUME BookInv, NEW id \in Engines, EngineFails(id)
    PROVE  BookInv'
<1>1. UNCHANGED <<q, item, tab>>
  BY DEF EngineFails
<1>2. PICK code \in Failures(net[id].cmd), progress \in BOOLEAN :
         Change(id, Ended(net[id], code, progress))
  BY DEF EngineFails
<1>3. net[id] \in NetRec
  BY NetOf
<1>4. code \in Codes
  BY DEF Failures, Codes
<1> DEFINE n == Ended(net[id], code, progress)
<1>5. n \in NetRec /\ n.cmd = "none"
  BY <1>3, <1>4, EndedType
<1>6. Change(id, n)
  BY <1>2
<1> HIDE DEF n
<1> QED
  BY <1>1, <1>5, <1>6, ChangeBook

LEMMA CancelFlag ==
    ASSUME NEW n \in NetRec
    PROVE  /\ LET m == [n EXCEPT !.cancel = FALSE]
              IN  m \in NetRec /\ m.cmd = n.cmd /\ m.to = n.to /\ m.server = n.server
                  /\ m.late = n.late /\ m.inbox = n.inbox /\ ~m.cancel
           /\ LET m == [n EXCEPT !.late = FALSE]
              IN  m \in NetRec /\ m.cmd = n.cmd /\ m.to = n.to /\ m.server = n.server
                  /\ m.cancel = n.cancel /\ m.inbox = n.inbox /\ ~m.late
<1>1. PICK no \in BOOLEAN : no = FALSE
  OBVIOUS
<1>2. LET m == [n EXCEPT !.cancel = no]
      IN  m \in NetRec /\ m.cmd = n.cmd /\ m.to = n.to /\ m.server = n.server
          /\ m.late = n.late /\ m.inbox = n.inbox /\ m.cancel = no
  BY DEF NetRec
<1>3. LET m == [n EXCEPT !.late = no]
      IN  m \in NetRec /\ m.cmd = n.cmd /\ m.to = n.to /\ m.server = n.server
          /\ m.cancel = n.cancel /\ m.inbox = n.inbox /\ m.late = no
  BY DEF NetRec
<1> QED
  BY <1>1, <1>2, <1>3

LEMMA EngineCancelsBook ==
    ASSUME BookInv, NEW id \in Engines, EngineCancels(id)
    PROVE  BookInv'
<1> DEFINE n == [net[id] EXCEPT !.cancel = FALSE]
<1>1. UNCHANGED <<q, item, tab>>
  BY DEF EngineCancels
<1>2. net[id] \in NetRec
  BY NetOf
<1>3. \/ n.cmd = "none" /\ Change(id, n)
      \/ \E server \in {n.server, NoSite} : Change(id, [Ended(n, "canceled", FALSE) EXCEPT !.server = server])
  BY DEF EngineCancels
<1>4. n \in NetRec
  BY <1>2, CancelFlag
<1> HIDE DEF n
<1>5. CASE n.cmd = "none" /\ Change(id, n)
  BY <1>1, <1>4, <1>5, ChangeBook
<1>6. CASE \E server \in {n.server, NoSite} : Change(id, [Ended(n, "canceled", FALSE) EXCEPT !.server = server])
  <2>1. PICK server \in {n.server, NoSite} : Change(id, [Ended(n, "canceled", FALSE) EXCEPT !.server = server])
    BY <1>6
  <2>2. server \in Servers
    BY <1>4 DEF NetRec, Servers
  <2>3. PICK code \in Codes, no \in BOOLEAN : code = "canceled" /\ no = FALSE
    BY DEF Codes
  <2> DEFINE m == [Ended(n, code, no) EXCEPT !.server = server]
  <2>4. m \in NetRec /\ m.cmd = "none"
    BY <1>4, <2>2, EndedType
  <2>5. Change(id, m)
    BY <2>1, <2>3
  <2> HIDE DEF m
  <2> QED
    BY <1>1, <2>4, <2>5, ChangeBook
<1> QED
  BY <1>3, <1>5, <1>6

LEMMA EngineCancelsLateBook ==
    ASSUME BookInv, NEW id \in Engines, EngineCancelsLate(id)
    PROVE  BookInv'
<1> DEFINE n == [net[id] EXCEPT !.late = FALSE]
<1>1. UNCHANGED <<q, item, tab>>
  BY DEF EngineCancelsLate
<1>2. net[id] \in NetRec
  BY NetOf
<1>3. Change(id, n) \/ Change(id, Ended(n, "canceled", FALSE))
  BY DEF EngineCancelsLate
<1>4. n \in NetRec /\ n.cmd = net[id].cmd /\ n.to = net[id].to
  BY <1>2, CancelFlag
<1> HIDE DEF n
<1>5. CASE Change(id, n)
  BY <1>1, <1>4, <1>5, NetOf, ChangeBook
<1>6. CASE Change(id, Ended(n, "canceled", FALSE))
  <2>1. PICK code \in Codes, no \in BOOLEAN : code = "canceled" /\ no = FALSE
    BY DEF Codes
  <2> DEFINE m == Ended(n, code, no)
  <2>2. m \in NetRec /\ m.cmd = "none"
    BY <1>4, EndedType
  <2>3. Change(id, m)
    BY <1>6, <2>1
  <2> HIDE DEF m
  <2> QED
    BY <1>1, <2>2, <2>3, ChangeBook
<1> QED
  BY <1>3, <1>5, <1>6

(* A command that succeeds transfers its file.                             *)
Sent(w, i) == [w EXCEPT !.item[i].sent = @ + 1]

LEMMA BookTransferred ==
    ASSUME NEW w, Book(w), NEW i \in Items
    PROVE  LET u == Sent(w, i)
           IN  /\ Book(u) /\ u.q = w.q /\ u.tab = w.tab /\ u.net = w.net
               /\ u.item = [w.item EXCEPT ![i].sent = w.item[i].sent + 1]
<1> DEFINE n == w.item[i].sent + 1
           r == [w.item[i] EXCEPT !.sent = n]
           x == [w.item EXCEPT ![i] = r]
           u == [w EXCEPT !.item = x]
<1>1. w \in Worlds /\ ToOK(w) /\ w.item \in [Items -> ItemRec] /\ w.item[i] \in ItemRec
  <2>1. w \in Worlds /\ ToOK(w)
    BY DEF Book
  <2> QED
    BY <2>1, WorldParts, ItemType
<1>2. n \in Nat
  BY <1>1 DEF ItemRec
<1>3. r \in ItemRec /\ r.active = w.item[i].active /\ r.where = w.item[i].where
  <2> HIDE DEF n
  <2> QED
    BY <1>1, <1>2 DEF ItemRec
<1>4. x = [w.item EXCEPT ![i].sent = n]
  OBVIOUS
<1>5. Sent(w, i) = u
  BY <1>1 DEF Sent, Worlds
<1> HIDE DEF r
<1>6. x \in [Items -> ItemRec]
      /\ \A j \in Items : x[j].active = w.item[j].active /\ x[j].where = w.item[j].where
  BY <1>1, <1>3
<1> HIDE DEF x
<1>7. u \in Worlds /\ u.item = x /\ u.q = w.q /\ u.tab = w.tab /\ u.net = w.net
  BY <1>1, <1>6, ItemsSet
<1> HIDE DEF u
<1>8. SameEngines(w, u) /\ SameCounts(w, u) /\ SameLists(w, u) /\ ToOK(u)
  BY <1>1, <1>7 DEF SameEngines, SameCounts, SameLists, ToOK
<1>9. Book(u)
  BY <1>1, <1>6, <1>7, <1>8, BookFrame
<1> QED
  BY <1>4, <1>5, <1>7, <1>9

LEMMA EngineSucceedsBook ==
    ASSUME BookInv, NEW id \in Engines, EngineSucceeds(id)
    PROVE  BookInv'
<1> DEFINE n == net[id]
           m == Ended(n, "ok", FALSE)
<1>1. Book(World) /\ SendingOK(World) /\ World \in Worlds /\ World.q = q /\ World.item = item
      /\ World.tab = tab /\ World.net = net
  BY InvWorld
<1>2. /\ Change(id, m) /\ UNCHANGED <<q, tab>>
      /\ item' = IF n.cmd \in {"transfer", "mkdir"} THEN [item EXCEPT ![n.to].sent = @ + 1] ELSE item
  BY DEF EngineSucceeds
<1>3. n \in NetRec /\ (n.cmd \in {"transfer", "mkdir"} => n.to \in Items)
  BY NetOf
<1>4. PICK code \in Codes, no \in BOOLEAN : code = "ok" /\ no = FALSE
  BY DEF Codes
<1>5. m \in NetRec /\ m.cmd = "none"
  <2>1. m = Ended(n, code, no)
    BY <1>4
  <2> HIDE DEF n, m
  <2> QED
    BY <1>3, <2>1, EndedType
<1> HIDE DEF m
<1>6. CASE n.cmd \notin {"transfer", "mkdir"}
  BY <1>2, <1>5, <1>6, ChangeBook
<1>7. CASE n.cmd \in {"transfer", "mkdir"}
  <2> DEFINE i == n.to
             w == Sent(World, i)
             u == WithNet(w, id, m)
  <2>1. i \in Items
    BY <1>3, <1>7
  <2> HIDE DEF n
  <2>2. /\ Book(w) /\ w.q = q /\ w.tab = tab /\ w.net = net
        /\ w.item = [item EXCEPT ![i].sent = item[i].sent + 1]
    BY <1>1, <2>1, BookTransferred
  <2> HIDE DEF w
  <2>3. /\ Book(u) /\ u.q = w.q /\ u.item = w.item /\ u.tab = w.tab
        /\ u.net = [w.net EXCEPT ![id] = m]
    BY <1>5, <2>2, BookNet
  <2> HIDE DEF u
  <2>4. item' = [item EXCEPT ![i].sent = item[i].sent + 1]
    BY <1>2, <1>7
  <2>5. q' = u.q /\ item' = u.item /\ tab' = u.tab /\ net' = u.net
    BY <1>2, <2>2, <2>3, <2>4 DEF Change
  <2>6. Becomes(u)
    BY <2>5 DEF Becomes
  <2>7. SendingOK(u)
    BY <1>1, <2>2, <2>3 DEF SendingOK
  <2> QED
    BY <2>3, <2>6, <2>7, BookBecomes
<1> QED
  BY <1>6, <1>7

LEMMA NextBook ==
    ASSUME BookInv, [Next]_vars
    PROVE  BookInv'
<1>1. ASSUME NEW id \in Engines, EngineSteps(id) PROVE BookInv'
  BY <1>1, EngineBeginsBook, EngineSucceedsBook, EngineFailsBook, EngineCancelsBook,
     EngineCancelsLateBook DEF EngineSteps
<1>2. ASSUME Interface PROVE BookInv'
  BY <1>2, SendNextCommandBook, StartNextTransferBook, FinishBook,
     OnExclusiveEngineRequestGrantedBook, OnEngineEventBook DEF Interface
<1>3. ASSUME UNCHANGED vars PROVE BookInv'
  BY <1>3 DEF vars, BookInv, World
<1> QED
  BY <1>1, <1>2, <1>3, QueueFileBook, SetActiveBook, StopBook, OnRemoveSelectedBook,
     RemoveAllBook, OnTimerBook, TabCommandBook DEF Next

(* Init.                                                                   *)
LEMMA ServersLoadedType == ServersLoaded \in Seq(Sites)
<1> DEFINE Step(x, k) == IF Contains(x, SiteOf[Loaded[k]]) THEN x ELSE Append(x, SiteOf[Loaded[k]])
<1>0. PICK n, W, base : n = Len(Loaded) /\ W = Seq(Sites) /\ base = <<>>
  OBVIOUS
<1> DEFINE Eq(f) == f = [k \in 0 .. n |-> IF k = 0 THEN base ELSE Step(f[k - 1], k)]
<1>1. n \in Nat /\ base \in W
  BY <1>0, QueueAssumption
<1>2. \A x \in W, k \in 1 .. n : Step(x, k) \in W
  BY <1>0, QueueAssumption
<1>3. ServersLoaded = (CHOOSE x : Eq(x))[n]
  BY <1>0 DEF ServersLoaded
<1> HIDE DEF Step
<1>4. PICK F : F = [x \in W |-> [k \in 1 .. n |-> Step(x, k)]]
  OBVIOUS
<1>5. PICK f \in [0 .. n -> W] : f[0] = base /\ \A k \in 1 .. n : f[k] = F[f[k - 1]][k]
  <2>1. F \in [W -> [1 .. n -> W]]
    BY <1>2, <1>4
  <2>2. PICK f \in [0 .. n -> W] : IsLoop(f, n, base, F)
    BY <1>1, <2>1, LoopExists
  <2> QED
    BY <2>2 DEF IsLoop
<1>6. ASSUME NEW k \in 1 .. n PROVE f[k] = Step(f[k - 1], k)
  <2>1. f[k - 1] \in W
    BY <1>1, <1>5
  <2> QED
    BY <1>4, <1>5, <2>1
<1>7. Eq(f)
  <2>1. \A k \in 0 .. n : f[k] = IF k = 0 THEN base ELSE Step(f[k - 1], k)
    BY <1>1, <1>5, <1>6
  <2> QED
    BY <1>5, <2>1
<1>8. ASSUME NEW x, Eq(x) PROVE x = f
  <2>1. x[0] = base /\ x = [k \in 0 .. n |-> x[k]] /\ f = [k \in 0 .. n |-> f[k]]
    BY <1>8, <1>1, <1>5
  <2>2. \A k \in 1 .. n : x[k] = Step(x[k - 1], k)
    BY <1>8, <1>1
  <2>3. Agree(x, f, n)
    BY <2>2, <1>6 DEF Agree
  <2> HIDE DEF Eq
  <2> QED
    BY <2>1, <2>3, <1>1, <1>5, LoopUnique
<1>9. (CHOOSE x : Eq(x)) = f
  <2> HIDE DEF Eq
  <2> QED
    BY <1>7, <1>8
<1> HIDE DEF Eq
<1>10. ServersLoaded = f[n]
  BY <1>3, <1>9
<1>11. f[n] \in W
  BY <1>1, <1>5
<1> QED
  BY <1>0, <1>10, <1>11

LEMMA InitWorld ==
    ASSUME Init
    PROVE  World \in Worlds
<1>1. q \in QueueRec
  <2> DEFINE now == [s \in Sites |-> <<>>]
             later == [s \in Sites |-> Chosen(Loaded, {i \in Items : SiteOf[i] = s})]
             busy == [s \in Sites |-> 0]
             data == [id \in Engines |-> NewData("none")]
             mode == 0
             sending == NoEngine
             engines == <<>>
  <2>1. now \in [Sites -> Seq(Items)]
    OBVIOUS
  <2>2. later \in [Sites -> Seq(Items)]
    BY ChosenType, QueueAssumption
  <2>3. busy \in [Sites -> Int]
    OBVIOUS
  <2>4. data \in [Engines -> DataRec]
    <3>1. PICK st \in States : st = "none"
      BY DEF States
    <3>2. NewData(st) \in DataRec
      BY NewDataType
    <3> QED
      BY <3>1, <3>2
  <2>5. mode \in 0 .. 2 /\ engines \in Seq(Engines) /\ sending \in Engines \cup {NoEngine}
    OBVIOUS
  <2>6. ServersLoaded \in Seq(Sites)
    BY ServersLoadedType
  <2>7. q = [mode |-> mode, now |-> now, later |-> later, servers |-> ServersLoaded, busy |-> busy,
             count |-> 0, down |-> 0, up |-> 0, inside |-> FALSE, sending |-> sending,
             engines |-> engines, data |-> data, refreshed |-> FALSE, refused |-> FALSE]
    BY DEF Init
  <2> HIDE DEF now, later, busy, data, mode, sending, engines
  <2> QED
    BY <2>1, <2>2, <2>3, <2>4, <2>5, <2>6, <2>7 DEF QueueRec
<1>2. item \in [Items -> ItemRec]
  BY DEF Init, ItemRec, Places
<1>3. PICK s \in TabSites :
         /\ tab = [site |-> s, cmd |-> "none", lock |-> FALSE, wants |-> FALSE, id |-> 0,
                   grants |-> <<>>, listing |-> s # NoSite]
         /\ net = [id \in Engines |->
                     [cmd |-> "none", to |-> NoItem,
                      server |-> IF id = TabEngine THEN s ELSE NoSite,
                      cancel |-> FALSE, late |-> FALSE, inbox |-> <<>>]]
  BY DEF Init
<1>4. s \in Servers
  BY QueueAssumption DEF Servers
<1>5. tab \in TabRec
  BY <1>3, <1>4 DEF TabRec
<1>6. net \in [Engines -> NetRec]
  <2>1. NoSite \in Servers /\ "none" \in Commands /\ NoItem \in Aims
    BY DEF Servers, Commands, Aims, Files
  <2>2. ASSUME NEW y \in Servers
        PROVE  [cmd |-> "none", to |-> NoItem, server |-> y, cancel |-> FALSE, late |-> FALSE,
                inbox |-> <<>>] \in NetRec
    BY <2>1 DEF NetRec
  <2> QED
    BY <1>3, <1>4, <2>1, <2>2
<1> QED
  BY <1>1, <1>2, <1>5, <1>6 DEF World, Worlds

LEMMA InitBook ==
    ASSUME Init
    PROVE  BookInv
<1> DEFINE w == World
<1>1. w \in Worlds
  BY InitWorld
<1>2. /\ w.q = q /\ w.item = item /\ w.net = net
      /\ q.engines = <<>> /\ q.data = [id \in Engines |-> NewData("none")]
      /\ q.sending = NoEngine /\ q.count = 0 /\ q.down = 0 /\ q.up = 0
      /\ q.busy = [s \in Sites |-> 0] /\ q.now = [s \in Sites |-> <<>>]
      /\ q.later = [s \in Sites |-> Chosen(Loaded, {i \in Items : SiteOf[i] = s})]
  BY DEF Init, World
<1>3. \A id \in Engines : net[id].cmd = "none"
  BY DEF Init
<1>4. \A i \in Items : /\ item[i].where = IF Contains(Loaded, i) THEN "queue" ELSE "out"
                       /\ ~item[i].active
  BY DEF Init
<1> HIDE DEF w
<1>5. \A id : ~HasData(w, id)
  BY <1>2 DEF HasData, Contains
<1>6. \A id \in Engines : /\ w.q.data[id] = NewData("none") /\ ~w.q.data[id].active
                          /\ w.q.data[id].item = NoItem
  BY <1>2 DEF NewData
<1>7. ListOK(w)
  BY <1>2 DEF ListOK, Distinct, NumOwn, HasData, Contains, Own, Engines, TabEngine
<1>8. DataOK(w)
  <2>1. ASSUME NEW id \in Engines PROVE GoodData(id, NewData("none"))
    <3> DEFINE d == NewData("none")
    <3>1. ~d.active /\ d.item = NoItem /\ d.state = "none" /\ d.site = NoSite /\ ~d.timer
      BY DEF NewData
    <3> HIDE DEF d
    <3>2. GoodData(id, d)
      BY <3>1 DEF GoodData
    <3> QED
      BY <3>2 DEF d
  <2> QED
    BY <1>6, <2>1 DEF DataOK
<1>9. ItemsOK(w)
  BY <1>2, <1>4, <1>6 DEF ItemsOK
<1>10. ListsOK(w)
  <2>1. ASSUME NEW s \in Sites, NEW i \in Items
        PROVE  Listed(w, s, i) <=> Contains(Loaded, i) /\ SiteOf[i] = s
    <3> DEFINE S == {j \in Items : SiteOf[j] = s}
    <3>1. Chosen(Loaded, S) \in Seq(Items)
      BY ChosenType, QueueAssumption
    <3>2. Children(w, s) = <<>> \o Chosen(Loaded, S)
      BY <1>2 DEF Children
    <3>3. Contains(Chosen(Loaded, S), i) <=> Contains(Loaded, i) /\ i \in S
      <4> HIDE DEF S
      <4> QED
        BY ChosenHas, QueueAssumption
    <3>4. <<>> \o Chosen(Loaded, S) = Chosen(Loaded, S)
      BY <3>1
    <3> QED
      BY <3>2, <3>3, <3>4 DEF Listed
  <2> QED
    BY <1>2, <1>4, <2>1, QueueAssumption DEF ListsOK
<1>11. CountsOK(w)
  <2>1. Busy(w.q.data) = {}
    BY <1>6 DEF Busy
  <2>2. ASSUME NEW I \in SUBSET Items PROVE Having(w.q.data, I) = {}
    BY <1>6, QueueAssumption DEF Having
  <2>3. Downloads \in SUBSET Items /\ Uploads \in SUBSET Items
        /\ \A s \in Sites : FilesOf(s) \in SUBSET Items
    BY DEF Downloads, Uploads, FilesOf
  <2>4. Cardinality({}) = 0
    BY FS_EmptySet
  <2> QED
    BY <1>2, <2>1, <2>2, <2>3, <2>4 DEF CountsOK
<1>12. ToOK(w)
  BY <1>2, <1>3 DEF ToOK
<1> QED
  BY <1>1, <1>2, <1>7, <1>8, <1>9, <1>10, <1>11, <1>12 DEF BookInv, Book, SendingOK, w
-----------------------------------------------------------------------------
(* The books of the queue are kept by every step.                          *)
THEOREM BooksKept == Spec => []BookInv
<1>1. Init => BookInv
  BY InitBook
<1>2. BookInv /\ [Next]_vars => BookInv'
  BY NextBook
<1> QED
  BY <1>1, <1>2, PTL DEF Spec

LEMMA BookCounts ==
    ASSUME BookInv
    PROVE  CountsMatch
<1> DEFINE w == World
<1>1. Book(w) /\ w.q = q /\ w.item = item
  BY InvWorld
<1>2. DataOK(w) /\ ItemsOK(w) /\ ListsOK(w) /\ CountsOK(w) /\ w \in Worlds
  BY <1>1 DEF Book
<1>3. Active = Busy(w.q.data)
  BY <1>1 DEF Active, Busy
<1>4. ASSUME NEW I \in SUBSET Items PROVE Holding(I) = Having(w.q.data, I)
  <2>1. ASSUME NEW id \in Engines, q.data[id].item \in I PROVE q.data[id].active
    BY <1>1, <1>2, <2>1, QueueAssumption DEF DataOK, GoodData
  <2> QED
    BY <1>1, <2>1 DEF Holding, Having, Active
<1>5. Downloads \in SUBSET Items /\ Uploads \in SUBSET Items
      /\ \A s \in Sites : FilesOf(s) \in SUBSET Items
  BY DEF Downloads, Uploads, FilesOf
<1>6. /\ q.count = Cardinality(Active)
      /\ q.down = Cardinality(Holding(Downloads))
      /\ q.up = Cardinality(Holding(Uploads))
      /\ \A s \in Sites : q.busy[s] = Cardinality(Holding(FilesOf(s)))
  BY <1>1, <1>2, <1>3, <1>4, <1>5 DEF CountsOK
<1>7. ASSUME NEW i \in Items
      PROVE  item[i].active <=> \E id \in Active : q.data[id].item = i
  <2>1. i # NoItem
    BY QueueAssumption
  <2>2. ASSUME item[i].active PROVE \E id \in Active : q.data[id].item = i
    <3>1. PICK id \in Engines : w.q.data[id].item = i
      BY <1>1, <1>2, <2>2 DEF ItemsOK
    <3>2. q.data[id].active
      BY <1>1, <1>2, <2>1, <3>1 DEF DataOK, GoodData
    <3> QED
      BY <1>1, <3>1, <3>2 DEF Active
  <2>3. ASSUME NEW id \in Active, q.data[id].item = i PROVE item[i].active
    BY <1>1, <1>2, <2>1, <2>3 DEF ItemsOK, Active
  <2> QED
    BY <2>2, <2>3
<1>8. ASSUME NEW i \in Items
      PROVE  item[i].where = "queue" <=> Contains(Children(World, SiteOf[i]), i)
  BY <1>1, <1>2 DEF ListsOK, Listed
<1> QED
  BY <1>6, <1>7, <1>8 DEF CountsMatch, Downloads, Uploads, FilesOf

(* The counts that limit the transfers agree with the engines, the files   *)
(* and the lists, whatever the user does and however transfers end:        *)
(* SetActive, ResetEngine and RemoveItem keep them in step.                *)
THEOREM CountsStayRight == Spec => []CountsMatch
<1>1. BookInv => CountsMatch
  BY BookCounts
<1> QED
  BY <1>1, BooksKept, PTL
=============================================================================
