---------------------- MODULE TransferQueueCalmProofs ----------------------
(***************************************************************************)
(* Proofs about TransferQueue: while nothing disturbs the queue, an engine *)
(* has the one command its record says, is connected to the server of its  *)
(* file and is never given a second command.                               *)
(*                                                                         *)
(* Calm relates the record of every engine to the engine itself: what is   *)
(* due from it, which server it is connected to, and who has the engine of *)
(* the tab.  One engine may be held, between the commands it is sent.      *)
(* Peace adds what Book does not say of the moment: engines that are not   *)
(* active are clean inside a handler (Still), and the engine of the tab is *)
(* in the list outside of AdvanceQueue only while it is used (Tidy).  With *)
(* BookInv it is the inductive invariant while the behaviour is            *)
(* Undisturbed, that is, has neither "withdraw" nor "race".                *)
(*                                                                         *)
(* Once rests on Calm: what was sent of a file agrees with its record and  *)
(* with the reply of its engine, hence it is sent once.  Halt also rests   *)
(* on Calm: of the engines of a stopped queue only those in X are active   *)
(* and have neither been told to stop nor answered; it is shown for every  *)
(* set X that contains those before the step and the one the walk skips.   *)
(* Room rests on Calm as well: the engines that have a connection to a     *)
(* site, or a file for which they may connect, are within its limit.       *)
(***************************************************************************)
EXTENDS TransferQueueProofs

-----------------------------------------------------------------------------
(* Without "race" and "withdraw" an engine does one thing at a time: it is *)
(* clean, or its one command or its one reply is the one that is due.      *)
Clean(n) == n.cmd = "none" /\ n.inbox = <<>>
Due(n, cmd, to) ==
    \/ n.inbox = <<>> /\ n.cmd = cmd /\ n.to = to
    \/ /\ n.cmd = "none" /\ Len(n.inbox) = 1
       /\ n.inbox[1].cmd = cmd /\ n.inbox[1].to = to

(* An engine of the queue, of which has tells whether it is in the list    *)
(* and held whether it is about to be sent a command.                      *)
EngineCalm(d, n, has, held) ==
    /\ d.active => IF held THEN Clean(n) ELSE Due(n, d.state, d.item)
    /\ ~d.active => Clean(n) \/ Due(n, "disconnect", NoItem)
    /\ n.late => n.cmd # "none"
    /\ n.cmd \in {"transfer", "mkdir", "list"} => n.server # NoSite
    /\ d.state = "disconnect" /\ ~held /\ n.cmd = "none" => n.server = NoSite
    /\ d.state # "disconnect" => n.server \in {NoSite, d.site}
    /\ ~has => n.server = NoSite /\ Clean(n)

(* The engine of the tab.                                                  *)
Borrowed(d) == d.active /\ d.state # "waitprimary"
TabCalm(d, n, t, has, held) ==
    /\ Borrowed(d) => t.lock /\ IF held THEN Clean(n) ELSE Due(n, d.state, d.item)
    /\ ~Borrowed(d) => IF t.cmd = "none" THEN Clean(n) ELSE \E to \in Aims : Due(n, t.cmd, to)
    /\ t.lock => t.wants /\ t.cmd = "none"
    /\ t.wants => t.lock \/ t.cmd # "none"
    /\ d.active /\ ~held => t.wants
    /\ d.active => d.site = t.site
    /\ has /\ d.state # "waitprimary" => t.lock /\ d.site = t.site
    /\ t.cmd = "disconnect" => t.site = NoSite
    /\ n.late => n.cmd # "none"
    /\ n.cmd \in {"transfer", "mkdir", "list"} => n.server # NoSite
    /\ t.cmd # "disconnect" => n.server \in {NoSite, t.site}
    /\ t.cmd = "disconnect" /\ n.cmd = "none" => n.server = NoSite

OwnCalm(w, h) ==
    \A e \in Own : EngineCalm(w.q.data[e], w.net[e], HasData(w, e), e = h)
LentCalm(w, h) ==
    TabCalm(w.q.data[TabEngine], w.net[TabEngine], w.tab, HasData(w, TabEngine), TabEngine = h)
Calm(w, h) == OwnCalm(w, h) /\ LentCalm(w, h) /\ ~w.q.refused

(* Engines that are not active are clean.                                  *)
Still(w) == \A e \in Own : ~w.q.data[e].active => Clean(w.net[e])

LEMMA OwnIn ==
    /\ TabEngine \in Engines /\ TabEngine \notin Own /\ Own \subseteq Engines
    /\ \A e \in Engines : e \in Own \/ e = TabEngine
    /\ NoEngine \notin Own /\ NoEngine # TabEngine /\ NoEngine \notin Engines
BY QueueAssumption DEF Own, Engines, TabEngine, NoEngine

LEMMA EngineAlike ==
    ASSUME NEW d, NEW e, Alike(d, e), NEW n \in NetRec, NEW m, Cancelled(n, m),
           NEW has, NEW held, EngineCalm(d, n, has, held)
    PROVE  EngineCalm(e, m, has, held)
<1>1. /\ m.cmd = n.cmd /\ m.to = n.to /\ m.inbox = n.inbox /\ m.late = n.late
      /\ m.server = n.server
  BY DEF Cancelled, NetRec
<1>2. Clean(m) <=> Clean(n)
  BY <1>1 DEF Clean
<1>3. \A cmd, to : Due(m, cmd, to) <=> Due(n, cmd, to)
  BY <1>1 DEF Due
<1> QED
  BY <1>1, <1>2, <1>3 DEF EngineCalm, Alike

LEMMA TabAlike ==
    ASSUME NEW d, NEW e, Alike(d, e), NEW n \in NetRec, NEW m, Cancelled(n, m),
           NEW t, NEW has, NEW held, TabCalm(d, n, t, has, held)
    PROVE  TabCalm(e, m, t, has, held)
<1>1. /\ m.cmd = n.cmd /\ m.to = n.to /\ m.inbox = n.inbox /\ m.late = n.late
      /\ m.server = n.server
  BY DEF Cancelled, NetRec
<1>2. Clean(m) <=> Clean(n)
  BY <1>1 DEF Clean
<1>3. \A cmd, to : Due(m, cmd, to) <=> Due(n, cmd, to)
  BY <1>1 DEF Due
<1>4. Borrowed(e) <=> Borrowed(d)
  BY DEF Alike, Borrowed
<1> HIDE DEF Borrowed
<1> QED
  BY <1>1, <1>2, <1>3, <1>4 DEF TabCalm, Alike

(* Nothing changes that matters.                                           *)
LEMMA CalmAlike ==
    ASSUME NEW w \in Worlds, NEW u, NEW h, Calm(w, h), u.tab = w.tab, ~u.q.refused,
           \A e \in Engines : /\ Alike(w.q.data[e], u.q.data[e]) /\ Cancelled(w.net[e], u.net[e])
                              /\ HasData(u, e) <=> HasData(w, e)
    PROVE  Calm(u, h) /\ (Still(w) => Still(u))
<1>1. \A e \in Engines : w.net[e] \in NetRec
  BY NetType
<1>2. \A e \in Engines : HasData(w, e) \in BOOLEAN
  BY DEF HasData, Contains
<1>3. ASSUME NEW e \in Own PROVE EngineCalm(u.q.data[e], u.net[e], HasData(u, e), e = h)
  <2>1. EngineCalm(w.q.data[e], w.net[e], HasData(w, e), e = h)
    BY DEF Calm, OwnCalm
  <2>2. Alike(w.q.data[e], u.q.data[e]) /\ Cancelled(w.net[e], u.net[e]) /\ w.net[e] \in NetRec
        /\ (HasData(u, e) <=> HasData(w, e))
    BY <1>1, OwnIn
  <2>3. EngineCalm(u.q.data[e], u.net[e], HasData(w, e), e = h)
    BY <2>1, <2>2, EngineAlike
  <2> QED
    BY <2>2, <2>3 DEF EngineCalm
<1>4. LentCalm(u, h)
  <2>1. TabCalm(w.q.data[TabEngine], w.net[TabEngine], w.tab, HasData(w, TabEngine), TabEngine = h)
    BY DEF Calm, LentCalm
  <2>2. TabCalm(u.q.data[TabEngine], u.net[TabEngine], w.tab, HasData(w, TabEngine), TabEngine = h)
    <3>1. /\ Alike(w.q.data[TabEngine], u.q.data[TabEngine])
          /\ Cancelled(w.net[TabEngine], u.net[TabEngine]) /\ w.net[TabEngine] \in NetRec
      BY <1>1, OwnIn
    <3> QED
      BY <2>1, <3>1, TabAlike
  <2>3. HasData(u, TabEngine) <=> HasData(w, TabEngine)
    BY OwnIn
  <2> QED
    BY <2>2, <2>3 DEF LentCalm, TabCalm
<1>5. ASSUME Still(w) PROVE Still(u)
  <2>1. ASSUME NEW e \in Own, ~u.q.data[e].active PROVE Clean(u.net[e])
    <3>1. ~w.q.data[e].active /\ Cancelled(w.net[e], u.net[e]) /\ w.net[e] \in NetRec
      BY <1>1, <2>1, OwnIn DEF Alike
    <3>2. Clean(w.net[e])
      BY <1>5, <3>1 DEF Still
    <3>3. u.net[e] = w.net[e]
      BY <3>1, <3>2 DEF Cancelled, Clean
    <3> QED
      BY <3>2, <3>3
  <2> QED
    BY <2>1 DEF Still
<1> QED
  BY <1>3, <1>4, <1>5 DEF Calm, OwnCalm

LEMMA CalmParts ==
    ASSUME NEW w, NEW h, Calm(w, h)
    PROVE  /\ \A e \in Own : EngineCalm(w.q.data[e], w.net[e], HasData(w, e), e = h)
           /\ TabCalm(w.q.data[TabEngine], w.net[TabEngine], w.tab, HasData(w, TabEngine), TabEngine = h)
           /\ ~w.q.refused
BY DEF Calm, OwnCalm, LentCalm

(* GetIdleEngine and CanStartTransfer may add engines.                     *)
LEMMA GrownCalm ==
    ASSUME NEW w, Book(w), NEW u, Grown(w, u), NEW h, Calm(w, h)
    PROVE  Calm(u, h) /\ (Still(w) => Still(u))
<1>1. DataOK(w) /\ DataOK(u) /\ u.net = w.net /\ u.tab = w.tab /\ u.q.refused = w.q.refused
  BY DEF Grown, Book, SameMode
<1>2. \A e \in Engines : /\ HasData(w, e) => HasData(u, e) /\ u.q.data[e] = w.q.data[e]
                         /\ ~HasData(w, e) => w.q.data[e] = NewData("none")
                         /\ ~HasData(w, e) /\ HasData(u, e) => u.q.data[e] = NewData(NewState(e))
                         /\ ~HasData(u, e) => u.q.data[e] = NewData("none")
  BY <1>1 DEF Grown, DataOK
<1>3. \A e \in Own : u.q.data[e] = w.q.data[e]
  BY <1>2, OwnIn DEF NewState
<1>4. ASSUME NEW e \in Own PROVE EngineCalm(u.q.data[e], u.net[e], HasData(u, e), e = h)
  <2>1. EngineCalm(w.q.data[e], w.net[e], HasData(w, e), e = h)
    BY CalmParts
  <2>2. u.q.data[e] = w.q.data[e] /\ u.net[e] = w.net[e] /\ (HasData(w, e) => HasData(u, e))
    BY <1>1, <1>2, <1>3, OwnIn
  <2> QED
    BY <2>1, <2>2 DEF EngineCalm
<1>5. TabCalm(u.q.data[TabEngine], u.net[TabEngine], u.tab, HasData(u, TabEngine), TabEngine = h)
  <2> DEFINE d == w.q.data[TabEngine]
             e == u.q.data[TabEngine]
             n == w.net[TabEngine]
  <2>1. TabCalm(d, n, w.tab, HasData(w, TabEngine), TabEngine = h)
    BY CalmParts
  <2>2. u.net[TabEngine] = n
    BY <1>1
  <2>3. CASE HasData(w, TabEngine)
    <3>1. e = d /\ HasData(u, TabEngine)
      BY <1>2, <2>3, OwnIn
    <3> HIDE DEF d, e, n
    <3> QED
      BY <1>1, <2>1, <2>2, <2>3, <3>1 DEF TabCalm, e
  <2>4. CASE ~HasData(w, TabEngine) /\ HasData(u, TabEngine)
    <3>1. d = NewData("none") /\ e = NewData("waitprimary")
      BY <1>2, <2>4, OwnIn DEF NewState
    <3>2. ~d.active /\ ~e.active /\ e.state = "waitprimary"
      BY <3>1 DEF NewData
    <3> HIDE DEF d, e, n
    <3> QED
      BY <1>1, <2>1, <2>2, <3>2 DEF TabCalm, Borrowed, e
  <2>5. CASE ~HasData(w, TabEngine) /\ ~HasData(u, TabEngine)
    <3>1. e = d
      BY <1>2, <2>5, OwnIn
    <3> HIDE DEF d, e, n
    <3> QED
      BY <1>1, <2>1, <2>2, <2>5, <3>1 DEF TabCalm, e
  <2> QED
    BY <2>3, <2>4, <2>5
<1>6. ~u.q.refused
  BY <1>1, CalmParts
<1>7. Still(w) => Still(u)
  BY <1>1, <1>3 DEF Still
<1> QED
  BY <1>4, <1>5, <1>6, <1>7 DEF Calm, OwnCalm, LentCalm


LEMMA GivenFields ==
    ASSUME NEW w \in Worlds, NEW i \in Items, NEW id \in Engines
    PROVE  LET d == Given(w, i, id)
           IN  d.active /\ d.item = i /\ d.site = SiteOf[i] /\ d.state = FirstState(w, id, i)
<1>1. w.q.data[id] \in DataRec
  BY DataType
<1> DEFINE c == w.q.data[id]
           s == SiteOf[i]
           f == FirstState(w, id, i)
<1> HIDE DEF c, s, f
<1>2. Given(w, i, id) = [c EXCEPT !.item = i, !.active = TRUE, !.timer = FALSE, !.site = s, !.state = f]
  BY DEF Given, c, s, f
<1>3. c \in DataRec
  BY <1>1 DEF c
<1> QED
  BY <1>2, <1>3 DEF DataRec, s, f

LEMMA AssignCalm ==
    ASSUME NEW v, NEW i, NEW id, Starts(v, i, id), Calm(v, NoEngine), Still(v)
    PROVE  LET u == Assign(v, i, id)
           IN  Calm(u, id) /\ Still(u)
<1> DEFINE u == Assign(v, i, id)
           d == v.q.data[id]
           e == Given(v, i, id)
           n == v.net[id]
<1>1. /\ Book(v) /\ i \in Items /\ id \in Engines /\ HasData(v, id) /\ ~d.active
      /\ v \in Worlds /\ DataOK(v)
      /\ id = TabEngine => There(v, id, SiteOf[i]) \/ v.tab.site = SiteOf[i]
  BY DEF Starts, Book
<1>2. /\ u.q.data[id] = e /\ \A k \in Engines \ {id} : u.q.data[k] = v.q.data[k]
      /\ u.q.engines = v.q.engines /\ u.q.refused = v.q.refused
      /\ u.tab = v.tab /\ u.net = v.net
  <2>1. /\ u \in Worlds /\ Given(v, i, id) \in DataRec
        /\ u.q.data = [v.q.data EXCEPT ![id] = Given(v, i, id)]
        /\ u.q.data[id] = Given(v, i, id)
        /\ \A k \in Engines \ {id} : u.q.data[k] = v.q.data[k]
        /\ u.q.busy = [v.q.busy EXCEPT ![SiteOf[i]] = v.q.busy[SiteOf[i]] + 1]
        /\ u.q.count = v.q.count + 1
        /\ u.q.down = v.q.down + (IF Download(i) THEN 1 ELSE 0)
        /\ u.q.up = v.q.up + (IF Download(i) THEN 0 ELSE 1)
        /\ u.item = [v.item EXCEPT ![i] = [v.item[i] EXCEPT !.active = TRUE]]
        /\ u.q.sending = id /\ u.q.engines = v.q.engines /\ SameLists(v, u)
        /\ u.q.mode = v.q.mode /\ u.q.inside = v.q.inside /\ u.q.refused = v.q.refused
        /\ u.tab = v.tab /\ u.net = v.net
    BY <1>1, AssignViews, SMTT(40)
  <2> HIDE DEF u, e, d, n
  <2> QED
    BY <2>1 DEF e
<1>3. e.active /\ e.item = i /\ e.site = SiteOf[i] /\ e.state = FirstState(v, id, i)
  BY <1>1, GivenFields
<1>4. \A k : HasData(u, k) <=> HasData(v, k)
  BY <1>2 DEF HasData
<1>5. GoodData(id, d) /\ d.site \in Servers /\ SiteOf[i] \in Sites /\ Work(i) \in {"transfer", "mkdir"}
  BY <1>1, DataType, WorkType, QueueAssumption DEF DataOK
<1>6. IsConnected(v, id) <=> n.server # NoSite
  BY DEF IsConnected
<1>6a. e.state = IF d.state = "waitprimary" THEN "waitprimary"
                 ELSE IF n.server = NoSite THEN "connect"
                 ELSE IF d.site # SiteOf[i] THEN "disconnect" ELSE Work(i)
  BY <1>3, <1>6 DEF FirstState, Data
<1>6b. There(v, id, SiteOf[i]) => d.site = SiteOf[i]
  BY DEF There
<1>6c. NoSite \notin Sites
  BY QueueAssumption
<1> HIDE DEF u, d, e, n
<1>7. ASSUME NEW k \in Own PROVE EngineCalm(u.q.data[k], u.net[k], HasData(u, k), k = id)
  <2>1. EngineCalm(v.q.data[k], v.net[k], HasData(v, k), k = NoEngine)
    BY CalmParts
  <2>2. k # NoEngine /\ k \in Engines
    BY OwnIn
  <2>3. CASE k # id
    <3>1. u.q.data[k] = v.q.data[k] /\ u.net[k] = v.net[k] /\ (HasData(u, k) <=> HasData(v, k))
      BY <1>2, <1>4, <2>2, <2>3
    <3> QED
      BY <2>1, <2>2, <2>3, <3>1 DEF EngineCalm
  <2>4. CASE k = id
    <3>1. EngineCalm(d, n, HasData(v, id), FALSE)
      BY <2>1, <2>2, <2>4 DEF d, n, EngineCalm
    <3>2. Clean(n)
      BY <1>1, <2>4 DEF Still, d, n
    <3>3. d.state # "waitprimary"
      BY <1>5, <2>4, OwnIn DEF GoodData
    <3>4. EngineCalm(e, n, HasData(u, id), TRUE)
      BY <1>1, <1>3, <1>4, <1>5, <1>6a, <3>1, <3>2, <3>3 DEF EngineCalm, Clean, GoodData
    <3> QED
      BY <1>2, <2>4, <3>4 DEF n, EngineCalm
  <2> QED
    BY <2>3, <2>4
<1>8. TabCalm(u.q.data[TabEngine], u.net[TabEngine], u.tab, HasData(u, TabEngine), TabEngine = id)
  <2>1. TabCalm(v.q.data[TabEngine], v.net[TabEngine], v.tab, HasData(v, TabEngine), TabEngine = NoEngine)
    BY CalmParts
  <2>2. CASE TabEngine # id
    <3>1. u.q.data[TabEngine] = v.q.data[TabEngine] /\ u.net[TabEngine] = v.net[TabEngine]
          /\ u.tab = v.tab /\ (HasData(u, TabEngine) <=> HasData(v, TabEngine))
      BY <1>2, <1>4, <2>2, OwnIn
    <3> QED
      BY <2>1, <2>2, <3>1, OwnIn DEF TabCalm
  <2>3. CASE TabEngine = id
    <3> DEFINE t == v.tab
    <3>1. TabCalm(d, n, t, HasData(v, id), FALSE)
      BY <2>1, <2>3, OwnIn DEF d, n, TabCalm
    <3>2. d.state = "waitprimary" => d.site = NoSite
      BY <1>1, <1>5 DEF GoodData
    <3>3. e.site = t.site
      <4>1. CASE d.state = "waitprimary"
        BY <1>1, <1>3, <1>5, <1>6b, <1>6c, <2>3, <3>2, <4>1
      <4>2. CASE d.state # "waitprimary"
        BY <1>1, <1>3, <1>6b, <2>3, <3>1, <4>2 DEF TabCalm
      <4> QED
        BY <4>1, <4>2
    <3>4. ~Borrowed(d)
      BY <1>1 DEF Borrowed
    <3> HIDE DEF t
    <3>5. d.state = "waitprimary" <=> ~Borrowed(e)
      BY <1>3, <1>5, <1>6a DEF Borrowed
    <3>6. e.state = "waitprimary" <=> d.state = "waitprimary"
      BY <1>5, <1>6a
    <3>7. TabCalm(e, n, t, HasData(u, id), TRUE)
      BY <1>1, <1>3, <1>4, <3>1, <3>3, <3>4, <3>5, <3>6 DEF TabCalm
    <3> QED
      BY <1>2, <2>3, <3>7 DEF n, t, TabCalm
  <2> QED
    BY <2>2, <2>3
<1>9. Still(u)
  <2>1. ASSUME NEW k \in Own, ~u.q.data[k].active PROVE Clean(u.net[k])
    <3>1. k # id /\ k \in Engines
      BY <1>2, <1>3, <2>1, OwnIn
    <3> QED
      BY <1>2, <2>1, <3>1 DEF Still
  <2> QED
    BY <2>1 DEF Still
<1>10. ~u.q.refused
  BY <1>2, CalmParts
<1> QED
  BY <1>7, <1>8, <1>9, <1>10 DEF Calm, OwnCalm, LentCalm, u

LEMMA CalmSame ==
    ASSUME NEW w, NEW u, NEW h, Calm(w, h), SameEngines(w, u), u.tab = w.tab, u.net = w.net,
           u.q.refused = w.q.refused
    PROVE  Calm(u, h) /\ (Still(w) => Still(u)) /\ (Unused(u) <=> Unused(w))
<1>1. u.q.data = w.q.data /\ \A e : HasData(u, e) <=> HasData(w, e)
  BY DEF SameEngines, HasData
<1>2. OwnCalm(u, h)
  BY <1>1 DEF Calm, OwnCalm, EngineCalm
<1>3. LentCalm(u, h)
  BY <1>1 DEF Calm, LentCalm, TabCalm
<1>4. Unused(u) <=> Unused(w)
  BY <1>1 DEF Unused, Data
<1> QED
  BY <1>1, <1>2, <1>3, <1>4 DEF Calm, Still

(* AdvanceQueueEnds and CheckQueueState.                                   *)
LEMMA RefreshCalm ==
    ASSUME NEW d \in DataRec, NEW n \in NetRec, EngineCalm(d, n, TRUE, FALSE),
           ~d.active, d.item = NoItem, Clean(n), n.server # NoSite, NEW e, Alike(Listing(d), e)
    PROVE  EngineCalm(e, Executing(n, "list", NoItem), TRUE, FALSE) /\ e.active
<1>1. PICK cmd \in Commands, to \in Aims : cmd = "list" /\ to = NoItem
  BY DEF Commands, Aims, Files
<1> DEFINE m == Executing(n, cmd, to)
<1>2. /\ m.cmd = cmd /\ m.to = to /\ m.server = n.server
      /\ ~m.cancel /\ m.late = n.cancel /\ m.inbox = n.inbox
  BY ExecutingType
<1>3. Listing(d).active /\ Listing(d).state = "list" /\ Listing(d).item = d.item
      /\ Listing(d).site = d.site
  BY ListingType
<1>4. e.active /\ e.state = "list" /\ e.item = NoItem /\ e.site = d.site
  BY <1>3 DEF Alike
<1> HIDE DEF m
<1>5. d.state # "disconnect" \/ n.server = NoSite
  BY DEF EngineCalm, Clean
<1>6. n.server \in {NoSite, d.site}
  BY <1>5 DEF EngineCalm
<1>7. Due(m, "list", NoItem)
  BY <1>1, <1>2 DEF Due, Clean
<1>8. EngineCalm(e, m, TRUE, FALSE)
  BY <1>1, <1>2, <1>4, <1>6, <1>7 DEF EngineCalm
<1> QED
  BY <1>1, <1>4, <1>8 DEF m

LEMMA SettledCalm ==
    ASSUME NEW w, Book(w), NEW u, Settled(w, u), Calm(w, NoEngine), Still(w)
    PROVE  Calm(u, NoEngine) /\ Still(u) /\ ~Unused(u)
<1>1. w \in Worlds /\ DataOK(w) /\ Book(u) /\ DataOK(u) /\ u.q.refused = w.q.refused
  BY DEF Settled, Book
<1>2. ASSUME NEW k \in Own
      PROVE  /\ EngineCalm(u.q.data[k], u.net[k], HasData(u, k), k = NoEngine)
             /\ ~u.q.data[k].active => Clean(u.net[k])
  <2> DEFINE d == w.q.data[k]
             e == u.q.data[k]
             n == w.net[k]
  <2>1. EngineCalm(d, n, HasData(w, k), FALSE) /\ k # NoEngine /\ k \in Engines
    <3>1. EngineCalm(d, n, HasData(w, k), k = NoEngine) /\ k # NoEngine /\ k \in Engines
      BY CalmParts, OwnIn
    <3> HIDE DEF d, n
    <3> QED
      BY <3>1 DEF EngineCalm
  <2>2. d \in DataRec /\ n \in NetRec /\ GoodData(k, d) /\ (~d.active => Clean(n))
    BY <1>1, <2>1, DataType, NetType DEF DataOK, Still
  <2>3. (HasData(w, k) => HasData(u, k)) /\ (Unmoved(w, u, k) \/ Refreshing(w, u, k))
    BY DEF Settled
  <2>4. CASE Unmoved(w, u, k)
    <3>1. Alike(d, e) /\ u.net[k] = n
      BY <2>4 DEF Unmoved
    <3>2. Cancelled(n, n)
      BY DEF Cancelled
    <3> HIDE DEF d, e, n
    <3>3. EngineCalm(e, n, HasData(w, k), FALSE)
      <4>1. PICK no \in BOOLEAN : no = FALSE
        OBVIOUS
      <4>2. EngineCalm(d, n, HasData(w, k), no)
        BY <2>1, <4>1
      <4>3. EngineCalm(e, n, HasData(w, k), no)
        BY <2>2, <3>1, <3>2, <4>2, EngineAlike
      <4> QED
        BY <4>1, <4>3
    <3>4. ~e.active => Clean(n)
      BY <2>2, <3>1 DEF Alike
    <3> QED
      BY <2>1, <2>3, <3>1, <3>3, <3>4 DEF EngineCalm, e
  <2>5. CASE Refreshing(w, u, k)
    <3>1. /\ HasData(w, k) /\ ~d.active /\ n.server # NoSite
          /\ Alike(Listing(d), e) /\ u.net[k] = Executing(n, "list", NoItem)
      BY <2>5 DEF Refreshing, IsConnected
    <3> HIDE DEF d, e, n
    <3>2. d.item = NoItem /\ Clean(n)
      BY <2>2, <3>1 DEF GoodData
    <3>3. EngineCalm(d, n, TRUE, FALSE)
      BY <2>1, <3>1 DEF EngineCalm
    <3>4. EngineCalm(e, Executing(n, "list", NoItem), TRUE, FALSE) /\ e.active
      BY <2>2, <3>1, <3>2, <3>3, RefreshCalm
    <3> QED
      BY <2>1, <2>3, <3>1, <3>4 DEF EngineCalm, e
  <2> QED
    BY <2>3, <2>4, <2>5
<1>3. /\ u.tab = IF Unused(w) THEN ReleaseEngine(w).tab ELSE w.tab
      /\ u.q.data[TabEngine] = IF Unused(w) THEN NewData("none") ELSE w.q.data[TabEngine]
      /\ HasData(u, TabEngine) <=> HasData(w, TabEngine) /\ ~Unused(w)
      /\ u.net[TabEngine] = w.net[TabEngine]
  BY DEF Settled
<1>4. TabCalm(u.q.data[TabEngine], u.net[TabEngine], u.tab, HasData(u, TabEngine), TabEngine = NoEngine)
  <2> DEFINE d == w.q.data[TabEngine]
             n == w.net[TabEngine]
             t == w.tab
  <2>1. TabCalm(d, n, t, HasData(w, TabEngine), FALSE)
    <3>1. TabCalm(d, n, t, HasData(w, TabEngine), TabEngine = NoEngine) /\ TabEngine # NoEngine
      BY CalmParts, OwnIn
    <3> HIDE DEF d, n, t
    <3> QED
      BY <3>1 DEF TabCalm
  <2>2. CASE ~Unused(w)
    <3>1. /\ u.q.data[TabEngine] = d /\ u.net[TabEngine] = n /\ u.tab = t
          /\ (HasData(u, TabEngine) <=> HasData(w, TabEngine))
      BY <1>3, <2>2
    <3> HIDE DEF d, n, t
    <3> QED
      BY <2>1, <3>1, OwnIn DEF TabCalm
  <2>3. CASE Unused(w)
    <3>1. u.q.data[TabEngine] = NewData("none") /\ u.net[TabEngine] = n
          /\ u.tab = Released(t) /\ ~HasData(u, TabEngine)
      BY <1>1, <1>3, <2>3, ReleaseViews
    <3>2. ~d.active /\ ~NewData("none").active
      BY <2>3 DEF Unused, Data, NewData
    <3>3. t \in TabRec
      BY <1>1, WorldParts
    <3>4. /\ Released(t).site = t.site /\ Released(t).cmd = t.cmd
          /\ Released(t).wants = FALSE /\ (Released(t).lock => t.lock /\ ~t.wants)
      <4> HIDE DEF t
      <4>1. CASE ~t.wants
        BY <3>3, <4>1 DEF Released, TabRec
      <4>2. CASE t.wants
        BY <3>3, <4>2 DEF Released, TabRec
      <4> QED
        BY <4>1, <4>2
    <3> HIDE DEF d, n, t
    <3>5. TabCalm(NewData("none"), n, Released(t), FALSE, FALSE)
      BY <2>1, <3>2, <3>4 DEF TabCalm, Borrowed
    <3> QED
      BY <3>1, <3>5, OwnIn DEF TabCalm
  <2> QED
    BY <2>2, <2>3
<1>5. ~Unused(u)
  BY <1>3 DEF Unused, Data
<1>6. ~u.q.refused
  BY <1>1, CalmParts
<1>7. Still(u)
  BY <1>2 DEF Still
<1> QED
  BY <1>2, <1>4, <1>5, <1>6, <1>7 DEF Calm, OwnCalm, LentCalm

(* One engine changes, the tab only with its own.                          *)
LEMMA CalmOne ==
    ASSUME NEW w, NEW h, Calm(w, h), NEW u, NEW g, NEW id \in Engines,
           h = g \/ (h \in {id, NoEngine} /\ g \in {id, NoEngine}), ~u.q.refused,
           \A e \in Engines \ {id} : /\ u.q.data[e] = w.q.data[e] /\ u.net[e] = w.net[e]
                                     /\ HasData(u, e) <=> HasData(w, e),
           id \in Own => /\ u.tab = w.tab
                         /\ EngineCalm(u.q.data[id], u.net[id], HasData(u, id), id = g),
           id = TabEngine => TabCalm(u.q.data[id], u.net[id], u.tab, HasData(u, id), id = g)
    PROVE  /\ Calm(u, g)
           /\ Still(w) /\ (id \in Own /\ ~u.q.data[id].active => Clean(u.net[id])) => Still(u)
<1>1. ASSUME NEW e \in Own PROVE EngineCalm(u.q.data[e], u.net[e], HasData(u, e), e = g)
  <2>1. e \in Engines /\ e # NoEngine
    BY OwnIn
  <2>2. CASE e = id
    BY <2>2
  <2>3. CASE e # id
    <3>1. EngineCalm(w.q.data[e], w.net[e], HasData(w, e), e = h)
      BY CalmParts
    <3>2. /\ u.q.data[e] = w.q.data[e] /\ u.net[e] = w.net[e]
          /\ (e = h <=> e = g)
          /\ HasData(u, e) <=> HasData(w, e)
      BY <2>1, <2>3
    <3> QED
      BY <3>1, <3>2 DEF EngineCalm
  <2> QED
    BY <2>2, <2>3
<1>2. TabCalm(u.q.data[TabEngine], u.net[TabEngine], u.tab, HasData(u, TabEngine), TabEngine = g)
  <2>1. CASE id = TabEngine
    BY <2>1
  <2>2. CASE id # TabEngine
    <3>1. TabCalm(w.q.data[TabEngine], w.net[TabEngine], w.tab, HasData(w, TabEngine), TabEngine = h)
      BY CalmParts
    <3>2. /\ u.q.data[TabEngine] = w.q.data[TabEngine] /\ u.net[TabEngine] = w.net[TabEngine]
          /\ HasData(u, TabEngine) <=> HasData(w, TabEngine)
          /\ u.tab = w.tab /\ (TabEngine = h <=> TabEngine = g)
      BY <2>2, OwnIn
    <3> QED
      BY <3>1, <3>2 DEF TabCalm
  <2> QED
    BY <2>1, <2>2
<1>3. ASSUME Still(w), id \in Own /\ ~u.q.data[id].active => Clean(u.net[id]) PROVE Still(u)
  <2>1. ASSUME NEW e \in Own, ~u.q.data[e].active PROVE Clean(u.net[e])
    <3>1. CASE e = id
      BY <1>3, <2>1, <3>1
    <3>2. CASE e # id
      <4>1. u.q.data[e] = w.q.data[e] /\ u.net[e] = w.net[e]
        BY <3>2, OwnIn
      <4> QED
        BY <1>3, <2>1, <4>1 DEF Still
    <3> QED
      BY <3>1, <3>2
  <2> QED
    BY <2>1 DEF Still
<1> QED
  BY <1>1, <1>2, <1>3 DEF Calm, OwnCalm, LentCalm

(* The tab's engine is given back before it was had.                       *)
LEMMA GivenBackCalm ==
    ASSUME NEW d, NEW n \in NetRec, NEW m, Cancelled(n, m), NEW t \in TabRec, NEW has,
           TabCalm(d, n, t, has, FALSE), ~Borrowed(d)
    PROVE  TabCalm(NewData("none"), m, Released(t), FALSE, FALSE)
<1>1. /\ m.cmd = n.cmd /\ m.to = n.to /\ m.inbox = n.inbox /\ m.late = n.late
      /\ m.server = n.server
  BY DEF Cancelled, NetRec
<1>2. Clean(m) <=> Clean(n)
  BY <1>1 DEF Clean
<1>3. \A cmd, to : Due(m, cmd, to) <=> Due(n, cmd, to)
  BY <1>1 DEF Due
<1>4. /\ Released(t).site = t.site /\ Released(t).cmd = t.cmd
      /\ Released(t).wants = FALSE /\ (Released(t).lock => t.lock /\ ~t.wants)
  <2>1. CASE ~t.wants
    BY <2>1 DEF Released, TabRec
  <2>2. CASE t.wants
    BY <2>2 DEF Released, TabRec
  <2> QED
    BY <2>1, <2>2
<1>5. ~NewData("none").active
  BY DEF NewData
<1>6. ~Borrowed(NewData("none"))
  BY <1>5 DEF Borrowed
<1> DEFINE e == NewData("none")
           r == Released(t)
<1> HIDE DEF e, r
<1>7. ~e.active /\ ~Borrowed(e) /\ r.site = t.site /\ r.cmd = t.cmd /\ r.wants = FALSE
      /\ (r.lock => t.lock /\ ~t.wants)
  BY <1>4, <1>5, <1>6 DEF e, r
<1>8. TabCalm(e, m, r, FALSE, FALSE)
  BY <1>1, <1>2, <1>3, <1>7 DEF TabCalm
<1> QED
  BY <1>8 DEF e, r

(* Stopping the queue.                                                     *)
LEMMA HaltedCalm ==
    ASSUME NEW w, Book(w), NEW u, Halted(w, u), NEW h, Calm(w, h),
           h = TabEngine => w.q.data[TabEngine].state # "waitprimary"
    PROVE  Calm(u, h) /\ (Still(w) => Still(u)) /\ (Unused(u) => Unused(w))
<1>1. w \in Worlds /\ ~u.q.refused
  BY CalmParts DEF Book, Halted
<1>2. \A e \in Engines : Cancelled(w.net[e], u.net[e]) /\ w.net[e] \in NetRec
  BY <1>1, NetType DEF Halted
<1>3. \A e \in Own : Alike(w.q.data[e], u.q.data[e]) /\ (HasData(u, e) <=> HasData(w, e))
  BY DEF Halted
<1>4. SameTab(w, u) \/ GivesBack(w, u)
  BY DEF Halted
<1>5. CASE SameTab(w, u)
  <2>1. /\ u.tab = w.tab /\ Alike(w.q.data[TabEngine], u.q.data[TabEngine])
        /\ HasData(u, TabEngine) <=> HasData(w, TabEngine)
        /\ u.q.data[TabEngine] = w.q.data[TabEngine]
    BY <1>5, AlikeSelf DEF SameTab
  <2>2. \A e \in Engines : /\ Alike(w.q.data[e], u.q.data[e]) /\ Cancelled(w.net[e], u.net[e])
                           /\ HasData(u, e) <=> HasData(w, e)
    BY <1>2, <1>3, <2>1, OwnIn
  <2>3. Calm(u, h) /\ (Still(w) => Still(u))
    BY <1>1, <2>1, <2>2, CalmAlike
  <2> QED
    BY <2>1, <2>3 DEF Unused, Data
<1>6. CASE GivesBack(w, u)
  <2> DEFINE d == w.q.data[TabEngine]
  <2>1. /\ d.active /\ d.state = "waitprimary" /\ u.q.data[TabEngine] = NewData("none")
        /\ ~HasData(u, TabEngine) /\ u.tab = Released(w.tab)
    BY <1>6 DEF GivesBack
  <2>2. h # TabEngine
    BY <2>1
  <2>3. TabCalm(d, w.net[TabEngine], w.tab, HasData(w, TabEngine), TabEngine = h)
    BY CalmParts
  <2>4. ~Borrowed(d) /\ w.tab \in TabRec /\ TabEngine \in Engines
    BY <1>1, <2>1, WorldParts, OwnIn DEF Borrowed
  <2> HIDE DEF d
  <2>5. TabCalm(d, w.net[TabEngine], w.tab, HasData(w, TabEngine), FALSE)
    BY <2>2, <2>3 DEF TabCalm
  <2>6. TabCalm(NewData("none"), u.net[TabEngine], Released(w.tab), FALSE, FALSE)
    BY <1>2, <2>4, <2>5, GivenBackCalm
  <2>7. TabCalm(u.q.data[TabEngine], u.net[TabEngine], u.tab, HasData(u, TabEngine), TabEngine = h)
    BY <2>1, <2>2, <2>6 DEF TabCalm
  <2>8. ASSUME NEW e \in Own
        PROVE  /\ EngineCalm(u.q.data[e], u.net[e], HasData(u, e), e = h)
               /\ Still(w) /\ ~u.q.data[e].active => Clean(u.net[e])
    <3>1. EngineCalm(w.q.data[e], w.net[e], HasData(w, e), e = h) /\ e \in Engines
      BY CalmParts, OwnIn
    <3>2. /\ Alike(w.q.data[e], u.q.data[e]) /\ Cancelled(w.net[e], u.net[e])
          /\ w.net[e] \in NetRec /\ (HasData(u, e) <=> HasData(w, e))
      BY <1>2, <1>3, <3>1
    <3>3. EngineCalm(u.q.data[e], u.net[e], HasData(w, e), e = h)
      BY <3>1, <3>2, EngineAlike
    <3>4. EngineCalm(u.q.data[e], u.net[e], HasData(u, e), e = h)
      BY <3>2, <3>3 DEF EngineCalm
    <3>5. Still(w) /\ ~u.q.data[e].active => Clean(u.net[e])
      BY <3>2 DEF Still, Alike, Cancelled, Clean
    <3> QED
      BY <3>4, <3>5
  <2>9. Still(w) => Still(u)
    BY <2>8 DEF Still
  <2>10. ~Unused(u)
    BY <2>1 DEF Unused
  <2> QED
    BY <1>1, <2>7, <2>8, <2>9, <2>10 DEF Calm, OwnCalm, LentCalm
<1> QED
  BY <1>4, <1>5, <1>6

(* A reply that was due arrives.                                           *)
LEMMA EmptierClean ==
    ASSUME NEW n \in NetRec, NEW cmd, NEW to, Due(n, cmd, to), n.inbox # <<>>
    PROVE  Clean(Emptier(n)) /\ n.cmd = "none" /\ n.inbox[1].cmd = cmd /\ n.inbox[1].to = to
<1>1. n.cmd = "none" /\ Len(n.inbox) = 1 /\ n.inbox[1].cmd = cmd /\ n.inbox[1].to = to
  BY DEF Due
<1>2. n.inbox \in Seq(Replies)
  BY DEF NetRec
<1>3. Tail(n.inbox) = <<>>
  <2> DEFINE s == n.inbox
  <2> HIDE DEF s
  <2>1. s \in Seq(Replies) /\ Len(s) = 1
    BY <1>1, <1>2 DEF s
  <2> HIDE DEF Replies
  <2>2. Tail(s) \in Seq(Replies) /\ Len(Tail(s)) = 0
    <3>1. s # <<>>
      BY <2>1, EmptySeq
    <3> QED
      BY <2>1, <3>1, HeadTailProperties
  <2>3. Tail(s) = <<>>
    BY <2>2, EmptySeq
  <2> QED
    BY <2>3 DEF s
<1>4. Emptier(n).cmd = n.cmd /\ Emptier(n).inbox = Tail(n.inbox)
  BY EmptierType
<1> QED
  BY <1>1, <1>3, <1>4 DEF Clean

LEMMA ReplyCalm ==
    ASSUME NEW d, NEW n \in NetRec, NEW has, d.active, n.inbox # <<>>, EngineCalm(d, n, has, FALSE)
    PROVE  /\ EngineCalm(d, Emptier(n), has, TRUE) /\ Clean(Emptier(n))
           /\ d.state = "disconnect" => Emptier(n).server = NoSite
           /\ Due(n, d.state, d.item)
<1> DEFINE m == Emptier(n)
<1>1. Due(n, d.state, d.item)
  BY DEF EngineCalm
<1>2. Clean(m) /\ n.cmd = "none"
  BY <1>1, EmptierClean
<1>3. m.cmd = n.cmd /\ m.server = n.server /\ m.late = n.late
  BY EmptierType
<1> HIDE DEF m
<1>4. d.state = "disconnect" => m.server = NoSite
  BY <1>2, <1>3 DEF EngineCalm
<1>5. EngineCalm(d, m, has, TRUE)
  BY <1>2, <1>3 DEF EngineCalm
<1> QED
  BY <1>1, <1>2, <1>4, <1>5 DEF m

LEMMA TabReplyCalm ==
    ASSUME NEW d, NEW n \in NetRec, NEW t, NEW has, t.lock, n.inbox # <<>>,
           TabCalm(d, n, t, has, FALSE)
    PROVE  /\ TabCalm(d, Emptier(n), t, has, TRUE) /\ Clean(Emptier(n)) /\ Borrowed(d)
           /\ Due(n, d.state, d.item)
<1> DEFINE m == Emptier(n)
<1>1. Borrowed(d) /\ t.cmd = "none" /\ Due(n, d.state, d.item)
  BY DEF TabCalm, Clean
<1>2. Clean(m) /\ n.cmd = "none"
  BY <1>1, EmptierClean
<1>3. m.cmd = n.cmd /\ m.server = n.server /\ m.late = n.late
  BY EmptierType
<1> HIDE DEF m
<1>4. TabCalm(d, m, t, has, TRUE)
  BY <1>1, <1>2, <1>3 DEF TabCalm
<1> QED
  BY <1>1, <1>2, <1>4 DEF m

(* Engine id is active and had to wait for nothing but its reply.          *)
Handled(w, id) ==
    /\ w.q.data[id].active /\ w.q.data[id].state # "waitprimary"
    /\ id \in Own /\ w.q.data[id].state = "disconnect" => w.net[id].server = NoSite

LEMMA ReceivedCalm ==
    ASSUME NEW w, Book(w), NEW id \in Engines, w.net[id].inbox # <<>>, Calm(w, NoEngine), Still(w),
           id \in Own => w.q.data[id].active, id = TabEngine => w.tab.lock
    PROVE  LET u == Received(w, id)
           IN  /\ Calm(u, id) /\ Still(u) /\ Handled(u, id)
               /\ Due(w.net[id], w.q.data[id].state, w.q.data[id].item)
<1> DEFINE u == Received(w, id)
           d == w.q.data[id]
           n == w.net[id]
<1>1. w \in Worlds /\ DataOK(w) /\ n \in NetRec /\ w.net \in [Engines -> NetRec] /\ GoodData(id, d)
  BY NetType, WorldParts DEF Book, DataOK
<1>2. u.q = w.q /\ u.tab = w.tab /\ u.net = [w.net EXCEPT ![id] = Emptier(n)]
  <2>1. /\ Book(u) /\ u.q = w.q /\ u.item = w.item /\ u.tab = w.tab
        /\ u.net = [w.net EXCEPT ![id] = Emptier(w.net[id])]
    BY BookReceived
  <2> HIDE DEF u, n
  <2>2. u.net = [w.net EXCEPT ![id] = Emptier(n)]
    BY <2>1 DEF n
  <2> QED
    BY <2>1, <2>2
<1>3. u.net[id] = Emptier(n) /\ \A e \in Engines \ {id} : u.net[e] = w.net[e]
  BY <1>1, <1>2
<1>4. \A e : HasData(u, e) <=> HasData(w, e)
  BY <1>2 DEF HasData
<1>5. id # NoEngine /\ (id \in Own \/ id = TabEngine)
  BY OwnIn
<1> HIDE DEF u
<1>6. ASSUME id \in Own
      PROVE  /\ EngineCalm(d, Emptier(n), HasData(w, id), TRUE) /\ Clean(Emptier(n))
             /\ d.active /\ d.state # "waitprimary"
             /\ d.state = "disconnect" => Emptier(n).server = NoSite
             /\ Due(n, d.state, d.item)
  <2>1. EngineCalm(d, n, HasData(w, id), id = NoEngine) /\ d.active
    BY <1>6, CalmParts
  <2>2. d.state # "waitprimary"
    BY <1>1, <1>6, OwnIn DEF GoodData
  <2> HIDE DEF d, n
  <2>3. EngineCalm(d, n, HasData(w, id), FALSE)
    BY <1>5, <2>1 DEF EngineCalm
  <2> QED
    BY <1>1, <2>1, <2>2, <2>3, ReplyCalm DEF n
<1>7. ASSUME id = TabEngine
      PROVE  /\ TabCalm(d, Emptier(n), w.tab, HasData(w, id), TRUE) /\ Clean(Emptier(n))
             /\ d.active /\ d.state # "waitprimary"
             /\ Due(n, d.state, d.item)
  <2>1. TabCalm(d, n, w.tab, HasData(w, id), id = NoEngine) /\ w.tab.lock
    BY <1>7, CalmParts
  <2> HIDE DEF d, n
  <2>2. TabCalm(d, n, w.tab, HasData(w, id), FALSE)
    BY <1>5, <2>1 DEF TabCalm
  <2>3. TabCalm(d, Emptier(n), w.tab, HasData(w, id), TRUE) /\ Clean(Emptier(n)) /\ Borrowed(d)
        /\ Due(n, d.state, d.item)
    BY <1>1, <2>1, <2>2, TabReplyCalm DEF n
  <2> QED
    BY <2>3 DEF Borrowed
<1>8. d.active /\ d.state # "waitprimary" /\ Due(n, d.state, d.item)
      /\ (id \in Own /\ d.state = "disconnect" => Emptier(n).server = NoSite)
  BY <1>5, <1>6, <1>7
<1>9. Handled(u, id)
  BY <1>2, <1>3, <1>8 DEF Handled
<1>10. id \in Own => /\ u.tab = w.tab
                     /\ EngineCalm(u.q.data[id], u.net[id], HasData(u, id), id = id)
  BY <1>2, <1>3, <1>4, <1>6 DEF EngineCalm
<1>11. id = TabEngine => TabCalm(u.q.data[id], u.net[id], u.tab, HasData(u, id), id = id)
  BY <1>2, <1>3, <1>4, <1>7 DEF TabCalm
<1>12. ~u.q.refused
  BY <1>2, CalmParts
<1>13. \A e \in Engines \ {id} : /\ u.q.data[e] = w.q.data[e] /\ u.net[e] = w.net[e]
                                 /\ HasData(u, e) <=> HasData(w, e)
  BY <1>2, <1>3, <1>4
<1>14. u.q.data[id].active
  BY <1>9 DEF Handled
<1>15. Calm(u, id) /\ (Still(w) /\ (id \in Own /\ ~u.q.data[id].active => Clean(u.net[id])) => Still(u))
  BY <1>10, <1>11, <1>12, <1>13, CalmOne
<1> QED
  BY <1>8, <1>9, <1>14, <1>15 DEF u

(* The engine that is held goes to another state.                          *)
LEMMA StateCalm ==
    ASSUME NEW w, Book(w), NEW id \in Engines, Calm(w, id), Still(w),
           w.q.data[id].active, w.q.data[id].state # "waitprimary",
           NEW s \in {"connect", "disconnect", "transfer", "mkdir"},
           id \in Own => \/ s = "disconnect" \/ w.q.data[id].state # "disconnect"
                         \/ w.net[id].server = NoSite
    PROVE  LET u == SetState(w, id, s)
           IN  Calm(u, id) /\ Still(u) /\ (s # "disconnect" => Handled(u, id))
<1> DEFINE u == SetState(w, id, s)
           d == w.q.data[id]
           e == WithState(d, s)
           n == w.net[id]
<1>1. w \in Worlds /\ d \in DataRec /\ w.q.data \in [Engines -> DataRec] /\ s \in States
  BY DataType, WorldParts DEF Book, States
<1>2. /\ u.q.data = [w.q.data EXCEPT ![id] = e] /\ u.q.engines = w.q.engines
      /\ u.q.refused = w.q.refused /\ u.tab = w.tab /\ u.net = w.net
  <2>1. /\ u \in Worlds /\ u.item = w.item /\ u.tab = w.tab /\ u.net = w.net
        /\ u.q.data = [w.q.data EXCEPT ![id] = WithState(w.q.data[id], s)]
        /\ u.q.engines = w.q.engines
        /\ SameMode(w, u) /\ SameLists(w, u) /\ SameCounts(w, u)
    BY <1>1, StateViews
  <2> QED
    BY <2>1 DEF SameMode
<1>3. u.q.data[id] = e /\ \A k \in Engines \ {id} : u.q.data[k] = w.q.data[k]
  BY <1>1, <1>2
<1>4. e.active = d.active /\ e.state = s /\ e.item = d.item /\ e.site = d.site
  BY <1>1, WithStateType
<1>5. \A k : HasData(u, k) <=> HasData(w, k)
  BY <1>2 DEF HasData
<1>6. id \in Own => EngineCalm(d, n, HasData(w, id), id = id)
  BY CalmParts
<1>7. id = TabEngine => TabCalm(d, n, w.tab, HasData(w, id), id = id)
  BY CalmParts
<1>8. d.active /\ d.state # "waitprimary"
      /\ (id \in Own => s = "disconnect" \/ d.state # "disconnect" \/ n.server = NoSite)
  OBVIOUS
<1> HIDE DEF u, d, e, n
<1>9. id \in Own => EngineCalm(e, n, HasData(u, id), id = id)
  BY <1>4, <1>5, <1>6, <1>8 DEF EngineCalm
<1>10. id = TabEngine => TabCalm(e, n, u.tab, HasData(u, id), id = id)
  <2>1. ASSUME id = TabEngine PROVE TabCalm(e, n, u.tab, HasData(u, id), id = id)
    <3>1. TabCalm(d, n, w.tab, HasData(w, id), id = id)
      BY <1>7, <2>1
    <3>2. Borrowed(d) /\ Borrowed(e)
      BY <1>4, <1>8 DEF Borrowed
    <3> QED
      BY <1>2, <1>4, <1>5, <1>8, <3>1, <3>2 DEF TabCalm
  <2> QED
    BY <2>1
<1>11. /\ \A k \in Engines \ {id} : /\ u.q.data[k] = w.q.data[k] /\ u.net[k] = w.net[k]
                                    /\ HasData(u, k) <=> HasData(w, k)
       /\ ~u.q.refused /\ u.net[id] = n
  BY <1>2, <1>3, <1>5, CalmParts DEF n
<1>12. /\ id \in Own => /\ u.tab = w.tab
                        /\ EngineCalm(u.q.data[id], u.net[id], HasData(u, id), id = id)
       /\ id = TabEngine => TabCalm(u.q.data[id], u.net[id], u.tab, HasData(u, id), id = id)
  BY <1>2, <1>3, <1>9, <1>10, <1>11
<1>13. u.q.data[id].active
  BY <1>3, <1>4, <1>8
<1>14. Calm(u, id) /\ (Still(w) /\ (id \in Own /\ ~u.q.data[id].active => Clean(u.net[id])) => Still(u))
  BY <1>11, <1>12, CalmOne
<1>15. s # "disconnect" => Handled(u, id)
  BY <1>3, <1>4, <1>8 DEF Handled
<1> QED
  BY <1>13, <1>14, <1>15 DEF u

(* The engine that is held is reset.                                       *)
LEMMA ResetCalm ==
    ASSUME NEW w, Book(w), NEW id \in Engines, Calm(w, id), Still(w), Handled(w, id),
           NEW reason \in Reasons
    PROVE  LET u == Reset(w, id, reason)
           IN  Calm(u, NoEngine) /\ Still(u)
<1> DEFINE u == Reset(w, id, reason)
           d == w.q.data[id]
           e == Freed(d)
           n == w.net[id]
<1>1. w \in Worlds /\ d \in DataRec /\ w.q.data \in [Engines -> DataRec]
  BY DataType, WorldParts DEF Book
<1>1a. d.active /\ d.state # "waitprimary" /\ (id \in Own /\ d.state = "disconnect" => n.server = NoSite)
  BY DEF Handled
<1>2. /\ u.q.data = [w.q.data EXCEPT ![id] = e] /\ u.q.engines = w.q.engines
      /\ u.q.refused = w.q.refused /\ u.tab = w.tab /\ u.net = w.net
  <2>1. FreedData(w, u, id)
    BY <1>1, ResetViews
  <2> HIDE DEF u
  <2> QED
    BY <1>1a, <2>1 DEF FreedData, SameMode
<1>3. u.q.data[id] = e /\ \A k \in Engines \ {id} : u.q.data[k] = w.q.data[k]
  BY <1>1, <1>2
<1>4. ~e.active /\ e.state = "none" /\ e.site = d.site
  BY <1>1, FreedType
<1>5. \A k : HasData(u, k) <=> HasData(w, k)
  BY <1>2 DEF HasData
<1>6. id \in Own => EngineCalm(d, n, HasData(w, id), id = id)
  BY CalmParts
<1>7. id = TabEngine => TabCalm(d, n, w.tab, HasData(w, id), id = id)
  BY CalmParts
<1>8. id # NoEngine
  BY OwnIn
<1> HIDE DEF u, d, e, n
<1>9. id \in Own => EngineCalm(e, n, HasData(u, id), id = NoEngine) /\ Clean(n)
  BY <1>1a, <1>4, <1>5, <1>6, <1>8 DEF EngineCalm
<1>10. id = TabEngine => TabCalm(e, n, u.tab, HasData(u, id), id = NoEngine)
  <2>1. ASSUME id = TabEngine PROVE TabCalm(e, n, u.tab, HasData(u, id), id = NoEngine)
    <3>1. TabCalm(d, n, w.tab, HasData(w, id), id = id)
      BY <1>7, <2>1
    <3>2. Borrowed(d) /\ ~Borrowed(e)
      BY <1>1a, <1>4 DEF Borrowed
    <3> QED
      BY <1>1a, <1>2, <1>4, <1>5, <1>8, <3>1, <3>2 DEF TabCalm
  <2> QED
    BY <2>1
<1>11. /\ \A k \in Engines \ {id} : /\ u.q.data[k] = w.q.data[k] /\ u.net[k] = w.net[k]
                                    /\ HasData(u, k) <=> HasData(w, k)
       /\ ~u.q.refused /\ u.net[id] = n
  BY <1>2, <1>3, <1>5, CalmParts DEF n
<1>12. /\ id \in Own => /\ u.tab = w.tab
                        /\ EngineCalm(u.q.data[id], u.net[id], HasData(u, id), id = NoEngine)
       /\ id = TabEngine => TabCalm(u.q.data[id], u.net[id], u.tab, HasData(u, id), id = NoEngine)
  BY <1>2, <1>3, <1>9, <1>10, <1>11
<1>13. id \in Own /\ ~u.q.data[id].active => Clean(u.net[id])
  BY <1>9, <1>11
<1>14. /\ Calm(u, NoEngine)
       /\ Still(w) /\ (id \in Own /\ ~u.q.data[id].active => Clean(u.net[id])) => Still(u)
  BY <1>11, <1>12, CalmOne
<1> QED
  BY <1>13, <1>14 DEF u

(* The engine that is held is sent its command.                            *)
LEMMA OrderCalm ==
    ASSUME NEW d, NEW n \in NetRec, NEW has, d.active, has, NEW cmd \in Commands \ {"none"},
           NEW to \in Aims, cmd = d.state, to = d.item,
           cmd \in {"connect", "disconnect"} \/ n.server # NoSite, EngineCalm(d, n, has, TRUE)
    PROVE  EngineCalm(d, Executing(n, cmd, to), has, FALSE)
<1> DEFINE m == Executing(n, cmd, to)
<1>1. m.cmd = cmd /\ m.to = to /\ m.server = n.server /\ m.inbox = n.inbox
  BY ExecutingType
<1>2. Clean(n)
  BY DEF EngineCalm
<1> HIDE DEF m
<1>3. Due(m, d.state, d.item)
  BY <1>1, <1>2 DEF Due, Clean
<1>4. EngineCalm(d, m, has, FALSE)
  BY <1>1, <1>3 DEF EngineCalm
<1> QED
  BY <1>4 DEF m

LEMMA TabOrderCalm ==
    ASSUME NEW d, NEW n \in NetRec, NEW t, NEW has, Borrowed(d), NEW cmd \in Commands \ {"none"},
           NEW to \in Aims, cmd = d.state, to = d.item,
           cmd \in {"connect", "disconnect"} \/ n.server # NoSite, TabCalm(d, n, t, has, TRUE)
    PROVE  TabCalm(d, Executing(n, cmd, to), t, has, FALSE)
<1> DEFINE m == Executing(n, cmd, to)
<1>1. m.cmd = cmd /\ m.to = to /\ m.server = n.server /\ m.inbox = n.inbox
  BY ExecutingType
<1>2. Clean(n) /\ t.lock
  BY DEF TabCalm
<1> HIDE DEF m
<1>3. Due(m, d.state, d.item)
  BY <1>1, <1>2 DEF Due, Clean
<1>4. TabCalm(d, m, t, has, FALSE)
  BY <1>1, <1>2, <1>3 DEF TabCalm
<1> QED
  BY <1>4 DEF m

LEMMA ExecuteCalm ==
    ASSUME NEW w, Book(w), NEW id \in Engines, Calm(w, id), Still(w),
           w.q.data[id].active, w.q.data[id].state # "waitprimary",
           w.q.data[id].state \in {"connect", "disconnect"} \/ IsConnected(w, id)
    PROVE  LET u == Execute(w, id, w.q.data[id].state, w.q.data[id].item)
           IN  Calm(u, NoEngine) /\ Still(u) /\ u.q = w.q
<1> DEFINE d == w.q.data[id]
           n == w.net[id]
           cmd == d.state
           to == d.item
           u == Execute(w, id, cmd, to)
           m == Executing(n, cmd, to)
<1>1. /\ w \in Worlds /\ d \in DataRec /\ n \in NetRec /\ w.net \in [Engines -> NetRec]
      /\ GoodData(id, d) /\ d.active /\ d.state # "waitprimary"
  BY DataType, NetType, WorldParts DEF Book, DataOK
<1>2. cmd \in Commands \ {"none"} /\ to \in Aims
  BY <1>1 DEF GoodData, DataRec, States, Commands, Aims
<1>3. cmd \in {"connect", "disconnect"} \/ n.server # NoSite
  BY DEF IsConnected
<1>3a. HasData(w, id)
  BY ActiveHas
<1>4. /\ id \in Own => EngineCalm(d, n, HasData(w, id), id = id)
      /\ id = TabEngine => TabCalm(d, n, w.tab, HasData(w, id), id = id)
  BY CalmParts
<1>5. id # NoEngine
  BY OwnIn
<1> HIDE DEF d, n, cmd, to, u, m
<1>6. u.q = w.q /\ u.tab = w.tab /\ u.net = [w.net EXCEPT ![id] = m]
  BY <1>1, <1>2, ExecutedViews DEF u, m, n
<1>7. u.net[id] = m /\ \A e \in Engines \ {id} : u.net[e] = w.net[e]
  BY <1>1, <1>6
<1>8. \A k : HasData(u, k) <=> HasData(w, k)
  BY <1>6 DEF HasData
<1>9. ASSUME id \in Own PROVE EngineCalm(d, m, HasData(u, id), id = NoEngine)
  <2>1. EngineCalm(d, n, HasData(w, id), TRUE)
    BY <1>4, <1>9 DEF EngineCalm
  <2>2. EngineCalm(d, m, HasData(w, id), FALSE)
    BY <1>1, <1>2, <1>3, <1>3a, <2>1, OrderCalm DEF m, cmd, to
  <2> QED
    BY <1>5, <1>8, <2>2 DEF EngineCalm
<1>10. ASSUME id = TabEngine PROVE TabCalm(d, m, w.tab, HasData(u, id), id = NoEngine)
  <2>1. TabCalm(d, n, w.tab, HasData(w, id), TRUE)
    BY <1>4, <1>10 DEF TabCalm
  <2>2. Borrowed(d)
    BY <1>1 DEF Borrowed
  <2>3. TabCalm(d, m, w.tab, HasData(w, id), FALSE)
    BY <1>1, <1>2, <1>3, <2>1, <2>2, TabOrderCalm DEF m, cmd, to
  <2> QED
    BY <1>5, <1>8, <2>3 DEF TabCalm
<1>11. /\ \A k \in Engines \ {id} : /\ u.q.data[k] = w.q.data[k] /\ u.net[k] = w.net[k]
                                    /\ HasData(u, k) <=> HasData(w, k)
       /\ ~u.q.refused /\ u.q.data[id] = d
  BY <1>6, <1>7, <1>8, CalmParts DEF d
<1>12. /\ id \in Own => /\ u.tab = w.tab
                        /\ EngineCalm(u.q.data[id], u.net[id], HasData(u, id), id = NoEngine)
       /\ id = TabEngine => TabCalm(u.q.data[id], u.net[id], u.tab, HasData(u, id), id = NoEngine)
  BY <1>6, <1>7, <1>9, <1>10, <1>11
<1>13. /\ Calm(u, NoEngine)
       /\ Still(w) /\ (id \in Own /\ ~u.q.data[id].active => Clean(u.net[id])) => Still(u)
  BY <1>11, <1>12, CalmOne
<1> QED
  BY <1>1, <1>6, <1>11, <1>13 DEF u, cmd, to, d

(* The tab is asked for its engine.                                        *)
LEMMA RequestCalm ==
    ASSUME NEW w, Book(w), NEW id \in Engines, Calm(w, id), Still(w),
           w.q.data[id].active, w.q.data[id].state = "waitprimary"
    PROVE  LET u == RequestExclusiveEngine(w)
           IN  Calm(u, NoEngine) /\ Still(u) /\ u.q = w.q
<1> DEFINE u == RequestExclusiveEngine(w)
           d == w.q.data[id]
           n == w.net[id]
<1>1. w \in Worlds /\ GoodData(id, d) /\ w.tab \in TabRec
  BY WorldParts DEF Book, DataOK
<1>2. id = TabEngine
  BY <1>1 DEF GoodData
<1>3. /\ u.net = w.net /\ u.q = w.q
      /\ u.tab.wants /\ u.tab.site = w.tab.site /\ u.tab.cmd = w.tab.cmd
      /\ u.tab.lock = (w.tab.lock \/ (~w.tab.wants /\ w.tab.cmd = "none"))
  BY <1>1, RequestSet
<1>4. TabCalm(d, n, w.tab, HasData(w, id), id = id)
  BY <1>2, CalmParts
<1>5. ~Borrowed(d) /\ d.state = "waitprimary"
  BY DEF Borrowed
<1>6. id # NoEngine /\ id \notin Own
  BY <1>2, OwnIn
<1>7. \A k : HasData(u, k) <=> HasData(w, k)
  BY <1>3 DEF HasData
<1> HIDE DEF u, d, n
<1>8. TabCalm(d, n, u.tab, HasData(u, id), id = NoEngine)
  BY <1>1, <1>3, <1>4, <1>5, <1>6, <1>7 DEF TabCalm, TabRec
<1>9. /\ \A k \in Engines \ {id} : /\ u.q.data[k] = w.q.data[k] /\ u.net[k] = w.net[k]
                                   /\ HasData(u, k) <=> HasData(w, k)
      /\ ~u.q.refused
  BY <1>3, <1>7, CalmParts
<1>10. TabCalm(u.q.data[id], u.net[id], u.tab, HasData(u, id), id = NoEngine)
  BY <1>3, <1>8 DEF d, n
<1>11. /\ Calm(u, NoEngine)
       /\ Still(w) /\ (id \in Own /\ ~u.q.data[id].active => Clean(u.net[id])) => Still(u)
  BY <1>6, <1>9, <1>10, CalmOne
<1> QED
  BY <1>3, <1>6, <1>11 DEF u

Tidy(w) == ~w.q.inside => ~Unused(w)

DecidedCalm(v, id) ==
    /\ Still(v.w) /\ Tidy(v.w)
    /\ v.next = "alone" => Calm(v.w, NoEngine)
    /\ v.next = "send" => Calm(v.w, id)
    /\ v.next \in Reasons => Calm(v.w, id) /\ Handled(v.w, id)

LEMMA FaultedCalm ==
    ASSUME NEW w, Book(w), NEW i \in Items, NEW h, Calm(w, h), Still(w)
    PROVE  LET u == Faulted(w, i)
           IN  Calm(u, h) /\ Still(u) /\ u.q = w.q /\ u.net = w.net /\ Book(u)
<1> DEFINE u == Faulted(w, i)
<1>1. Book(u) /\ u.q = w.q /\ u.tab = w.tab /\ u.net = w.net
  BY BookFaulted
<1> HIDE DEF u
<1>2. SameEngines(w, u) /\ u.q.refused = w.q.refused
  BY <1>1 DEF SameEngines
<1>3. Calm(u, h) /\ (Still(w) => Still(u))
  BY <1>1, <1>2, CalmSame
<1> QED
  BY <1>1, <1>3 DEF u

LEMMA TidySame ==
    ASSUME NEW w, NEW u, Tidy(w), u.q = w.q
    PROVE  Tidy(u)
<1>1. Unused(u) <=> Unused(w)
  BY DEF Unused, HasData, Data
<1> QED
  BY <1>1 DEF Tidy

(* A round of SendNextCommand.                                             *)
LEMMA SentCalm ==
    ASSUME NEW w, Book(w), NEW id \in Engines, Calm(w, id), Still(w), Tidy(w),
           w.q.data[id].item # NoItem, NEW v, SentNext(w, id, v)
    PROVE  DecidedCalm(v, id)
<1> DEFINE d == w.q.data[id]
           n == w.net[id]
<1>1. /\ d.active /\ GoodData(id, d) /\ d.item # NoItem /\ w \in Worlds /\ DataOK(w)
      /\ d.state # "list" => d.item \in Items
  BY ActiveHas DEF Book, DataOK
<1>2. d.item \in Items /\ d.state \notin {"list", "none"}
  BY <1>1 DEF GoodData
<1>3. CASE d.state = "waitprimary" /\ v.w = RequestExclusiveEngine(w) /\ v.next = "alone"
  <2>1. Calm(v.w, NoEngine) /\ Still(v.w) /\ v.w.q = w.q
    BY <1>1, <1>3, RequestCalm
  <2>2. Tidy(v.w)
    BY <2>1, TidySame
  <2> QED
    BY <1>3, <2>1, <2>2 DEF DecidedCalm, Reasons
<1>4. CASE /\ d.state # "waitprimary" /\ n.cmd = "none" /\ v.next = "alone"
           /\ d.state \in {"connect", "disconnect"} \/ IsConnected(w, id)
           /\ v.w = Execute(w, id, d.state, d.item)
  <2>1. Calm(v.w, NoEngine) /\ Still(v.w) /\ v.w.q = w.q
    BY <1>1, <1>4, ExecuteCalm
  <2>2. Tidy(v.w)
    BY <2>1, TidySame
  <2> QED
    BY <1>4, <2>1, <2>2 DEF DecidedCalm, Reasons
<1>4a. n.cmd = "none" \/ d.state = "waitprimary"
  <2>1. id \in Own => EngineCalm(d, n, HasData(w, id), id = id)
    BY CalmParts
  <2>2. id = TabEngine => TabCalm(d, n, w.tab, HasData(w, id), id = id)
    BY CalmParts
  <2>3. id \in Own \/ id = TabEngine
    BY OwnIn
  <2> HIDE DEF d, n
  <2>4. ASSUME id \in Own PROVE n.cmd = "none"
    BY <1>1, <2>1, <2>4 DEF EngineCalm, Clean
  <2>5. ASSUME id = TabEngine, d.state # "waitprimary" PROVE n.cmd = "none"
    BY <1>1, <2>2, <2>5 DEF TabCalm, Clean, Borrowed
  <2> QED
    BY <2>3, <2>4, <2>5
<1>5. CASE d.state = "connect" /\ v.w = SetState(w, id, "disconnect") /\ v.next = "send"
  <2>1. Calm(v.w, id) /\ Still(v.w)
    <3>1. PICK s \in {"connect", "disconnect", "transfer", "mkdir"} : s = "disconnect"
      OBVIOUS
    <3>2. d.active /\ d.state # "waitprimary"
      BY <1>1, <1>5
    <3>3. Calm(SetState(w, id, s), id) /\ Still(SetState(w, id, s))
      BY <3>1, <3>2, StateCalm
    <3> QED
      BY <1>5, <3>1, <3>3
  <2>2. Tidy(v.w)
    <3>1. PICK s \in States : s = "disconnect"
      BY DEF States
    <3> DEFINE u == SetState(w, id, s)
    <3>2. /\ u.q.data = [w.q.data EXCEPT ![id] = WithState(w.q.data[id], s)]
          /\ u.q.engines = w.q.engines /\ SameMode(w, u)
      <4>1. /\ u \in Worlds /\ u.item = w.item /\ u.tab = w.tab /\ u.net = w.net
            /\ u.q.data = [w.q.data EXCEPT ![id] = WithState(w.q.data[id], s)]
            /\ u.q.engines = w.q.engines
            /\ SameMode(w, u) /\ SameLists(w, u) /\ SameCounts(w, u)
        BY <1>1, StateViews
      <4> QED
        BY <4>1
    <3>3. d \in DataRec /\ w.q.data \in [Engines -> DataRec] /\ TabEngine \in Engines
      BY <1>1, DataType, WorldParts, OwnIn
    <3>4. WithState(d, s).active = d.active
      BY <3>3, WithStateType
    <3> HIDE DEF u
    <3>5. u.q.data[TabEngine].active = w.q.data[TabEngine].active
      BY <3>2, <3>3, <3>4
    <3>6. Unused(u) <=> Unused(w)
      BY <3>2, <3>5 DEF Unused, HasData, Data
    <3>7. Tidy(u)
      BY <3>2, <3>6 DEF Tidy, SameMode
    <3> QED
      BY <1>5, <3>1, <3>7 DEF u
  <2> QED
    BY <1>5, <2>1, <2>2 DEF DecidedCalm, Reasons
<1>6. CASE /\ d.state \notin {"waitprimary", "disconnect"} /\ v.next \in {"send", "failure"}
           /\ n.cmd # "none" \/ (d.state # "connect" /\ ~IsConnected(w, id))
           /\ v.w = Faulted(w, d.item) \/ v.w = w
  <2>1. Calm(v.w, id) /\ Still(v.w) /\ v.w.q = w.q
    BY <1>2, <1>6, FaultedCalm
  <2>2. Tidy(v.w)
    BY <2>1, TidySame
  <2>3. Handled(v.w, id)
    BY <1>1, <1>6, <2>1 DEF Handled
  <2> QED
    BY <1>6, <2>1, <2>2, <2>3 DEF DecidedCalm
<1> QED
  BY <1>3, <1>4, <1>4a, <1>5, <1>6 DEF SentNext

(* A reply is handled.                                                     *)
LEMMA HandledSame ==
    ASSUME NEW w, NEW u, NEW id \in Engines, Handled(w, id),
           u.q.data[id].active = w.q.data[id].active, u.q.data[id].state = w.q.data[id].state,
           u.net[id].server = w.net[id].server
    PROVE  Handled(u, id)
BY DEF Handled

LEMMA StateTidy ==
    ASSUME NEW w, Book(w), NEW id \in Engines, NEW s \in States, ~Unused(w)
    PROVE  ~Unused(SetState(w, id, s))
<1> DEFINE u == SetState(w, id, s)
<1>1. w \in Worlds /\ w.q.data[id] \in DataRec /\ w.q.data \in [Engines -> DataRec]
      /\ TabEngine \in Engines
  BY DataType, WorldParts, OwnIn DEF Book
<1>2. /\ u \in Worlds /\ u.item = w.item /\ u.tab = w.tab /\ u.net = w.net
      /\ u.q.data = [w.q.data EXCEPT ![id] = WithState(w.q.data[id], s)]
      /\ u.q.engines = w.q.engines
      /\ SameMode(w, u) /\ SameLists(w, u) /\ SameCounts(w, u)
  BY <1>1, StateViews
<1>3. WithState(w.q.data[id], s).active = w.q.data[id].active
  BY <1>1, WithStateType
<1> HIDE DEF u
<1>4. u.q.data[TabEngine].active = w.q.data[TabEngine].active
  BY <1>1, <1>2, <1>3
<1>5. Unused(u) <=> Unused(w)
  BY <1>2, <1>4 DEF Unused, HasData, Data
<1> QED
  BY <1>5 DEF u

LEMMA StoppedCalm ==
    ASSUME NEW w, Book(w), NEW id \in Engines, Calm(w, id), Still(w), Handled(w, id), ~Unused(w)
    PROVE  LET u == Deactivate(w)
           IN  Calm(u, id) /\ Still(u) /\ Handled(u, id) /\ ~Unused(u)
<1> DEFINE u == Deactivate(w)
<1>1. Halted(w, u)
  BY DeactivateViews
<1>2. w.q.data[id].active /\ w.q.data[id].state # "waitprimary"
  BY DEF Handled
<1> HIDE DEF u
<1>3. Calm(u, id) /\ (Still(w) => Still(u)) /\ (Unused(u) => Unused(w))
  BY <1>1, <1>2, HaltedCalm
<1>4. Alike(w.q.data[id], u.q.data[id])
  <2>1. CASE id = TabEngine
    BY <1>1, <1>2, <2>1, AlikeSelf DEF Halted, SameTab, GivesBack
  <2>2. CASE id \in Own
    BY <1>1, <2>2 DEF Halted
  <2> QED
    BY <2>1, <2>2, OwnIn
<1>5. u.net[id].server = w.net[id].server
  <2>1. w.net[id] \in NetRec
    BY NetType DEF Book
  <2> QED
    BY <1>1, <2>1 DEF Halted, Cancelled, NetRec
<1>6. Handled(u, id)
  BY <1>4, <1>5, HandledSame DEF Alike
<1> QED
  BY <1>3, <1>6 DEF u

LEMMA AnsweredCalm ==
    ASSUME NEW w, Book(w), NEW id \in Engines, Calm(w, id), Still(w), Handled(w, id), ~Unused(w),
           NEW r, NEW v, Answered(w, id, r, v)
    PROVE  DecidedCalm(v, id)
<1> DEFINE d == w.q.data[id]
<1>1. /\ d.active /\ d.state # "waitprimary" /\ GoodData(id, d)
      /\ d.state # "list" => d.item \in Items
      /\ id \in Own /\ d.state = "disconnect" => w.net[id].server = NoSite
  BY ActiveHas DEF Handled, Book, DataOK
<1>2. d.state # "none"
  BY <1>1 DEF GoodData
<1>3. ASSUME Calm(v.w, id), Still(v.w), Handled(v.w, id), ~Unused(v.w),
             v.next \in Reasons \cup {"send"}
      PROVE  DecidedCalm(v, id)
  BY <1>3 DEF DecidedCalm, Tidy, Reasons
<1>4. ASSUME NEW i \in Items, v.w = Faulted(w, i)
      PROVE  Calm(v.w, id) /\ Still(v.w) /\ Handled(v.w, id) /\ ~Unused(v.w)
  <2>1. Calm(v.w, id) /\ Still(v.w) /\ v.w.q = w.q /\ v.w.net = w.net
    BY <1>4, FaultedCalm
  <2>2. Handled(v.w, id)
    BY <2>1, HandledSame
  <2>3. ~Unused(v.w)
    BY <2>1 DEF Unused, HasData, Data
  <2> QED
    BY <2>1, <2>2, <2>3
<1>5. ASSUME NEW s \in {"connect", "transfer", "mkdir"}, v.w = SetState(w, id, s),
             id \in Own => d.state # "disconnect" \/ w.net[id].server = NoSite
      PROVE  Calm(v.w, id) /\ Still(v.w) /\ Handled(v.w, id) /\ ~Unused(v.w)
  <2>1. s \in {"connect", "disconnect", "transfer", "mkdir"} /\ s # "disconnect" /\ s \in States
    BY <1>5 DEF States
  <2>2. Calm(v.w, id) /\ Still(v.w) /\ Handled(v.w, id)
    BY <1>1, <1>5, <2>1, StateCalm
  <2>3. ~Unused(v.w)
    BY <1>5, <2>1, StateTidy
  <2> QED
    BY <2>2, <2>3
<1>6. ASSUME v.w = w PROVE Calm(v.w, id) /\ Still(v.w) /\ Handled(v.w, id) /\ ~Unused(v.w)
  BY <1>6
<1>7. ASSUME v.w = Deactivate(w)
      PROVE  Calm(v.w, id) /\ Still(v.w) /\ Handled(v.w, id) /\ ~Unused(v.w)
  BY <1>7, StoppedCalm
<1>8. Onward(w) \subseteq Reasons \cup {"send"}
  BY DEF Onward, Reasons
<1>9. v.next \in Reasons \cup {"send"}
  BY <1>1, <1>2, <1>8 DEF Answered, Reasons
<1>10. Work(d.item) \in {"transfer", "mkdir"}
  BY WorkType
<1>11. \/ v.w = Deactivate(w) \/ v.w = w
       \/ d.item \in Items /\ v.w = Faulted(w, d.item)
       \/ d.state = "disconnect" /\ v.w = SetState(w, id, "connect")
       \/ d.state = "connect" /\ v.w = SetState(w, id, Work(d.item))
  BY <1>1, <1>2 DEF Answered
<1>12. CASE d.state = "disconnect" /\ v.w = SetState(w, id, "connect")
  <2>1. PICK s \in {"connect", "transfer", "mkdir"} : s = "connect"
    OBVIOUS
  <2> QED
    BY <1>1, <1>3, <1>5, <1>9, <1>12, <2>1
<1>13. CASE d.state = "connect" /\ v.w = SetState(w, id, Work(d.item))
  BY <1>3, <1>5, <1>9, <1>10, <1>13
<1>14. CASE v.w = Deactivate(w) \/ v.w = w \/ (d.item \in Items /\ v.w = Faulted(w, d.item))
  BY <1>3, <1>4, <1>6, <1>7, <1>9, <1>14
<1> QED
  BY <1>11, <1>12, <1>13, <1>14

(* What a handler leaves.                                                  *)
Peace(w) ==
    /\ Calm(w, w.q.sending) /\ Tidy(w)
    /\ Still(w) \/ (w.q.sending = NoEngine /\ ~w.q.inside)

LEMMA SendingCalm ==
    ASSUME NEW w \in Worlds, NEW h, Calm(w, h), Still(w), NEW x \in Engines \cup {NoEngine}
    PROVE  LET u == [w EXCEPT !.q.sending = x]
           IN  /\ Calm(u, h) /\ Still(u) /\ (Unused(u) <=> Unused(w))
               /\ u.q.inside = w.q.inside /\ u.q.sending = x
               /\ u.q.data = w.q.data /\ u.net = w.net
<1> DEFINE u == [w EXCEPT !.q.sending = x]
<1>1. /\ u \in Worlds /\ u.q = [w.q EXCEPT !.sending = x]
      /\ u.item = w.item /\ u.tab = w.tab /\ u.net = w.net
      /\ u.q.mode = w.q.mode /\ u.q.inside = w.q.inside /\ u.q.refused = w.q.refused
      /\ u.q.refreshed = w.q.refreshed /\ u.q.servers = w.q.servers
      /\ u.q.sending = x /\ SameEngines(w, u) /\ SameCounts(w, u) /\ SameLists(w, u)
  BY SendingSet
<1> HIDE DEF u
<1>2. Calm(u, h) /\ (Still(w) => Still(u)) /\ (Unused(u) <=> Unused(w))
  BY <1>1, CalmSame
<1> QED
  BY <1>1, <1>2 DEF u, SameEngines

LEMMA AdvanceCalm ==
    ASSUME NEW w, Book(w), Calm(w, NoEngine), Still(w), w.q.sending = NoEngine
    PROVE  Peace(AdvanceQueue(w))
<1> DEFINE u == AdvanceQueue(w)
<1>1. /\ Book(u) /\ u.item = w.item /\ u.tab = w.tab /\ u.net = w.net
      /\ u.q.mode = w.q.mode /\ u.q.sending = w.q.sending /\ u.q.refused = w.q.refused
      /\ u.q.inside /\ SameEngines(w, u) /\ SameCounts(w, u) /\ SameLists(w, u)
  BY AdvancedViews
<1> HIDE DEF u
<1>2. Calm(u, NoEngine) /\ (Still(w) => Still(u))
  BY <1>1, CalmSame
<1>3. Peace(u)
  BY <1>1, <1>2 DEF Peace, Tidy
<1> QED
  BY <1>3 DEF u

LEMMA DoneCalm ==
    ASSUME NEW v, NEW id \in Engines, BookDecided(v, id), DecidedCalm(v, id)
    PROVE  Peace(Done(v, id))
<1> DEFINE w == v.w
           u == [w EXCEPT !.q.sending = NoEngine]
           s == [w EXCEPT !.q.sending = id]
<1>1. Book(w) /\ w \in Worlds /\ Still(w) /\ Tidy(w) /\ v.next \in Nexts
  BY DEF BookDecided, DecidedCalm, Book
<1> HIDE DEF w
<1>2. CASE v.next = "alone"
  <2>1. Calm(w, NoEngine) /\ Done(v, id) = u
    BY <1>2 DEF DecidedCalm, Done, w
  <2>2. /\ Calm(u, NoEngine) /\ Still(u) /\ (Unused(u) <=> Unused(w))
        /\ u.q.inside = w.q.inside /\ u.q.sending = NoEngine
    BY <1>1, <2>1, SendingCalm
  <2> HIDE DEF u
  <2> QED
    BY <1>1, <2>1, <2>2 DEF Peace, Tidy
<1>3. CASE v.next = "send"
  <2>1. Calm(w, id) /\ Done(v, id) = s
    BY <1>3 DEF DecidedCalm, Done, w
  <2>2. /\ Calm(s, id) /\ Still(s) /\ (Unused(s) <=> Unused(w))
        /\ s.q.inside = w.q.inside /\ s.q.sending = id
    BY <1>1, <2>1, SendingCalm
  <2> HIDE DEF s
  <2> QED
    BY <1>1, <2>1, <2>2 DEF Peace, Tidy
<1>4. CASE v.next \in Reasons
  <2> DEFINE reason == v.next
  <2>1. Calm(w, id) /\ Handled(w, id) /\ Done(v, id) = ResetEngine(u, id, reason)
    BY <1>4 DEF DecidedCalm, Done, w, Reasons
  <2>2. /\ Calm(u, id) /\ Still(u) /\ u.q.sending = NoEngine
        /\ u.q.data = w.q.data /\ u.net = w.net
    BY <1>1, <2>1, SendingCalm
  <2>3. Book(u)
    BY <1>1, BookSets
  <2> HIDE DEF u, reason
  <2>4. reason \in Reasons
    BY <1>4 DEF reason
  <2>5. Handled(u, id)
    BY <2>1, <2>2, HandledSame
  <2> DEFINE z == Reset(u, id, reason)
  <2>6. Calm(z, NoEngine) /\ Still(z)
    BY <2>2, <2>3, <2>4, <2>5, ResetCalm
  <2>7. u.q.data[id].active
    BY <2>5 DEF Handled
  <2>8. Book(z)
    BY <2>3, <2>4, <2>7, BookReset
  <2>9. z.q.sending = NoEngine
    <3>1. u \in Worlds
      BY <2>3 DEF Book
    <3>2. FreedData(u, z, id)
      BY <2>4, <3>1, ResetViews
    <3> HIDE DEF z
    <3> QED
      BY <2>2, <3>2 DEF FreedData, SameMode
  <2>10. ResetEngine(u, id, reason) = AdvanceQueue(z)
    BY <2>7 DEF ResetEngine, Data
  <2> HIDE DEF z
  <2>11. Peace(AdvanceQueue(z))
    BY <2>6, <2>8, <2>9, AdvanceCalm
  <2> QED
    BY <2>1, <2>10, <2>11
<1> QED
  BY <1>1, <1>2, <1>3, <1>4 DEF Nexts
-----------------------------------------------------------------------------
(* The engines' threads: an engine begins a command, or it ends it with    *)
(* a reply.                                                                *)
Begins(n, m, site) ==
    /\ m.cmd = n.cmd /\ m.to = n.to /\ m.inbox = n.inbox /\ (m.late => n.late)
    /\ m.server = n.server \/ (n.cmd = "connect" /\ m.server = site)

Ends(n, m) ==
    /\ n.cmd # "none" /\ m.cmd = "none" /\ ~m.late
    /\ \E r \in Replies : m.inbox = Append(n.inbox, r) /\ r.cmd = n.cmd /\ r.to = n.to
    /\ m.server \in {n.server, NoSite} /\ (n.cmd = "disconnect" => m.server = NoSite)

LEMMA EndsDue ==
    ASSUME NEW n \in NetRec, NEW m, Ends(n, m), NEW cmd, NEW to, Due(n, cmd, to)
    PROVE  Due(m, cmd, to) /\ n.cmd = cmd
<1>1. n.inbox = <<>> /\ n.cmd = cmd /\ n.to = to /\ m.cmd = "none"
  BY DEF Ends, Due
<1>2. PICK r \in Replies : m.inbox = Append(n.inbox, r) /\ r.cmd = n.cmd /\ r.to = n.to
  BY DEF Ends
<1>3. m.inbox = <<r>>
  BY <1>1, <1>2
<1>4. Len(m.inbox) = 1 /\ m.inbox[1] = r
  <2> HIDE DEF Replies
  <2> QED
    BY <1>3
<1> QED
  BY <1>1, <1>2, <1>4 DEF Due

LEMMA StepCalm ==
    ASSUME NEW d, NEW n \in NetRec, NEW m, NEW has, NEW held, EngineCalm(d, n, has, held),
           NEW site, Begins(n, m, site) \/ Ends(n, m),
           d.active /\ n.cmd = "connect" /\ n.to = d.item => site = d.site
    PROVE  EngineCalm(d, m, has, held) /\ (Clean(n) => Clean(m))
<1>1. CASE Begins(n, m, site)
  <2>1. Clean(m) <=> Clean(n)
    BY <1>1 DEF Clean, Begins
  <2>2. \A cmd, to : Due(m, cmd, to) <=> Due(n, cmd, to)
    BY <1>1 DEF Due, Begins
  <2>3. m.server # n.server => n.cmd = "connect" /\ m.server = site
    BY <1>1 DEF Begins
  <2>4. n.cmd = "connect" => d.active /\ d.state = "connect" /\ n.to = d.item
    BY DEF EngineCalm, Clean, Due
  <2>5. d.state # "disconnect" => m.server \in {NoSite, d.site}
    BY <2>3, <2>4 DEF EngineCalm
  <2>6. /\ d.active => IF held THEN Clean(m) ELSE Due(m, d.state, d.item)
        /\ ~d.active => Clean(m) \/ Due(m, "disconnect", NoItem)
    BY <2>1, <2>2 DEF EngineCalm
  <2>7. /\ m.late => m.cmd # "none"
        /\ m.cmd \in {"transfer", "mkdir", "list"} => m.server # NoSite
        /\ d.state = "disconnect" /\ ~held /\ m.cmd = "none" => m.server = NoSite
        /\ ~has => m.server = NoSite /\ Clean(m)
    <3>1. m.cmd = n.cmd /\ (m.late => n.late) /\ (m.server = n.server \/ n.cmd = "connect")
      BY <1>1 DEF Begins
    <3>2. ~has => n.cmd # "connect"
      BY DEF EngineCalm, Clean
    <3> QED
      BY <2>1, <3>1, <3>2 DEF EngineCalm
  <2> QED
    BY <2>1, <2>5, <2>6, <2>7 DEF EngineCalm
<1>2. CASE Ends(n, m)
  <2>1. ~Clean(n) /\ m.cmd = "none" /\ ~m.late
        /\ m.server \in {n.server, NoSite} /\ (n.cmd = "disconnect" => m.server = NoSite)
    BY <1>2 DEF Clean, Ends
  <2>2. \A cmd, to : Due(n, cmd, to) => Due(m, cmd, to) /\ n.cmd = cmd
    BY <1>2, EndsDue
  <2>3. has /\ (d.active => ~held /\ Due(n, d.state, d.item))
        /\ (~d.active => Due(n, "disconnect", NoItem))
    BY <2>1 DEF EngineCalm
  <2>4. (d.active => Due(m, d.state, d.item) /\ n.cmd = d.state)
        /\ (~d.active => Due(m, "disconnect", NoItem) /\ n.cmd = "disconnect")
    BY <2>2, <2>3
  <2> QED
    BY <2>1, <2>3, <2>4 DEF EngineCalm
<1> QED
  BY <1>1, <1>2

LEMMA TabStepCalm ==
    ASSUME NEW d, NEW n \in NetRec, NEW m, NEW t, NEW has, NEW held, TabCalm(d, n, t, has, held),
           NEW site, Begins(n, m, site) \/ Ends(n, m), site = t.site
    PROVE  TabCalm(d, m, t, has, held)
<1>1. CASE Begins(n, m, site)
  <2>1. Clean(m) <=> Clean(n)
    BY <1>1 DEF Clean, Begins
  <2>2. \A cmd, to : Due(m, cmd, to) <=> Due(n, cmd, to)
    BY <1>1 DEF Due, Begins
  <2>3. m.server # n.server => n.cmd = "connect" /\ m.server = site
    BY <1>1 DEF Begins
  <2>4. t.cmd # "disconnect" => m.server \in {NoSite, t.site}
    BY <2>3 DEF TabCalm
  <2>5. \A cmd, to : Due(n, cmd, to) /\ n.cmd # "none" => n.cmd = cmd
    BY DEF Due
  <2>6. t.cmd = "disconnect" /\ n.cmd = "none" => m.server = NoSite
    BY <2>3 DEF TabCalm
  <2> QED
    BY <1>1, <2>1, <2>2, <2>3, <2>4, <2>6 DEF TabCalm, Begins
<1>2. CASE Ends(n, m)
  <2>1. ~Clean(n) /\ m.cmd = "none" /\ ~m.late
        /\ m.server \in {n.server, NoSite} /\ (n.cmd = "disconnect" => m.server = NoSite)
    BY <1>2 DEF Clean, Ends
  <2>2. \A cmd, to : Due(n, cmd, to) => Due(m, cmd, to) /\ n.cmd = cmd
    BY <1>2, EndsDue
  <2>3. CASE Borrowed(d)
    <3>1. ~held /\ Due(n, d.state, d.item)
      BY <2>1, <2>3 DEF TabCalm
    <3>2. Due(m, d.state, d.item)
      BY <2>2, <3>1
    <3>3. t.cmd # "disconnect"
      BY <2>3 DEF TabCalm
    <3> QED
      BY <2>1, <2>3, <3>1, <3>2, <3>3 DEF TabCalm
  <2>4. CASE ~Borrowed(d)
    <3>1. t.cmd # "none" /\ \E to \in Aims : Due(n, t.cmd, to)
      BY <2>1, <2>4 DEF TabCalm
    <3>2. PICK to \in Aims : Due(n, t.cmd, to)
      BY <3>1
    <3>3. Due(m, t.cmd, to) /\ n.cmd = t.cmd
      BY <2>2, <3>2
    <3> QED
      BY <2>1, <2>4, <3>1, <3>3 DEF TabCalm
  <2> QED
    BY <2>3, <2>4
<1> QED
  BY <1>1, <1>2
(* Nothing is withdrawn, and handlers do not run while an engine that has  *)
(* been idle disconnects.                                                  *)
Undisturbed == env \cap {"race", "withdraw"} = {}
CalmInv == Undisturbed => \E w \in {World} : Peace(w)

LEMMA CalmWorld ==
    ASSUME CalmInv, Undisturbed
    PROVE  Peace(World)
BY DEF CalmInv

LEMMA CalmBecomes ==
    ASSUME NEW w, Book(w), Becomes(w), UNCHANGED env, Undisturbed => Peace(w)
    PROVE  CalmInv'
<1>1. World' = w
  BY Becoming DEF Book
<1> QED
  BY <1>1 DEF CalmInv, Undisturbed

LEMMA EndsAlike ==
    ASSUME NEW n, NEW k, NEW m, Ends(n, m), k.cmd = n.cmd, k.to = n.to, k.inbox = n.inbox,
           k.server = n.server
    PROVE  Ends(k, m)
BY DEF Ends

LEMMA EndedEnds ==
    ASSUME NEW n \in NetRec, n.cmd # "none", ~n.late, NEW code \in Codes, NEW progress \in BOOLEAN
    PROVE  LET m == Ended(n, code, progress)
           IN  /\ Ends(n, m)
               /\ \A s \in {n.server, NoSite} :
                      n.cmd # "disconnect" => Ends(n, [m EXCEPT !.server = s])
<1> DEFINE m == Ended(n, code, progress)
           r == [cmd |-> n.cmd, to |-> n.to, code |-> code, progress |-> progress]
<1>1. /\ m \in NetRec /\ m.cmd = "none" /\ m.cancel = n.cancel /\ m.late = n.late
      /\ m.inbox = Reply(n, code, progress)
      /\ m.server = IF n.cmd = "disconnect" THEN NoSite ELSE n.server
  BY EndedType
<1>2. r \in Replies /\ r.cmd = n.cmd /\ r.to = n.to
  BY DEF Replies, NetRec
<1>3. m.inbox = Append(n.inbox, r)
  BY <1>1 DEF Reply
<1> HIDE DEF m, r
<1>4. Ends(n, m)
  BY <1>1, <1>2, <1>3 DEF Ends
<1>5. ASSUME NEW s \in {n.server, NoSite}, n.cmd # "disconnect"
      PROVE  Ends(n, [m EXCEPT !.server = s])
  <2> DEFINE k == [m EXCEPT !.server = s]
  <2>1. k.cmd = m.cmd /\ k.late = m.late /\ k.inbox = m.inbox /\ k.server = s
    BY <1>1 DEF NetRec
  <2> HIDE DEF k
  <2>2. Ends(n, k)
    BY <1>1, <1>2, <1>3, <1>5, <2>1 DEF Ends
  <2> QED
    BY <2>2 DEF k
<1> QED
  BY <1>4, <1>5 DEF m

(* What a step of an engine is.                                            *)
EngineMoves(id, n, m) ==
    /\ Change(id, m) /\ UNCHANGED <<q, tab, env>>
    /\ Begins(n, m, Target(id)) \/ Ends(n, m)

LEMMA BeginsMoves ==
    ASSUME BookInv, NEW id \in Engines, EngineBegins(id)
    PROVE  \E m : EngineMoves(id, net[id], m)
<1> DEFINE n == net[id]
           s == Target(id)
           m == [n EXCEPT !.server = s]
<1>1. n \in NetRec
  BY NetOf
<1>2. n.cmd = "connect" /\ Change(id, m) /\ UNCHANGED <<q, tab, env>>
  BY DEF EngineBegins
<1> HIDE DEF n, s
<1>3. m.cmd = n.cmd /\ m.to = n.to /\ m.inbox = n.inbox /\ m.late = n.late /\ m.server = s
  BY <1>1 DEF NetRec
<1> HIDE DEF m
<1>4. Begins(n, m, s)
  BY <1>2, <1>3 DEF Begins
<1> QED
  BY <1>2, <1>4 DEF EngineMoves, n, s

LEMMA SucceedsMoves ==
    ASSUME BookInv, NEW id \in Engines, EngineSucceeds(id)
    PROVE  \E m : EngineMoves(id, net[id], m)
<1>1. net[id] \in NetRec
  BY NetOf
<1>2. net[id].cmd # "none" /\ ~net[id].late /\ Change(id, Ended(net[id], "ok", FALSE))
      /\ UNCHANGED <<q, tab, env>>
  BY DEF EngineSucceeds, Runs
<1>3. PICK code \in Codes, no \in BOOLEAN : code = "ok" /\ no = FALSE
  BY DEF Codes
<1>4. Ends(net[id], Ended(net[id], code, no))
  BY <1>1, <1>2, EndedEnds
<1> QED
  BY <1>2, <1>3, <1>4 DEF EngineMoves

LEMMA FailsMoves ==
    ASSUME BookInv, NEW id \in Engines, EngineFails(id)
    PROVE  \E m : EngineMoves(id, net[id], m)
<1>1. net[id] \in NetRec
  BY NetOf
<1>2. net[id].cmd # "none" /\ ~net[id].late /\ UNCHANGED <<q, tab, env>>
  BY DEF EngineFails, Runs
<1>3. PICK code \in Failures(net[id].cmd), progress \in BOOLEAN :
         Change(id, Ended(net[id], code, progress))
  BY DEF EngineFails
<1>4. code \in Codes
  BY DEF Failures, Codes
<1>5. Ends(net[id], Ended(net[id], code, progress))
  BY <1>1, <1>2, <1>4, EndedEnds
<1> QED
  BY <1>2, <1>3, <1>5 DEF EngineMoves

LEMMA CancelsMoves ==
    ASSUME BookInv, NEW id \in Engines, EngineCancels(id)
    PROVE  \E m : EngineMoves(id, net[id], m)
<1> DEFINE o == net[id]
           n == [o EXCEPT !.cancel = FALSE]
<1>1. o \in NetRec
  BY NetOf
<1>2. UNCHANGED <<q, tab, env>> /\ ~n.late /\ n.cmd # "disconnect"
      /\ \/ n.cmd = "none" /\ Change(id, n)
         \/ n.cmd # "none" /\ \E server \in {n.server, NoSite} :
                Change(id, [Ended(n, "canceled", FALSE) EXCEPT !.server = server])
  BY DEF EngineCancels
<1> HIDE DEF o
<1>3. n \in NetRec /\ n.cmd = o.cmd /\ n.to = o.to /\ n.server = o.server
      /\ n.late = o.late /\ n.inbox = o.inbox
  BY <1>1, CancelFlag
<1> HIDE DEF n
<1>4. CASE n.cmd = "none" /\ Change(id, n)
  <2>1. Begins(o, n, Target(id))
    BY <1>3 DEF Begins
  <2> QED
    BY <1>2, <1>4, <2>1 DEF EngineMoves, o
<1>5. CASE n.cmd # "none" /\ \E server \in {n.server, NoSite} :
               Change(id, [Ended(n, "canceled", FALSE) EXCEPT !.server = server])
  <2>1. PICK server \in {n.server, NoSite} :
            Change(id, [Ended(n, "canceled", FALSE) EXCEPT !.server = server])
    BY <1>5
  <2>2. PICK code \in Codes, no \in BOOLEAN : code = "canceled" /\ no = FALSE
    BY DEF Codes
  <2> DEFINE m == [Ended(n, code, no) EXCEPT !.server = server]
  <2>3. Ends(n, m)
    BY <1>2, <1>3, <1>5, EndedEnds
  <2>4. Change(id, m)
    BY <2>1, <2>2
  <2> HIDE DEF m
  <2>5. Ends(o, m)
    BY <1>3, <2>3, EndsAlike
  <2> QED
    BY <1>2, <2>4, <2>5 DEF EngineMoves, o
<1> QED
  BY <1>2, <1>4, <1>5

LEMMA CancelsLateMoves ==
    ASSUME BookInv, NEW id \in Engines, EngineCancelsLate(id), net[id].cmd # "none"
    PROVE  \E m : EngineMoves(id, net[id], m)
<1> DEFINE o == net[id]
           n == [o EXCEPT !.late = FALSE]
<1>1. o \in NetRec
  BY NetOf
<1>2. UNCHANGED <<q, tab, env>> /\ (Change(id, n) \/ Change(id, Ended(n, "canceled", FALSE)))
  BY DEF EngineCancelsLate
<1>2a. o.cmd # "none"
  OBVIOUS
<1> HIDE DEF o
<1>3. n \in NetRec /\ n.cmd = o.cmd /\ n.to = o.to /\ n.server = o.server
      /\ ~n.late /\ n.inbox = o.inbox
  BY <1>1, CancelFlag
<1> HIDE DEF n
<1>4. CASE Change(id, n)
  <2>1. Begins(o, n, Target(id))
    BY <1>3 DEF Begins
  <2> QED
    BY <1>2, <1>4, <2>1 DEF EngineMoves, o
<1>5. CASE Change(id, Ended(n, "canceled", FALSE))
  <2>1. PICK code \in Codes, no \in BOOLEAN : code = "canceled" /\ no = FALSE
    BY DEF Codes
  <2>2. Ends(n, Ended(n, code, no))
    BY <1>2a, <1>3, EndedEnds
  <2>3. Ends(o, Ended(n, code, no))
    BY <1>3, <2>2, EndsAlike
  <2> QED
    BY <1>2, <1>5, <2>1, <2>3 DEF EngineMoves, o
<1> QED
  BY <1>2, <1>4, <1>5

LEMMA MovesCalm ==
    ASSUME BookInv, CalmInv, NEW id \in Engines, NEW m, EngineMoves(id, net[id], m)
    PROVE  CalmInv'
<1> SUFFICES ASSUME Undisturbed', NEW u, u = World' PROVE Peace(u)
  BY DEF CalmInv
<1> DEFINE w == World
           d == w.q.data[id]
           n == w.net[id]
           h == w.q.sending
<1>1. Book(w) /\ w \in Worlds /\ w.q = q /\ w.tab = tab /\ w.net = net
  BY InvWorld
<1>2. Undisturbed
  BY DEF EngineMoves, Undisturbed
<1>3. Calm(w, h) /\ Tidy(w) /\ (Still(w) \/ (h = NoEngine /\ ~w.q.inside))
  BY <1>2, CalmWorld DEF Peace
<1>4. n \in NetRec /\ w.net \in [Engines -> NetRec]
  BY <1>1, NetType, WorldParts
<1>5. u.q = w.q /\ u.tab = w.tab /\ u.net = [w.net EXCEPT ![id] = m]
  BY <1>1 DEF World, EngineMoves, Change
<1>6. Begins(n, m, Target(id)) \/ Ends(n, m)
  BY <1>1 DEF EngineMoves
<1>7. /\ \A e \in Own : EngineCalm(w.q.data[e], w.net[e], HasData(w, e), e = h)
      /\ TabCalm(w.q.data[TabEngine], w.net[TabEngine], w.tab, HasData(w, TabEngine), TabEngine = h)
      /\ ~w.q.refused
  BY <1>3, CalmParts
<1>8. ASSUME id \in Own, d.active, n.cmd = "connect", n.to = d.item
      PROVE  Target(id) = d.site
  <2>1. id # TabEngine /\ n.to \in Items
    BY <1>1, <1>8, NetOf DEF Own
  <2>2. d.item # NoItem
    BY <1>8, <2>1, QueueAssumption
  <2>3. d.site = SiteOf[d.item]
    BY <1>1, <2>2 DEF Book, ItemsOK
  <2> QED
    BY <1>1, <1>8, <2>1, <2>3 DEF Target
<1>9. u.net[id] = m /\ \A e \in Engines \ {id} : u.net[e] = w.net[e]
  BY <1>4, <1>5
<1>10. \A e : HasData(u, e) = HasData(w, e)
  BY <1>5 DEF HasData
<1> HIDE DEF w
<1>11. id \in Own => /\ EngineCalm(d, m, HasData(u, id), id = h)
                     /\ Clean(n) => Clean(m)
  <2> SUFFICES ASSUME id \in Own
               PROVE  EngineCalm(d, m, HasData(u, id), id = h) /\ (Clean(n) => Clean(m))
    OBVIOUS
  <2>1. PICK has, held : has = HasData(w, id) /\ held = (id = h)
    OBVIOUS
  <2>2. EngineCalm(d, n, has, held)
    BY <1>7, <2>1
  <2> HIDE DEF d, n, h
  <2>3. EngineCalm(d, m, has, held) /\ (Clean(n) => Clean(m))
    BY <1>4, <1>6, <1>8, <2>2, StepCalm
  <2> QED
    BY <1>10, <2>1, <2>3
<1>12. id = TabEngine => TabCalm(d, m, u.tab, HasData(u, id), id = h)
  <2> SUFFICES ASSUME id = TabEngine PROVE TabCalm(d, m, w.tab, HasData(u, id), id = h)
    BY <1>5
  <2>1. PICK has, held : has = HasData(w, id) /\ held = (id = h)
    OBVIOUS
  <2>2. TabCalm(d, n, w.tab, has, held)
    BY <1>7, <2>1
  <2>3. Target(id) = w.tab.site
    BY <1>1 DEF Target
  <2> HIDE DEF d, n, h
  <2>4. TabCalm(d, m, w.tab, has, held)
    BY <1>4, <1>6, <2>2, <2>3, TabStepCalm
  <2> QED
    BY <1>10, <2>1, <2>4
<1>13. /\ Calm(u, h)
       /\ Still(w) /\ (id \in Own /\ ~u.q.data[id].active => Clean(u.net[id])) => Still(u)
  <2>1. \A e \in Engines \ {id} : /\ u.q.data[e] = w.q.data[e] /\ u.net[e] = w.net[e]
                                  /\ HasData(u, e) <=> HasData(w, e)
    BY <1>5, <1>9, <1>10
  <2>2. ~u.q.refused /\ u.q.data[id] = d
    BY <1>5, <1>7
  <2>3. id \in Own => /\ u.tab = w.tab
                      /\ EngineCalm(u.q.data[id], u.net[id], HasData(u, id), id = h)
    BY <1>5, <1>9, <1>11, <2>2
  <2>4. id = TabEngine => TabCalm(u.q.data[id], u.net[id], u.tab, HasData(u, id), id = h)
    BY <1>9, <1>12, <2>2
  <2> HIDE DEF h, d, n
  <2> QED
    BY <1>3, <2>1, <2>2, <2>3, <2>4, CalmOne
<1>14. Still(w) => Still(u)
  BY <1>5, <1>9, <1>11, <1>13 DEF Still
<1>15. Tidy(u)
  BY <1>3, <1>5, TidySame
<1> QED
  BY <1>3, <1>5, <1>13, <1>14, <1>15 DEF Peace

LEMMA EngineStepsMove ==
    ASSUME BookInv, CalmInv, Undisturbed, NEW id \in Engines, EngineSteps(id)
    PROVE  \E m : EngineMoves(id, net[id], m)
<1>1. net[id].late => net[id].cmd # "none"
  <2>1. World.net = net
    BY InvWorld
  <2>2. Calm(World, q.sending)
    BY CalmWorld, InvWorld DEF Peace
  <2>3. id \in Own \/ id = TabEngine
    BY OwnIn
  <2> QED
    BY <2>1, <2>2, <2>3, CalmParts DEF EngineCalm, TabCalm
<1> QED
  BY <1>1, BeginsMoves, SucceedsMoves, FailsMoves, CancelsMoves, CancelsLateMoves
     DEF EngineSteps, EngineCancelsLate

LEMMA EngineStepsCalm ==
    ASSUME BookInv, CalmInv, NEW id \in Engines, EngineSteps(id)
    PROVE  CalmInv'
<1>1. CASE Undisturbed
  BY <1>1, EngineStepsMove, MovesCalm
<1>2. CASE ~Undisturbed
  <2>1. UNCHANGED env
    BY DEF EngineSteps, EngineBegins, EngineSucceeds, EngineFails, EngineCancels, EngineCancelsLate
  <2> QED
    BY <1>2, <2>1 DEF CalmInv, Undisturbed
<1> QED
  BY <1>1, <1>2

(* Between two handlers, no engine is about to be sent a command, and      *)
(* those that are not active have nothing to do.                           *)
Rests(w) ==
    Calm(w, NoEngine) /\ Still(w) /\ ~Unused(w) /\ w.q.sending = NoEngine /\ ~w.q.inside

LEMMA QuietCalm ==
    ASSUME BookInv, CalmInv, Undisturbed, Quiet
    PROVE  Calm(World, NoEngine) /\ ~Unused(World) /\ World.q.sending = NoEngine /\ ~World.q.inside
<1>1. World.q.sending = NoEngine /\ ~World.q.inside
  BY InvWorld DEF Quiet
<1>2. Peace(World)
  BY CalmWorld
<1> QED
  BY <1>1, <1>2 DEF Peace, Tidy

LEMMA HandlerRests ==
    ASSUME BookInv, CalmInv, Undisturbed, Handler
    PROVE  Rests(World)
<1> DEFINE w == World
<1>1. w.q = q /\ w.net = net /\ Calm(w, NoEngine) /\ ~Unused(w) /\ w.q.sending = NoEngine
      /\ ~w.q.inside
  BY InvWorld, QuietCalm DEF Handler
<1>2. \A id \in Engines : ~IdleDisconnects(id)
  BY DEF Handler, Undisturbed
<1>3. ASSUME NEW e \in Own, ~w.q.data[e].active PROVE Clean(w.net[e])
  <2>1. e \in Engines /\ e # TabEngine
    BY DEF Own
  <2>2. CASE HasData(w, e)
    BY <1>1, <1>2, <1>3, <2>1, <2>2 DEF IdleDisconnects, Clean, Data
  <2>3. CASE ~HasData(w, e)
    BY <1>1, <2>3, CalmParts DEF EngineCalm
  <2> QED
    BY <2>2, <2>3
<1> QED
  BY <1>1, <1>3 DEF Rests, Still
LEMMA SendNextCommandCalm ==
    ASSUME BookInv, CalmInv, SendNextCommand
    PROVE  CalmInv'
<1> DEFINE w == World
           id == w.q.sending
           v == SendRound(w, id)
<1>1. Book(w) /\ SendingOK(w) /\ w \in Worlds /\ w.q = q
  BY InvWorld
<1>2. id # NoEngine /\ Becomes(Done(v, id)) /\ UNCHANGED env
  BY <1>1 DEF SendNextCommand
<1>3. id \in Engines /\ w.q.data[id].item # NoItem
  BY <1>1, <1>2, QueueType DEF SendingOK
<1>4. Undisturbed => Calm(w, id) /\ Still(w) /\ Tidy(w)
  BY <1>2, CalmWorld DEF Peace
<1> HIDE DEF w, id
<1>5. SentNext(w, id, v)
  BY <1>1, <1>3, RoundSent
<1> HIDE DEF v
<1>6. BookDecided(v, id) /\ (Undisturbed => DecidedCalm(v, id))
  BY <1>1, <1>3, <1>4, <1>5, BookSent, SentCalm
<1>7. Book(Done(v, id)) /\ (Undisturbed => Peace(Done(v, id)))
  BY <1>3, <1>6, BookDone, DoneCalm
<1> QED
  BY <1>2, <1>7, CalmBecomes

LEMMA AssignSets ==
    ASSUME NEW w \in Worlds, NEW i \in Items, NEW id \in Engines
    PROVE  Assign(w, i, id).q.sending = id /\ Assign(w, i, id).q.inside = w.q.inside
<1> DEFINE u == Assign(w, i, id)
<1>1. /\ u \in Worlds /\ Given(w, i, id) \in DataRec
      /\ u.q.data = [w.q.data EXCEPT ![id] = Given(w, i, id)]
      /\ u.q.data[id] = Given(w, i, id)
      /\ \A e \in Engines \ {id} : u.q.data[e] = w.q.data[e]
      /\ u.q.busy = [w.q.busy EXCEPT ![SiteOf[i]] = w.q.busy[SiteOf[i]] + 1]
      /\ u.q.count = w.q.count + 1
      /\ u.q.down = w.q.down + (IF Download(i) THEN 1 ELSE 0)
      /\ u.q.up = w.q.up + (IF Download(i) THEN 0 ELSE 1)
      /\ u.item = [w.item EXCEPT ![i] = [w.item[i] EXCEPT !.active = TRUE]]
      /\ u.q.sending = id /\ u.q.engines = w.q.engines /\ SameLists(w, u)
      /\ u.q.mode = w.q.mode /\ u.q.inside = w.q.inside /\ u.q.refused = w.q.refused
      /\ u.tab = w.tab /\ u.net = w.net
  BY AssignViews
<1> QED
  BY <1>1

LEMMA StartsPeace ==
    ASSUME NEW v, NEW i, NEW id, Starts(v, i, id), Calm(v, NoEngine), Still(v), v.q.inside
    PROVE  Peace(Assign(v, i, id))
<1> DEFINE u == Assign(v, i, id)
<1>1. v \in Worlds /\ i \in Items /\ id \in Engines
  BY DEF Starts, Book
<1>2. Calm(u, id) /\ Still(u)
  BY AssignCalm
<1>3. u.q.sending = id /\ u.q.inside = v.q.inside
  BY <1>1, AssignSets
<1> HIDE DEF u
<1> QED
  BY <1>2, <1>3 DEF Peace, Tidy, u

LEMMA StartNextTransferCalm ==
    ASSUME BookInv, CalmInv, StartNextTransfer
    PROVE  CalmInv'
<1> DEFINE w == World
           t == TryStartNextTransfer(w)
<1>1. Book(w) /\ w.q = q
  BY InvWorld
<1>2. w.q.sending = NoEngine /\ w.q.inside /\ UNCHANGED env
      /\ Becomes(IF t.ok THEN t.w ELSE AdvanceQueueEnds(t.w))
  BY <1>1 DEF StartNextTransfer
<1>3. Undisturbed => Calm(w, NoEngine) /\ Still(w)
  BY <1>2, CalmWorld DEF Peace
<1> HIDE DEF w
<1>4. /\ t.ok \in BOOLEAN
      /\ ~t.ok => Grown(w, t.w)
      /\ t.ok => \E v, i, id : Grown(w, v) /\ Starts(v, i, id) /\ t.w = Assign(v, i, id)
  BY <1>1, TryStart
<1> HIDE DEF t
<1>5. CASE t.ok
  <2>1. PICK v, i, id : Grown(w, v) /\ Starts(v, i, id) /\ t.w = Assign(v, i, id)
    BY <1>4, <1>5
  <2>2. v.q.inside
    BY <1>2, <2>1 DEF Grown, SameMode
  <2>3. Undisturbed => Calm(v, NoEngine) /\ Still(v)
    BY <1>1, <1>3, <2>1, GrownCalm
  <2>4. Book(t.w) /\ (Undisturbed => Peace(t.w))
    BY <2>1, <2>2, <2>3, AssignSends, StartsPeace
  <2> QED
    BY <1>2, <1>5, <2>4, CalmBecomes
<1>6. CASE ~t.ok
  <2> DEFINE x == t.w
             u == AdvanceQueueEnds(x)
  <2>1. Grown(w, x)
    BY <1>4, <1>6
  <2>2. Becomes(u)
    BY <1>2, <1>6
  <2> HIDE DEF x
  <2>3. Book(x) /\ x.q.sending = NoEngine
    BY <1>2, <2>1 DEF Grown, SameMode
  <2>4. Undisturbed => Calm(x, NoEngine) /\ Still(x)
    BY <1>1, <1>3, <2>1, GrownCalm
  <2>5. Settled(x, u)
    BY <2>3, EndsViews
  <2> HIDE DEF u
  <2>6. Undisturbed => Calm(u, NoEngine) /\ Still(u) /\ ~Unused(u)
    BY <2>3, <2>4, <2>5, SettledCalm
  <2>7. Book(u) /\ u.q.sending = NoEngine
    BY <2>3, <2>5 DEF Settled
  <2>8. Undisturbed => Peace(u)
    BY <2>6, <2>7 DEF Peace, Tidy
  <2> QED
    BY <1>2, <2>2, <2>7, <2>8, CalmBecomes
<1> QED
  BY <1>4, <1>5, <1>6
LEMMA CalmOneQuiet ==
    ASSUME NEW w, Calm(w, NoEngine), NEW u, NEW id \in Own, ~u.q.refused, u.tab = w.tab,
           \A e \in Engines \ {id} : /\ u.q.data[e] = w.q.data[e] /\ u.net[e] = w.net[e]
                                     /\ HasData(u, e) <=> HasData(w, e),
           EngineCalm(u.q.data[id], u.net[id], HasData(u, id), id = NoEngine)
    PROVE  Calm(u, NoEngine)
<1>1. id \in Engines /\ id # TabEngine
  BY DEF Own
<1>2. id \in Own => /\ u.tab = w.tab
                    /\ EngineCalm(u.q.data[id], u.net[id], HasData(u, id), id = NoEngine)
  OBVIOUS
<1>3. id = TabEngine => TabCalm(u.q.data[id], u.net[id], u.tab, HasData(u, id), id = NoEngine)
  BY <1>1
<1>4. /\ Calm(u, NoEngine)
      /\ Still(w) /\ (id \in Own /\ ~u.q.data[id].active => Clean(u.net[id])) => Still(u)
  BY <1>1, <1>2, <1>3, CalmOne
<1> QED
  BY <1>4

LEMMA AloneCalm ==
    ASSUME NEW w, Book(w), Calm(w, NoEngine), ~Unused(w), w.q.sending = NoEngine, ~w.q.inside,
           NEW id \in Own, ~w.q.data[id].active, w.net[id].inbox # <<>>,
           NEW z, z = [Received(w, id) EXCEPT !.q.sending = NoEngine]
    PROVE  Peace(z)
<1> DEFINE u == Received(w, id)
           d == w.q.data[id]
           n == w.net[id]
           m == Emptier(n)
<1>1. id \in Engines /\ id # TabEngine
  BY DEF Own
<1>2. /\ Book(u) /\ u.q = w.q /\ u.item = w.item /\ u.tab = w.tab
      /\ u.net = [w.net EXCEPT ![id] = m]
  BY <1>1, BookReceived
<1>3. w \in Worlds /\ u \in Worlds /\ n \in NetRec /\ w.net \in [Engines -> NetRec]
  <2>1. w \in Worlds /\ u \in Worlds
    BY <1>2 DEF Book
  <2> QED
    BY <1>1, <2>1, NetType, WorldParts
<1>4. PICK x \in Engines \cup {NoEngine} : x = NoEngine
  OBVIOUS
<1>5. z = [u EXCEPT !.q.sending = x]
  BY <1>4
<1> HIDE DEF u
<1>6. LET v == [u EXCEPT !.q.sending = x]
      IN  /\ v \in Worlds
          /\ v.q = [u.q EXCEPT !.sending = x]
          /\ v.item = u.item /\ v.tab = u.tab /\ v.net = u.net
          /\ v.q.mode = u.q.mode /\ v.q.inside = u.q.inside /\ v.q.refused = u.q.refused
          /\ v.q.refreshed = u.q.refreshed /\ v.q.servers = u.q.servers
          /\ v.q.sending = x /\ SameEngines(u, v) /\ SameCounts(u, v) /\ SameLists(u, v)
  BY <1>3, SendingSet
<1>7. /\ z.q.data = w.q.data /\ z.q.engines = w.q.engines /\ z.tab = w.tab
      /\ z.net = [w.net EXCEPT ![id] = m]
      /\ z.q.sending = NoEngine /\ z.q.inside = w.q.inside /\ z.q.refused = w.q.refused
  BY <1>2, <1>4, <1>5, <1>6 DEF SameEngines
<1>8. /\ EngineCalm(d, n, HasData(w, id), id = NoEngine) /\ ~w.q.refused
  BY CalmParts
<1>9. id # NoEngine
  BY <1>1, OwnIn
<1>10. Clean(m) /\ n.cmd = "none"
  <2>1. Due(n, "disconnect", NoItem) /\ n.inbox # <<>>
    BY <1>8 DEF EngineCalm, Clean
  <2> HIDE DEF n
  <2> QED
    BY <1>3, <2>1, EmptierClean, ZenonT(40)
<1>11. m.server = n.server /\ m.late = n.late /\ m.cmd = n.cmd
  BY <1>3, EmptierType
<1> HIDE DEF d, n, m
<1>12. EngineCalm(d, m, HasData(z, id), id = NoEngine)
  <2>1. HasData(z, id) = HasData(w, id)
    BY <1>7 DEF HasData
  <2>2. ~d.active
    BY DEF d
  <2> QED
    BY <1>8, <1>9, <1>10, <1>11, <2>1, <2>2 DEF EngineCalm
<1>13. \A e \in Engines \ {id} : /\ z.q.data[e] = w.q.data[e] /\ z.net[e] = w.net[e]
                                 /\ HasData(z, e) <=> HasData(w, e)
  BY <1>3, <1>7 DEF HasData
<1>13a. ~z.q.refused
  BY <1>7, <1>8
<1>14. EngineCalm(z.q.data[id], z.net[id], HasData(z, id), id = NoEngine)
  BY <1>1, <1>3, <1>7, <1>12 DEF d
<1>16. Calm(z, NoEngine)
  BY <1>7, <1>13, <1>13a, <1>14, CalmOneQuiet
<1>17. ~Unused(z)
  BY <1>7 DEF Unused, HasData, Data
<1> QED
  BY <1>7, <1>16, <1>17 DEF Peace, Tidy

(* An engine that was not active has disconnected, or its reply is late.   *)
LEMMA AloneAnswered ==
    ASSUME NEW w, Book(w), NEW id \in Own, ~w.q.data[id].active, NEW r, NEW v,
           Answered(w, id, r, v)
    PROVE  Done(v, id) = [w EXCEPT !.q.sending = NoEngine]
<1>1. w \in Worlds /\ id \in Engines /\ id # TabEngine
  BY DEF Book, Own
<1>2. w.q.data[id].state = "none"
  BY <1>1 DEF Book, DataOK, GoodData
<1>3. v.w = w /\ v.next \in {"alone", "reset", "remove"}
  BY <1>2 DEF Answered
<1>4. CASE v.next = "alone"
  BY <1>3, <1>4 DEF Done
<1>5. CASE v.next \in {"reset", "remove"}
  <2> DEFINE u == [w EXCEPT !.q.sending = NoEngine]
  <2>1. Done(v, id) = ResetEngine(u, id, v.next)
    BY <1>3, <1>5 DEF Done
  <2>2. u.q.data = w.q.data
    BY <1>1 DEF Worlds, QueueRec
  <2> HIDE DEF u
  <2>3. ResetEngine(u, id, v.next) = u
    BY <2>2 DEF ResetEngine, Data
  <2> QED
    BY <2>1, <2>3 DEF u
<1> QED
  BY <1>3, <1>4, <1>5

LEMMA OnEngineEventCalm ==
    ASSUME BookInv, CalmInv, NEW id \in Engines, OnEngineEvent(id)
    PROVE  CalmInv'
<1> DEFINE w == World
           u == Received(w, id)
           r == Head(net[id].inbox)
           v == ProcessReply(u, id, r)
           lent == id = TabEngine /\ ~(HasData(w, id) /\ Data(w, id).active)
<1>1. Book(w) /\ w.q = q /\ w.net = net /\ w.tab = tab /\ w \in Worlds
  BY InvWorld
<1>2. /\ w.net[id].inbox # <<>> /\ UNCHANGED env /\ Quiet /\ (id = TabEngine => w.tab.lock)
      /\ Becomes(IF lent THEN u ELSE Done(v, id))
      /\ IdleDisconnects(id) \/ Handler
  BY <1>1 DEF OnEngineEvent, HasReply
<1>3. IdleDisconnects(id) => id \in Own /\ ~w.q.data[id].active
  BY DEF IdleDisconnects, Own, Data
<1>4. Undisturbed => Calm(w, NoEngine) /\ ~Unused(w) /\ w.q.sending = NoEngine /\ ~w.q.inside
  BY <1>2, QuietCalm
<1>5. Undisturbed /\ ~IdleDisconnects(id) => Rests(w)
  BY <1>2, HandlerRests
<1> HIDE DEF w, r
<1>6. Book(u) /\ u.q = w.q
  BY <1>1, <1>2, BookReceived
<1>7. Answered(u, id, r, v)
  BY <1>6, ReplyAnswered
<1>8. CASE id \in Own /\ ~w.q.data[id].active
  <2> DEFINE z == [u EXCEPT !.q.sending = NoEngine]
  <2>1. Becomes(Done(v, id))
    BY <1>2, <1>8 DEF Own
  <2> HIDE DEF v
  <2>2. Done(v, id) = z
    <3> HIDE DEF u
    <3> QED
      BY <1>6, <1>7, <1>8, AloneAnswered
  <2>3. Undisturbed => Peace(z)
    BY <1>1, <1>2, <1>4, <1>8, AloneCalm
  <2>4. Book(z)
    <3> HIDE DEF u
    <3>1. PICK x \in Engines \cup {NoEngine} : x = NoEngine
      OBVIOUS
    <3>2. Book([u EXCEPT !.q.sending = x])
      BY <1>6, BookSets
    <3> QED
      BY <3>1, <3>2
  <2> HIDE DEF z
  <2> QED
    BY <1>2, <2>1, <2>2, <2>3, <2>4, CalmBecomes
<1>9. CASE ~(id \in Own /\ ~w.q.data[id].active)
  <2> HIDE DEF v
  <2>1. BookDecided(v, id)
    <3> HIDE DEF u
    <3> QED
      BY <1>6, <1>7, BookAnswered
  <2>2. Book(u) /\ Book(Done(v, id))
    BY <1>6, <2>1, BookDone
  <2>3. CASE ~Undisturbed
    BY <2>3, <1>2 DEF CalmInv, Undisturbed
  <2>4. CASE Undisturbed
    <3>1. Rests(w)
      BY <1>3, <1>5, <1>9, <2>4
    <3>2. /\ Calm(u, id) /\ Still(u) /\ Handled(u, id)
      BY <1>1, <1>2, <1>9, <3>1, ReceivedCalm DEF Rests
    <3>3. w.q.data[id].active
      BY <1>6, <3>2 DEF Handled
    <3>4. HasData(w, id)
      BY <1>1, <3>3, ActiveHas
    <3>5. Becomes(Done(v, id))
      BY <1>2, <3>3, <3>4 DEF Data
    <3>6. ~Unused(u)
      BY <1>6, <3>1 DEF Unused, HasData, Data, Rests
    <3> HIDE DEF u
    <3>7. DecidedCalm(v, id)
      BY <1>6, <1>7, <3>2, <3>6, AnsweredCalm
    <3>8. Peace(Done(v, id))
      BY <2>1, <3>7, DoneCalm
    <3> QED
      BY <1>2, <2>2, <3>5, <3>8, CalmBecomes
  <2> QED
    BY <2>3, <2>4
<1> QED
  BY <1>8, <1>9
LEMMA CalmOneTab ==
    ASSUME NEW w, NEW h \in {NoEngine, TabEngine}, Calm(w, h), NEW u,
           NEW g \in {NoEngine, TabEngine}, ~u.q.refused,
           \A e \in Engines \ {TabEngine} : /\ u.q.data[e] = w.q.data[e] /\ u.net[e] = w.net[e]
                                            /\ HasData(u, e) <=> HasData(w, e),
           TabCalm(u.q.data[TabEngine], u.net[TabEngine], u.tab, HasData(u, TabEngine), TabEngine = g)
    PROVE  Calm(u, g) /\ (Still(w) => Still(u))
<1>1. PICK id \in Engines : id = TabEngine
  BY OwnIn
<1>2. /\ id \in Engines
      /\ \A e \in Engines \ {id} : /\ u.q.data[e] = w.q.data[e] /\ u.net[e] = w.net[e]
                                   /\ HasData(u, e) <=> HasData(w, e)
      /\ h = g \/ (h \in {id, NoEngine} /\ g \in {id, NoEngine})
  BY <1>1
<1>3. id \in Own => /\ u.tab = w.tab
                    /\ EngineCalm(u.q.data[id], u.net[id], HasData(u, id), id = g)
  BY <1>1, OwnIn
<1>4. id = TabEngine => TabCalm(u.q.data[id], u.net[id], u.tab, HasData(u, id), id = g)
  BY <1>1
<1>5. /\ Calm(u, g)
      /\ Still(w) /\ (id \in Own /\ ~u.q.data[id].active => Clean(u.net[id])) => Still(u)
  BY <1>2, <1>3, <1>4, CalmOne
<1> QED
  BY <1>1, <1>5, OwnIn

(* The command of the tab has ended.                                       *)
LEMMA TabFreeCalm ==
    ASSUME NEW d, NEW n \in NetRec, NEW t, NEW has, TabCalm(d, n, t, has, FALSE), ~t.lock,
           n.inbox # <<>>, NEW x, x.cmd = "none", x.site = t.site, x.wants = t.wants,
           x.lock = t.wants
    PROVE  TabCalm(d, Emptier(n), x, has, FALSE)
<1> DEFINE m == Emptier(n)
<1>1. ~Borrowed(d) /\ t.cmd # "none" /\ \E to \in Aims : Due(n, t.cmd, to)
  BY DEF TabCalm, Clean
<1>2. PICK to \in Aims : Due(n, t.cmd, to)
  BY <1>1
<1>3. Clean(m) /\ n.cmd = "none"
  <2>1. PICK cmd : cmd = t.cmd
    OBVIOUS
  <2>2. Due(n, cmd, to)
    BY <1>2, <2>1
  <2> QED
    BY <2>2, EmptierClean
<1>4. m.server = n.server /\ m.late = n.late /\ m.cmd = n.cmd
  BY EmptierType
<1> HIDE DEF m
<1>5. TabCalm(d, m, x, has, FALSE)
  BY <1>1, <1>3, <1>4 DEF TabCalm
<1> QED
  BY <1>5 DEF m

LEMMA FinishCalm ==
    ASSUME BookInv, CalmInv, Finish
    PROVE  CalmInv'
<1> DEFINE w == World
           u == TabEnds(w)
           z == IF tab.wants THEN GrantExclusiveEngineRequest(u) ELSE u
           n == w.net[TabEngine]
           d == w.q.data[TabEngine]
<1>1. Book(w) /\ w \in Worlds /\ w.q = q /\ w.net = net /\ w.tab = tab
  BY InvWorld
<1>2. /\ n.inbox # <<>> /\ ~w.tab.lock /\ Quiet /\ Becomes(z) /\ UNCHANGED env
  BY <1>1 DEF Finish, HasReply
<1>3. Undisturbed => Calm(w, NoEngine) /\ ~Unused(w) /\ w.q.sending = NoEngine /\ ~w.q.inside
  BY <1>2, QuietCalm
<1> HIDE DEF w
<1>4. /\ Book(u) /\ u.item = w.item /\ u.q.data = w.q.data /\ u.q.engines = w.q.engines
      /\ u.q.sending = w.q.sending /\ u.q.inside = w.q.inside /\ u.q.mode = w.q.mode
      /\ u.q.refused = w.q.refused
      /\ u.tab = TabAfter(w.tab, Head(w.net[TabEngine].inbox))
      /\ u.net = [w.net EXCEPT ![TabEngine] = Emptier(w.net[TabEngine])]
      /\ u.q.busy = w.q.busy
  BY <1>1, <1>2, BookTabEnds
<1>5. /\ u.tab \in TabRec /\ u.tab.cmd = "none" /\ u.tab.site = w.tab.site
      /\ u.tab.lock = w.tab.lock /\ u.tab.wants = w.tab.wants
  <2>1. w.tab \in TabRec
    BY <1>1, WorldParts
  <2> QED
    BY <1>4, <2>1, TabAfterType
<1> HIDE DEF u
<1>6. /\ Book(z) /\ z.q = u.q /\ z.net = u.net
      /\ z.tab.cmd = "none" /\ z.tab.site = w.tab.site /\ z.tab.wants = w.tab.wants
      /\ z.tab.lock = w.tab.wants
  <2>1. CASE tab.wants
    <3> DEFINE g == GrantExclusiveEngineRequest(u)
    <3>1. u \in Worlds /\ Book(g)
      BY <1>4, BookRelease DEF Book
    <3>2. /\ g.tab = [u.tab EXCEPT !.lock = TRUE, !.id = u.tab.id + 1,
                                  !.grants = Append(u.tab.grants, u.tab.id + 1)]
          /\ g.net = u.net /\ g.q = u.q
      BY <3>1, GrantSet
    <3> HIDE DEF g
    <3>3. g.tab.cmd = u.tab.cmd /\ g.tab.site = u.tab.site /\ g.tab.wants = u.tab.wants
          /\ g.tab.lock = TRUE
      BY <1>5, <3>2 DEF TabRec
    <3>4. w.tab.wants = TRUE /\ z = g
      <4>1. w.tab.wants \in BOOLEAN
        BY <1>1, TabType
      <4> QED
        BY <1>1, <2>1, <4>1 DEF g
    <3> QED
      BY <1>5, <3>1, <3>2, <3>3, <3>4
  <2>2. CASE ~tab.wants
    <3>1. w.tab.lock = w.tab.wants
      <4>1. w.tab.lock \in BOOLEAN /\ w.tab.wants \in BOOLEAN
        BY <1>1, TabType
      <4> QED
        BY <1>1, <1>2, <2>2, <4>1
    <3> QED
      BY <1>4, <1>5, <2>2, <3>1
  <2> QED
    BY <2>1, <2>2
<1> HIDE DEF z
<1>7. CASE Undisturbed
  <2>1. TabCalm(d, n, w.tab, HasData(w, TabEngine), TabEngine = NoEngine)
    BY <1>3, <1>7, CalmParts
  <2>2. n \in NetRec /\ w.net \in [Engines -> NetRec] /\ TabEngine \in Engines
        /\ TabEngine # NoEngine
    BY <1>1, NetType, WorldParts, OwnIn
  <2>3. PICK has, no, x : has = HasData(w, TabEngine) /\ no = FALSE /\ x = z.tab
    OBVIOUS
  <2>4. TabCalm(d, n, w.tab, has, no)
    BY <2>1, <2>2, <2>3
  <2> HIDE DEF d, n
  <2>5. TabCalm(d, Emptier(n), x, has, FALSE)
    BY <1>2, <1>6, <2>2, <2>3, <2>4, TabFreeCalm
  <2>6. HasData(z, TabEngine) = has /\ (TabEngine = NoEngine) = no
    BY <1>4, <1>6, <2>2, <2>3 DEF HasData
  <2>7. TabCalm(z.q.data[TabEngine], z.net[TabEngine], z.tab, HasData(z, TabEngine),
                TabEngine = NoEngine)
    <3>1. z.q.data[TabEngine] = d /\ z.net[TabEngine] = Emptier(n)
      BY <1>4, <1>6, <2>2 DEF d, n
    <3> QED
      BY <2>3, <2>5, <2>6, <3>1
  <2>8. /\ ~z.q.refused
        /\ \A e \in Engines \ {TabEngine} : /\ z.q.data[e] = w.q.data[e] /\ z.net[e] = w.net[e]
                                            /\ HasData(z, e) <=> HasData(w, e)
    BY <1>3, <1>4, <1>6, <1>7, <2>2, CalmParts DEF HasData
  <2>9. Calm(z, NoEngine)
    BY <1>3, <1>7, <2>7, <2>8, CalmOneTab
  <2>10. ~Unused(z) /\ z.q.sending = NoEngine /\ ~z.q.inside
    BY <1>3, <1>4, <1>6, <1>7 DEF Unused, HasData, Data
  <2>11. Peace(z)
    BY <2>9, <2>10 DEF Peace, Tidy
  <2> QED
    BY <1>2, <1>6, <2>11, CalmBecomes
<1>8. CASE ~Undisturbed
  BY <1>2, <1>8 DEF CalmInv, Undisturbed
<1> QED
  BY <1>7, <1>8
(* An engine of a tab that is lent to the queue in vain is given back.     *)
LEMMA ReturnedCalm ==
    ASSUME NEW w, Book(w), Calm(w, NoEngine), ~HasData(w, TabEngine)
    PROVE  LET u == ReleaseEngine(w)
           IN  Calm(u, NoEngine) /\ (Still(w) => Still(u)) /\ u.q = w.q
<1> DEFINE u == ReleaseEngine(w)
           d == w.q.data[TabEngine]
           n == w.net[TabEngine]
<1>1. w \in Worlds /\ TabEngine \in Engines /\ TabEngine # NoEngine
  BY OwnIn DEF Book
<1>2. u.tab = Released(w.tab) /\ u.net = w.net /\ u.q = w.q
  BY <1>1, ReleaseSet, ReleaseViews
<1>3. n \in NetRec /\ w.tab \in TabRec
  BY <1>1, NetType, WorldParts
<1>4. d = NewData("none")
  BY <1>1 DEF Book, DataOK
<1>5. TabCalm(d, n, w.tab, HasData(w, TabEngine), TabEngine = NoEngine) /\ ~w.q.refused
  BY CalmParts
<1> HIDE DEF u
<1>6. PICK has, no : has = HasData(w, TabEngine) /\ no = FALSE
  OBVIOUS
<1>7. HasData(u, TabEngine) = FALSE /\ (TabEngine = NoEngine) = FALSE /\ has = FALSE
  BY <1>1, <1>2, <1>6 DEF HasData, Contains
<1>8. TabCalm(d, n, w.tab, has, FALSE)
  BY <1>5, <1>6, <1>7
<1>9. ~Borrowed(d)
  BY <1>4 DEF Borrowed, NewData
<1>10. Cancelled(n, n)
  BY DEF Cancelled
<1> HIDE DEF d, n
<1>11. TabCalm(NewData("none"), n, Released(w.tab), FALSE, FALSE)
  BY <1>3, <1>8, <1>9, <1>10, GivenBackCalm
<1>12. TabCalm(u.q.data[TabEngine], u.net[TabEngine], u.tab, HasData(u, TabEngine),
               TabEngine = NoEngine)
  BY <1>2, <1>4, <1>7, <1>11 DEF d, n
<1>13. /\ ~u.q.refused
       /\ \A e \in Engines \ {TabEngine} : /\ u.q.data[e] = w.q.data[e] /\ u.net[e] = w.net[e]
                                           /\ HasData(u, e) <=> HasData(w, e)
  BY <1>2, <1>5 DEF HasData
<1>14. Calm(u, NoEngine) /\ (Still(w) => Still(u))
  BY <1>12, <1>13, CalmOneTab
<1> QED
  BY <1>2, <1>14 DEF u

(* The engine of the tab is sent the command for its file.                 *)
LEMMA LentCalmNow ==
    ASSUME NEW w, Book(w), Calm(w, NoEngine), w.tab.lock,
           w.q.data[TabEngine].active, w.q.data[TabEngine].state = "waitprimary",
           NEW s \in {"transfer", "mkdir"}
    PROVE  LET u == SetState(w, TabEngine, s)
           IN  Calm(u, TabEngine) /\ (Still(w) => Still(u))
<1> DEFINE u == SetState(w, TabEngine, s)
           d == w.q.data[TabEngine]
           e == WithState(d, s)
           n == w.net[TabEngine]
<1>1. w \in Worlds /\ TabEngine \in Engines /\ TabEngine # NoEngine /\ s \in States
  BY OwnIn DEF Book, States
<1>2. d \in DataRec /\ w.q.data \in [Engines -> DataRec]
  BY <1>1, DataType, WorldParts
<1>3. /\ u \in Worlds /\ u.item = w.item /\ u.tab = w.tab /\ u.net = w.net
      /\ u.q.data = [w.q.data EXCEPT ![TabEngine] = e]
      /\ u.q.engines = w.q.engines
      /\ SameMode(w, u) /\ SameLists(w, u) /\ SameCounts(w, u)
  BY <1>1, StateViews
<1>4. e.active = d.active /\ e.state = s /\ e.item = d.item /\ e.site = d.site
  BY <1>1, <1>2, WithStateType
<1>5. TabCalm(d, n, w.tab, HasData(w, TabEngine), TabEngine = NoEngine) /\ ~w.q.refused
  BY CalmParts
<1>6. d.active /\ d.state = "waitprimary"
  OBVIOUS
<1> HIDE DEF u, d, e, n
<1>7. HasData(u, TabEngine) = HasData(w, TabEngine)
  BY <1>3 DEF HasData
<1>8. Borrowed(e) /\ ~Borrowed(d)
  BY <1>4, <1>6 DEF Borrowed
<1>9. TabCalm(e, n, w.tab, HasData(w, TabEngine), TabEngine = TabEngine)
  BY <1>1, <1>4, <1>5, <1>6, <1>8 DEF TabCalm
<1>10. TabCalm(u.q.data[TabEngine], u.net[TabEngine], u.tab, HasData(u, TabEngine),
               TabEngine = TabEngine)
  BY <1>1, <1>2, <1>3, <1>7, <1>9 DEF n
<1>11. /\ ~u.q.refused
       /\ \A k \in Engines \ {TabEngine} : /\ u.q.data[k] = w.q.data[k] /\ u.net[k] = w.net[k]
                                           /\ HasData(u, k) <=> HasData(w, k)
  BY <1>2, <1>3, <1>5 DEF HasData, SameMode
<1>12. Calm(u, TabEngine) /\ (Still(w) => Still(u))
  BY <1>10, <1>11, CalmOneTab
<1> QED
  BY <1>12 DEF u

LEMMA GrantedCalm ==
    ASSUME NEW w, Book(w), Rests(w), w.tab.lock
    PROVE  DecidedCalm(Granted(w), TabEngine)
<1> DEFINE v == Granted(w)
           d == w.q.data[TabEngine]
<1>1. w \in Worlds /\ TabEngine \in Engines /\ Calm(w, NoEngine) /\ Still(w) /\ ~Unused(w)
  BY OwnIn DEF Book, Rests
<1>2. d = Data(w, TabEngine)
  BY DEF Data
<1>3. CASE ~HasData(w, TabEngine)
  <2> DEFINE u == ReleaseEngine(w)
  <2>1. v.w = u /\ v.next = "alone"
    BY <1>3 DEF Granted, Decide
  <2>2. Calm(u, NoEngine) /\ (Still(w) => Still(u)) /\ u.q = w.q
    BY <1>1, <1>3, ReturnedCalm
  <2> HIDE DEF u, v
  <2>3. ~Unused(u)
    BY <1>1, <2>2 DEF Unused, HasData, Data
  <2>4. DecidedCalm(v, TabEngine)
    BY <1>1, <2>1, <2>2, <2>3 DEF DecidedCalm, Tidy, Reasons
  <2> QED
    BY <2>4 DEF v
<1>4. CASE HasData(w, TabEngine) /\ d.state # "waitprimary"
  <2>1. d.active
    BY <1>1, <1>4 DEF Unused, Data
  <2>2. v.w = w /\ v.next = "alone"
    BY <1>2, <1>4, <2>1 DEF Granted, Decide
  <2> HIDE DEF v
  <2>3. DecidedCalm(v, TabEngine)
    BY <1>1, <2>2 DEF DecidedCalm, Tidy, Reasons
  <2> QED
    BY <2>3 DEF v
<1>5. CASE HasData(w, TabEngine) /\ d.state = "waitprimary"
  <2> DEFINE s == Work(d.item)
             u == SetState(w, TabEngine, s)
  <2>1. d.active
    BY <1>1, <1>5 DEF Unused, Data
  <2>2. d.item # NoItem /\ d.site = SiteOf[d.item]
    BY <1>1, <1>5, <2>1 DEF Book, DataOK, ItemsOK, GoodData
  <2>3. TabCalm(d, w.net[TabEngine], w.tab, HasData(w, TabEngine), TabEngine = NoEngine)
    BY <1>1, CalmParts
  <2>4. w.tab.site = SiteOf[d.item]
    BY <2>1, <2>2, <2>3 DEF TabCalm
  <2>5. v.w = u /\ v.next = "send"
    BY <1>2, <1>5, <2>1, <2>4 DEF Granted, Decide
  <2>6. s \in {"transfer", "mkdir"}
    BY WorkType
  <2> HIDE DEF s, v
  <2>7. Calm(u, TabEngine) /\ (Still(w) => Still(u))
    BY <1>1, <1>5, <2>1, <2>6, LentCalmNow
  <2>8. ~Unused(u)
    <3>1. s \in States
      BY <2>6 DEF States
    <3> QED
      BY <1>1, <3>1, StateTidy
  <2> HIDE DEF u
  <2>9. DecidedCalm(v, TabEngine)
    BY <1>1, <2>5, <2>7, <2>8 DEF DecidedCalm, Tidy, Reasons
  <2> QED
    BY <2>9 DEF v
<1> QED
  BY <1>3, <1>4, <1>5
LEMMA RestsPeace ==
    ASSUME NEW w, Book(w), Rests(w)
    PROVE  Peace(w) /\ Peace(AdvanceQueue(w))
<1>1. Peace(w)
  BY DEF Rests, Peace, Tidy
<1>2. Peace(AdvanceQueue(w))
  BY AdvanceCalm DEF Rests
<1> QED
  BY <1>1, <1>2

LEMMA RestsSame ==
    ASSUME NEW w, NEW u, Rests(w), SameEngines(w, u), u.tab = w.tab, u.net = w.net,
           u.q.refused = w.q.refused, u.q.sending = w.q.sending, u.q.inside = w.q.inside
    PROVE  Rests(u)
<1>1. Calm(w, NoEngine) /\ Still(w) /\ ~Unused(w)
  BY DEF Rests
<1>2. Calm(u, NoEngine) /\ (Still(w) => Still(u)) /\ (Unused(u) <=> Unused(w))
  BY <1>1, CalmSame
<1> QED
  BY <1>1, <1>2 DEF Rests

LEMMA TabSameCalm ==
    ASSUME NEW d, NEW n, NEW t, NEW has, NEW held, TabCalm(d, n, t, has, held), NEW x,
           x.site = t.site, x.cmd = t.cmd, x.lock = t.lock, x.wants = t.wants
    PROVE  TabCalm(d, n, x, has, held)
BY DEF TabCalm

LEMMA RestsTab ==
    ASSUME NEW w, Rests(w), NEW u, u.q = w.q, u.net = w.net, u.tab.site = w.tab.site,
           u.tab.cmd = w.tab.cmd, u.tab.lock = w.tab.lock, u.tab.wants = w.tab.wants
    PROVE  Rests(u)
<1>1. Calm(w, NoEngine)
  BY DEF Rests
<1>2. TabCalm(w.q.data[TabEngine], w.net[TabEngine], w.tab, HasData(w, TabEngine),
              TabEngine = NoEngine) /\ ~w.q.refused
  BY <1>1, CalmParts
<1>3. \A e : HasData(u, e) = HasData(w, e)
  BY DEF HasData
<1>4. TabCalm(w.q.data[TabEngine], w.net[TabEngine], u.tab, HasData(w, TabEngine),
              TabEngine = NoEngine)
  BY <1>2, TabSameCalm
<1>5. TabCalm(u.q.data[TabEngine], u.net[TabEngine], u.tab, HasData(u, TabEngine),
              TabEngine = NoEngine)
  BY <1>3, <1>4
<1>6. /\ ~u.q.refused
      /\ \A e \in Engines \ {TabEngine} : /\ u.q.data[e] = w.q.data[e] /\ u.net[e] = w.net[e]
                                          /\ HasData(u, e) <=> HasData(w, e)
  BY <1>2, <1>3
<1>7. Calm(u, NoEngine) /\ (Still(w) => Still(u))
  BY <1>1, <1>5, <1>6, CalmOneTab
<1> QED
  BY <1>7 DEF Rests, Unused, HasData, Data

LEMMA OnExclusiveEngineRequestGrantedCalm ==
    ASSUME BookInv, CalmInv, OnExclusiveEngineRequestGranted
    PROVE  CalmInv'
<1> DEFINE t == Popped(tab)
           w == [World EXCEPT !.tab = t]
           v == Granted(w)
           to == tab.lock /\ Head(tab.grants) = tab.id
<1>1. Book(World) /\ World \in Worlds /\ World.q = q /\ World.tab = tab
  BY InvWorld
<1>2. [World EXCEPT !.tab.grants = Tail(tab.grants)] = w
  BY <1>1 DEF Popped, Worlds
<1>3. Handler /\ tab.grants # <<>> /\ UNCHANGED env
      /\ Becomes(IF to THEN Done(v, TabEngine) ELSE w)
  <2> HIDE DEF w
  <2> QED
    BY <1>2 DEF OnExclusiveEngineRequestGranted
<1>4. tab \in TabRec
  BY <1>1, WorldParts
<1>5. /\ t \in TabRec /\ t.site = tab.site /\ t.cmd = tab.cmd
      /\ t.lock = tab.lock /\ t.wants = tab.wants
      /\ t.listing = tab.listing /\ t.id = tab.id
  BY <1>3, <1>4, PoppedType
<1> HIDE DEF t, to
<1>6. Book(w) /\ w.q = World.q /\ w.item = World.item /\ w.net = World.net /\ w.tab = t
  BY <1>1, <1>5, BookTab
<1> HIDE DEF w
<1>7. Undisturbed => Rests(w)
  <2>1. Undisturbed => Rests(World)
    BY <1>3, HandlerRests
  <2> QED
    BY <1>1, <1>5, <1>6, <2>1, RestsTab
<1>8. CASE to
  <2>1. TabEngine \in Engines /\ w.tab.lock
    BY <1>5, <1>6, <1>8, OwnIn DEF to
  <2>2. BookDecided(v, TabEngine) /\ (Undisturbed => DecidedCalm(v, TabEngine))
    BY <1>6, <1>7, <2>1, BookGranted, GrantedCalm
  <2> HIDE DEF v
  <2>3. Book(Done(v, TabEngine)) /\ (Undisturbed => Peace(Done(v, TabEngine)))
    BY <2>1, <2>2, BookDone, DoneCalm
  <2> QED
    BY <1>3, <1>8, <2>3, CalmBecomes
<1>9. CASE ~to
  <2>1. Undisturbed => Peace(w)
    BY <1>6, <1>7, RestsPeace
  <2> QED
    BY <1>3, <1>6, <1>9, <2>1, CalmBecomes
<1> QED
  BY <1>8, <1>9
LEMMA QueueFileCalm ==
    ASSUME BookInv, CalmInv, QueueFile
    PROVE  CalmInv'
<1>1. Book(World) /\ World \in Worlds
  BY InvWorld
<1>2. Handler /\ UNCHANGED env
  BY DEF QueueFile
<1>3. PICK i \in Items, queueOnly \in BOOLEAN :
         \E w \in {Queued(World, i, queueOnly)} : Becomes(IF w.q.mode # 0 THEN AdvanceQueue(w) ELSE w)
  BY DEF QueueFile
<1> DEFINE w == Queued(World, i, queueOnly)
<1>4. Becomes(IF w.q.mode # 0 THEN AdvanceQueue(w) ELSE w)
  BY <1>3
<1>5. Book(w)
  BY <1>1, BookQueued
<1>6. /\ w \in Worlds /\ SameEngines(World, w) /\ SameCounts(World, w)
      /\ w.tab = World.tab /\ w.net = World.net
      /\ w.item[i] = [World.item[i] EXCEPT !.where = "queue"]
      /\ \A j \in Items \ {i} : w.item[j] = World.item[j]
      /\ \A s \in Sites, j \in Items :
           Listed(w, s, j) <=> Listed(World, s, j) \/ (s = SiteOf[i] /\ j = i)
      /\ w.q.sending = World.q.sending /\ w.q.inside = World.q.inside
      /\ w.q.refused = World.q.refused
      /\ w.q.mode = World.q.mode \/ w.q.mode = 1
  BY <1>1, QueuedViews
<1> HIDE DEF w
<1>7. Undisturbed => Rests(w)
  <2>1. Undisturbed => Rests(World)
    BY <1>2, HandlerRests
  <2> QED
    BY <1>6, <2>1, RestsSame
<1>8. Undisturbed => Peace(w) /\ Peace(AdvanceQueue(w))
  BY <1>5, <1>7, RestsPeace
<1>9. Book(AdvanceQueue(w))
  BY <1>5, BookAdvance
<1>10. Becomes(w) \/ Becomes(AdvanceQueue(w))
  BY <1>4
<1> QED
  BY <1>2, <1>5, <1>8, <1>9, <1>10, CalmBecomes

LEMMA SetActiveCalm ==
    ASSUME BookInv, CalmInv, SetActive
    PROVE  CalmInv'
<1>1. Book(World) /\ World \in Worlds
  BY InvWorld
<1>2. PICK mode \in 0 .. 2 : mode = 2
  OBVIOUS
<1> DEFINE w == [World EXCEPT !.q.mode = mode]
<1>3. Handler /\ UNCHANGED env /\ Becomes(AdvanceQueue(w))
  BY <1>2 DEF SetActive, Event
<1>4. Book(w)
  BY <1>1, BookSets
<1>5. /\ w \in Worlds
      /\ w.q = [World.q EXCEPT !.mode = mode]
      /\ w.item = World.item /\ w.tab = World.tab /\ w.net = World.net
      /\ w.q.inside = World.q.inside /\ w.q.sending = World.q.sending /\ w.q.refused = World.q.refused
      /\ w.q.refreshed = World.q.refreshed /\ w.q.servers = World.q.servers
      /\ w.q.mode = mode /\ SameEngines(World, w) /\ SameCounts(World, w) /\ SameLists(World, w)
  BY <1>1, ModeSet, Zenon
<1> HIDE DEF w
<1>6. Undisturbed => Rests(w)
  <2>1. Undisturbed => Rests(World)
    BY <1>3, HandlerRests
  <2> QED
    BY <1>5, <2>1, RestsSame
<1>7. Undisturbed => Peace(AdvanceQueue(w))
  BY <1>4, <1>6, RestsPeace
<1>8. Book(AdvanceQueue(w))
  BY <1>4, BookAdvance
<1> QED
  BY <1>3, <1>7, <1>8, CalmBecomes

LEMMA StopCalm ==
    ASSUME BookInv, CalmInv, Stop
    PROVE  CalmInv'
<1> DEFINE w == World
           u == Deactivate(w)
<1>1. Book(w)
  BY InvWorld
<1>2. Handler /\ UNCHANGED env /\ Becomes(u)
  BY DEF Stop, Event
<1>3. Undisturbed => Rests(w)
  BY <1>2, HandlerRests
<1> HIDE DEF w
<1>4. Halted(w, u)
  BY <1>1, DeactivateViews
<1> HIDE DEF u
<1>5. Book(u) /\ u.q.sending = w.q.sending /\ (u.q.inside => w.q.inside)
  BY <1>4 DEF Halted
<1>6. Undisturbed => Peace(u)
  <2> SUFFICES ASSUME Undisturbed PROVE Peace(u)
    OBVIOUS
  <2>1. /\ Calm(w, NoEngine) /\ Still(w) /\ ~Unused(w) /\ w.q.sending = NoEngine /\ ~w.q.inside
        /\ NoEngine # TabEngine
    BY <1>3, OwnIn DEF Rests
  <2>2. Calm(u, NoEngine) /\ (Still(w) => Still(u)) /\ (Unused(u) => Unused(w))
    BY <1>1, <1>4, <2>1, HaltedCalm
  <2> QED
    BY <1>5, <2>1, <2>2 DEF Peace, Tidy
<1> QED
  BY <1>2, <1>5, <1>6, CalmBecomes

LEMMA RemoveAllCalm ==
    ASSUME BookInv, CalmInv, RemoveAll
    PROVE  CalmInv'
<1> DEFINE w == World
           x == Emptied(w)
           u == CheckQueueState(x)
<1>1. Book(w)
  BY InvWorld
<1>2. Handler /\ UNCHANGED env /\ Becomes(u)
  BY DEF RemoveAll, Event
<1>3. Undisturbed => Rests(w)
  BY <1>2, HandlerRests
<1> HIDE DEF w
<1>4. Book(x) /\ SameRest(w, x)
  BY <1>1, BookEmptied
<1> HIDE DEF x
<1>5. Undisturbed => Rests(x)
  BY <1>3, <1>4, RestsSame DEF SameRest, SameMode
<1>6. Settled(x, u) /\ u.q.inside = x.q.inside
  BY <1>4, CheckViews
<1> HIDE DEF u
<1>7. Book(u) /\ u.q.sending = x.q.sending
  BY <1>6 DEF Settled
<1>8. Undisturbed => Peace(u)
  <2> SUFFICES ASSUME Undisturbed PROVE Peace(u)
    OBVIOUS
  <2>1. Calm(x, NoEngine) /\ Still(x) /\ x.q.sending = NoEngine /\ ~x.q.inside
    BY <1>5 DEF Rests
  <2>2. Calm(u, NoEngine) /\ Still(u) /\ ~Unused(u)
    BY <1>4, <1>6, <2>1, SettledCalm
  <2> QED
    BY <1>6, <1>7, <2>1, <2>2 DEF Peace, Tidy
<1> QED
  BY <1>2, <1>7, <1>8, CalmBecomes
LEMMA RestsRemoved ==
    ASSUME NEW w, Book(w), Rests(w), NEW i \in Items, w.item[i].active,
           \A id \in Engines : w.q.data[id].item = i => w.q.data[id].state # "waitprimary"
    PROVE  LET u == StopItem(ToBeRemoved(w, i), i) IN Book(u) /\ Rests(u)
<1> DEFINE x == ToBeRemoved(w, i)
           id == CHOOSE k \in Engines : Data(x, k).item = i
           v == QueueImmediateFile(x, i)
           u == CancelEngine(v, id)
<1>1. /\ Book(x) /\ x.q = w.q /\ x.tab = w.tab /\ x.net = w.net
      /\ \A j \in Items : /\ x.item[j].active = w.item[j].active
                          /\ x.item[j].where = w.item[j].where
                          /\ x.item[j].sent = w.item[j].sent
  BY BookToBeRemoved
<1> HIDE DEF x
<1>2. id \in Engines /\ Data(x, id).item = i
  <2>1. \E k \in Engines : x.q.data[k].item = i
    BY <1>1, ActiveQueued
  <2> QED
    BY <2>1 DEF Data
<1>3. Data(x, id).state # "waitprimary"
  BY <1>1, <1>2 DEF Data
<1>4. StopItem(x, i) = u
  BY <1>3 DEF StopItem
<1> HIDE DEF id
<1>5. Book(v) /\ v.item = x.item /\ SameRest(x, v)
  BY <1>1, BookPutBack
<1> HIDE DEF v
<1>6. Rests(v)
  <2>1. /\ SameEngines(w, v) /\ v.tab = w.tab /\ v.net = w.net /\ v.q.refused = w.q.refused
        /\ v.q.sending = w.q.sending /\ v.q.inside = w.q.inside
    BY <1>1, <1>5 DEF SameRest, SameMode, SameEngines
  <2> QED
    BY <2>1, RestsSame
<1>7. /\ Book(u) /\ u.q = v.q /\ u.item = v.item /\ u.tab = v.tab
      /\ \A e \in Engines : Cancelled(v.net[e], u.net[e])
  BY <1>2, <1>5, BookCancel
<1> HIDE DEF u
<1>8. Rests(u)
  <2>1. v \in Worlds /\ Calm(v, NoEngine) /\ Still(v)
    BY <1>5, <1>6 DEF Book, Rests
  <2>2. ~u.q.refused
    BY <1>7, <2>1, CalmParts
  <2>3. \A e \in Engines : /\ Alike(v.q.data[e], u.q.data[e]) /\ Cancelled(v.net[e], u.net[e])
                           /\ HasData(u, e) <=> HasData(v, e)
    BY <1>7 DEF Alike, HasData
  <2>4. Calm(u, NoEngine) /\ (Still(v) => Still(u))
    BY <1>7, <2>1, <2>2, <2>3, CalmAlike
  <2> QED
    BY <1>6, <1>7, <2>1, <2>4 DEF Rests, Unused, HasData, Data
<1> QED
  BY <1>4, <1>7, <1>8 DEF x

LEMMA OnRemoveSelectedCalm ==
    ASSUME BookInv, CalmInv, OnRemoveSelected
    PROVE  CalmInv'
<1> DEFINE w == World
<1>1. Book(w) /\ w.q = q /\ w.item = item
  BY InvWorld
<1>2. Handler /\ UNCHANGED env
  BY DEF OnRemoveSelected, Event
<1>3. PICK i \in Items :
         /\ WaitsForTab(i) => "withdraw" \in env
         /\ Becomes(IF item[i].active THEN StopItem(ToBeRemoved(w, i), i)
                    ELSE RemoveItem(w, i, "gone"))
  BY DEF OnRemoveSelected
<1>4. CASE ~Undisturbed
  BY <1>2, <1>4 DEF CalmInv, Undisturbed
<1>5. CASE Undisturbed
  <2>1. Rests(w)
    BY <1>2, <1>5, HandlerRests
  <2>2. ~WaitsForTab(i)
    BY <1>3, <1>5 DEF Undisturbed
  <2> HIDE DEF w
  <2>3. CASE item[i].active
    <3> DEFINE u == StopItem(ToBeRemoved(w, i), i)
    <3>1. Becomes(u)
      BY <1>3, <2>3
    <3>2. \A id \in Engines : w.q.data[id].item = i => w.q.data[id].state # "waitprimary"
      BY <1>1, <2>2 DEF WaitsForTab
    <3>3. Book(u) /\ Rests(u)
      BY <1>1, <2>1, <2>3, <3>2, RestsRemoved
    <3> HIDE DEF u
    <3>4. Peace(u)
      BY <3>3, RestsPeace
    <3> QED
      BY <1>2, <3>1, <3>3, <3>4, CalmBecomes
  <2>4. CASE ~item[i].active
    <3>1. PICK p \in Places : p = "gone"
      BY DEF Places
    <3> DEFINE u == RemoveItem(w, i, p)
    <3>2. Becomes(u)
      BY <1>3, <2>4, <3>1
    <3>3. Book(u) /\ SameRest(w, u)
      BY <1>1, <2>4, <3>1, BookRemoved
    <3> HIDE DEF u
    <3>4. Rests(u)
      BY <2>1, <3>3, RestsSame DEF SameRest, SameMode
    <3>5. Peace(u)
      BY <3>3, <3>4, RestsPeace
    <3> QED
      BY <1>2, <3>2, <3>3, <3>5, CalmBecomes
  <2> QED
    BY <2>3, <2>4
<1> QED
  BY <1>4, <1>5
LEMMA DisconnectCalm ==
    ASSUME NEW d, NEW n \in NetRec, NEW has, EngineCalm(d, n, has, FALSE),
           d.active => d.state # "none", ~d.active => d.state # "disconnect",
           n.cmd = "none", n.inbox = <<>>, n.server # NoSite
    PROVE  EngineCalm(d, Executing(n, "disconnect", NoItem), has, FALSE)
<1> DEFINE m == Executing(n, "disconnect", NoItem)
<1>1. ~d.active /\ (has <=> TRUE)
  BY DEF EngineCalm, Due
<1>2. PICK cmd \in Commands, to \in Aims : cmd = "disconnect" /\ to = NoItem
  BY DEF Commands, Aims, Files
<1>3. m = Executing(n, cmd, to)
  BY <1>2
<1>4. m.cmd = cmd /\ m.to = to /\ m.server = n.server /\ m.inbox = n.inbox
  BY <1>3, ExecutingType
<1> HIDE DEF m
<1>5. Due(m, "disconnect", NoItem)
  BY <1>2, <1>4 DEF Due
<1>6. EngineCalm(d, m, has, FALSE)
  BY <1>1, <1>2, <1>4, <1>5 DEF EngineCalm
<1> QED
  BY <1>6 DEF m

LEMMA TimedCalm ==
    ASSUME NEW w, Book(w), Rests(w), NEW id \in Own, IsConnected(w, id), w.net[id].cmd = "none",
           w.net[id].inbox = <<>>
    PROVE  LET u == Execute(w, id, "disconnect", NoItem) IN Book(u) /\ Peace(u)
<1> DEFINE u == Execute(w, id, "disconnect", NoItem)
           d == w.q.data[id]
           n == w.net[id]
<1>1. w \in Worlds /\ id \in Engines /\ id # TabEngine /\ id # NoEngine
  BY OwnIn DEF Book, Own
<1>2. n \in NetRec /\ w.net \in [Engines -> NetRec] /\ n.server # NoSite /\ n.inbox = <<>>
      /\ n.cmd = "none"
  BY <1>1, NetType, WorldParts DEF IsConnected
<1>3. (d.active => d.state # "none") /\ (~d.active => d.state # "disconnect")
  BY <1>1 DEF Book, DataOK, GoodData
<1>4. Calm(w, NoEngine) /\ ~Unused(w) /\ w.q.sending = NoEngine /\ ~w.q.inside
  BY DEF Rests
<1>5. EngineCalm(d, n, HasData(w, id), id = NoEngine) /\ ~w.q.refused
  BY <1>4, CalmParts
<1>6. PICK cmd \in Commands, to \in Aims : cmd = "disconnect" /\ to = NoItem
  BY DEF Commands, Aims, Files
<1>7. u = Execute(w, id, cmd, to)
  BY <1>6
<1> HIDE DEF u
<1>8. /\ u.item = w.item /\ u.tab = w.tab /\ u.q = w.q
      /\ u.net = [w.net EXCEPT ![id] = Executing(w.net[id], cmd, to)]
  BY <1>1, <1>7, ExecutedViews
<1>9. Book(u)
  BY <1>1, <1>6, <1>7, BookExecute
<1>10. PICK has, no : has = HasData(w, id) /\ no = FALSE
  OBVIOUS
<1>11. HasData(u, id) = has /\ (id = NoEngine) = no
  BY <1>1, <1>8, <1>10 DEF HasData
<1>12. EngineCalm(d, n, has, FALSE)
  BY <1>5, <1>10, <1>11
<1> HIDE DEF d, n
<1>13. EngineCalm(d, Executing(n, cmd, to), has, no)
  BY <1>2, <1>3, <1>6, <1>10, <1>12, DisconnectCalm
<1>14. u.q.data[id] = d /\ u.net[id] = Executing(n, cmd, to)
  BY <1>1, <1>2, <1>8 DEF d, n
<1>15. EngineCalm(u.q.data[id], u.net[id], HasData(u, id), id = NoEngine)
  BY <1>11, <1>13, <1>14
<1>16. /\ ~u.q.refused /\ u.tab = w.tab
       /\ \A e \in Engines \ {id} : /\ u.q.data[e] = w.q.data[e] /\ u.net[e] = w.net[e]
                                    /\ HasData(u, e) <=> HasData(w, e)
  BY <1>2, <1>5, <1>8 DEF HasData
<1>17. Calm(u, NoEngine)
  BY <1>4, <1>15, <1>16, CalmOneQuiet
<1>18. Peace(u)
  BY <1>4, <1>8, <1>17 DEF Peace, Tidy, Unused, HasData, Data
<1> QED
  BY <1>9, <1>18 DEF u

LEMMA OnTimerCalm ==
    ASSUME BookInv, CalmInv, OnTimer
    PROVE  CalmInv'
<1> DEFINE w == World
<1>1. Book(w) /\ w.q = q /\ w.net = net
  BY InvWorld
<1>2. Handler /\ UNCHANGED env
  BY DEF OnTimer, Event
<1>3. PICK id \in Engines :
         \E x \in {WithData(w, id, [q.data[id] EXCEPT !.timer = FALSE])} :
            /\ q.data[id].timer
            /\ "race" \in env \/ net[id].inbox = <<>>
            /\ Becomes(IF IsConnected(x, id) /\ Precondition(x, id, "disconnect") # "busy"
                       THEN Execute(x, id, "disconnect", NoItem) ELSE x)
  BY DEF OnTimer
<1> DEFINE x == WithData(w, id, Untimed(w.q.data[id]))
           u == Execute(x, id, "disconnect", NoItem)
<1>4. /\ w.q.data[id].timer
      /\ "race" \in env \/ w.net[id].inbox = <<>>
      /\ Becomes(IF IsConnected(x, id) /\ Precondition(x, id, "disconnect") # "busy" THEN u ELSE x)
  BY <1>1, <1>3 DEF Untimed
<1> HIDE DEF w
<1>5. CASE ~Undisturbed
  BY <1>2, <1>5 DEF CalmInv, Undisturbed
<1>6. CASE Undisturbed
  <2>1. Rests(w)
    BY <1>2, <1>6, HandlerRests DEF w
  <2>2. id \in Own
    BY <1>1, <1>4 DEF Book, DataOK, GoodData, Own
  <2>3. /\ Book(x) /\ x.item = w.item /\ x.tab = w.tab /\ x.net = w.net
        /\ x.q.data = [w.q.data EXCEPT ![id] = Untimed(w.q.data[id])]
        /\ x.q.engines = w.q.engines
        /\ x.q.sending = w.q.sending /\ x.q.mode = w.q.mode /\ x.q.inside = w.q.inside
        /\ x.q.refused = w.q.refused
    BY <1>1, <1>4, BookUntimed
  <2> HIDE DEF x
  <2>4. Rests(x)
    <3>1. w \in Worlds /\ Calm(w, NoEngine) /\ Still(w) /\ ~Unused(w)
      BY <1>1, <2>1 DEF Book, Rests
    <3>2. ASSUME NEW e \in Engines
          PROVE  /\ Alike(w.q.data[e], x.q.data[e]) /\ Cancelled(w.net[e], x.net[e])
                 /\ HasData(x, e) <=> HasData(w, e)
      <4>1. Cancelled(w.net[e], x.net[e]) /\ (HasData(x, e) <=> HasData(w, e))
        BY <2>3 DEF Cancelled, HasData
      <4>2. w.q.data \in [Engines -> DataRec] /\ w.q.data[id] \in DataRec
        BY <3>1, WorldParts, DataType
      <4>3. Alike(w.q.data[id], Untimed(w.q.data[id]))
        BY <4>2, UntimedType DEF Alike
      <4>4. Alike(w.q.data[e], x.q.data[e])
        BY <2>3, <4>2, <4>3 DEF Alike
      <4> QED
        BY <4>1, <4>4
    <3>3. ~x.q.refused
      BY <2>3, <3>1, CalmParts
    <3>4. Calm(x, NoEngine) /\ (Still(w) => Still(x))
      BY <2>3, <3>1, <3>2, <3>3, CalmAlike
    <3>5. x.q.data[TabEngine] = w.q.data[TabEngine]
      <4>1. id # TabEngine /\ w.q.data \in [Engines -> DataRec]
        BY <2>2, <3>1, WorldParts DEF Own
      <4> QED
        BY <2>3, <4>1
    <3>6. ~Unused(x)
      BY <2>3, <3>1, <3>5 DEF Unused, HasData, Data
    <3> QED
      BY <2>1, <2>3, <3>1, <3>4, <3>6 DEF Rests
  <2>5. CASE IsConnected(x, id) /\ Precondition(x, id, "disconnect") # "busy"
    <3>1. x.net[id].cmd = "none" /\ x.net[id].inbox = <<>>
      BY <1>4, <1>6, <2>3, <2>5 DEF Precondition, Undisturbed
    <3>2. Book(u) /\ Peace(u)
      BY <2>2, <2>3, <2>4, <2>5, <3>1, TimedCalm
    <3> HIDE DEF u
    <3> QED
      BY <1>2, <1>4, <2>5, <3>2, CalmBecomes
  <2>6. CASE ~(IsConnected(x, id) /\ Precondition(x, id, "disconnect") # "busy")
    <3>1. Peace(x)
      BY <2>3, <2>4, RestsPeace
    <3> QED
      BY <1>2, <1>4, <2>3, <2>6, <3>1, CalmBecomes
  <2> QED
    BY <2>5, <2>6
<1> QED
  BY <1>5, <1>6
LEMMA TabBusyCalm ==
    ASSUME NEW d, NEW n \in NetRec, NEW t, NEW has, TabCalm(d, n, t, has, FALSE),
           ~t.lock, t.cmd = "none", NEW s \in Sites, NEW cmd \in {"browse", "connect", "disconnect"},
           cmd = "connect" <=> t.site = NoSite, cmd # "connect" => s = t.site,
           NEW x, x.cmd = cmd, x.lock = t.lock, x.wants = t.wants,
           x.site = IF cmd = "disconnect" THEN NoSite ELSE s
    PROVE  TabCalm(d, Executing(n, cmd, s), x, has, FALSE)
<1> DEFINE m == Executing(n, cmd, s)
<1>1. cmd \in Commands /\ s \in Aims
  BY DEF Commands, Aims
<1>2. m.cmd = cmd /\ m.to = s /\ m.server = n.server /\ m.inbox = n.inbox
  BY <1>1, ExecutingType
<1>3. ~Borrowed(d) /\ Clean(n) /\ ~t.wants /\ ~d.active
  BY DEF TabCalm, Borrowed
<1> HIDE DEF m
<1>4. Due(m, cmd, s)
  BY <1>2, <1>3 DEF Due, Clean
<1>5. \E to \in Aims : Due(m, x.cmd, to)
  BY <1>1, <1>4
<1>6. m.server \in {NoSite, t.site}
  BY <1>2 DEF TabCalm
<1>7. x.cmd # "disconnect" => m.server \in {NoSite, x.site}
  BY <1>6
<1>8. has /\ d.state # "waitprimary" => t.lock
  BY DEF TabCalm
<1>9. TabCalm(d, m, x, has, FALSE)
  BY <1>2, <1>3, <1>5, <1>7, <1>8 DEF TabCalm
<1> QED
  BY <1>9 DEF m

LEMMA TabCommandCalm ==
    ASSUME BookInv, CalmInv, TabCommand
    PROVE  CalmInv'
<1> DEFINE w == World
<1>1. Book(w) /\ w \in Worlds /\ w.q = q /\ w.tab = tab
  BY InvWorld
<1>2. Handler /\ UNCHANGED env /\ ~w.tab.lock /\ w.tab.cmd = "none"
  BY <1>1 DEF TabCommand, Event
<1>3. PICK cmd \in {"browse", "connect", "disconnect"}, s \in Sites :
         /\ (cmd = "connect") = (w.tab.site = NoSite)
         /\ cmd # "connect" => s = w.tab.site
         /\ Becomes(TabBegins(w, cmd, s))
  BY <1>1 DEF TabCommand
<1> DEFINE u == TabBegins(w, cmd, s)
           d == w.q.data[TabEngine]
           n == w.net[TabEngine]
<1>4. Undisturbed => Rests(w)
  BY <1>2, HandlerRests
<1> HIDE DEF w
<1>5. /\ Book(u) /\ u.q = w.q /\ u.item = w.item /\ u.tab = TabBegun(w.tab, cmd, s)
      /\ u.net = [w.net EXCEPT ![TabEngine] = Executing(w.net[TabEngine], cmd, s)]
  BY <1>1, BookTabBegins
<1> HIDE DEF u
<1>6. u.tab.cmd = cmd /\ u.tab.lock = w.tab.lock /\ u.tab.wants = w.tab.wants
      /\ u.tab.site = IF cmd = "disconnect" THEN NoSite ELSE s
  BY <1>1, <1>5, WorldParts, TabBegunType
<1>7. Undisturbed => Peace(u)
  <2> SUFFICES ASSUME Undisturbed PROVE Peace(u)
    OBVIOUS
  <2>1. Calm(w, NoEngine) /\ ~Unused(w) /\ w.q.sending = NoEngine /\ ~w.q.inside
    BY <1>4 DEF Rests
  <2>2. TabCalm(d, n, w.tab, HasData(w, TabEngine), TabEngine = NoEngine) /\ ~w.q.refused
    BY <2>1, CalmParts
  <2>3. n \in NetRec /\ w.net \in [Engines -> NetRec] /\ TabEngine \in Engines
        /\ TabEngine # NoEngine
    BY <1>1, NetType, WorldParts, OwnIn
  <2>4. PICK has, no, x, t : /\ has = HasData(w, TabEngine) /\ no = FALSE /\ x = u.tab
                             /\ t = w.tab
    OBVIOUS
  <2>5. HasData(u, TabEngine) = has /\ (TabEngine = NoEngine) = no
    BY <1>5, <2>3, <2>4 DEF HasData
  <2>6. TabCalm(d, n, t, has, FALSE)
    BY <2>2, <2>4, <2>5
  <2> HIDE DEF d, n
  <2>7. TabCalm(d, Executing(n, cmd, s), x, has, FALSE)
    <3>1. ~t.lock /\ t.cmd = "none" /\ (cmd = "connect" <=> t.site = NoSite)
          /\ (cmd # "connect" => s = t.site)
      BY <1>2, <1>3, <2>4
    <3>2. x.cmd = cmd /\ x.lock = t.lock /\ x.wants = t.wants
          /\ x.site = IF cmd = "disconnect" THEN NoSite ELSE s
      BY <1>6, <2>4
    <3> QED
      BY <2>3, <2>6, <3>1, <3>2, TabBusyCalm
  <2>8. u.q.data[TabEngine] = d /\ u.net[TabEngine] = Executing(n, cmd, s)
    BY <1>5, <2>3 DEF d, n
  <2>9. TabCalm(u.q.data[TabEngine], u.net[TabEngine], u.tab, HasData(u, TabEngine),
                TabEngine = NoEngine)
    BY <2>4, <2>5, <2>7, <2>8
  <2>10. /\ ~u.q.refused
         /\ \A e \in Engines \ {TabEngine} : /\ u.q.data[e] = w.q.data[e] /\ u.net[e] = w.net[e]
                                             /\ HasData(u, e) <=> HasData(w, e)
    BY <1>5, <2>2, <2>3 DEF HasData
  <2>11. Calm(u, NoEngine)
    BY <2>1, <2>9, <2>10, CalmOneTab
  <2> QED
    BY <1>5, <2>1, <2>11 DEF Peace, Tidy, Unused, HasData, Data
<1> QED
  BY <1>2, <1>3, <1>5, <1>7, CalmBecomes DEF u

LEMMA InitCalm ==
    ASSUME Init
    PROVE  CalmInv
<1> DEFINE w == World
           d == NewData("none")
<1>1. /\ w.q = q /\ w.net = net /\ w.tab = tab
      /\ q.engines = <<>> /\ q.data = [id \in Engines |-> d]
      /\ q.sending = NoEngine /\ ~q.inside /\ ~q.refused
  BY DEF Init, World
<1>2. /\ tab.cmd = "none" /\ ~tab.lock /\ ~tab.wants
      /\ \A id \in Engines : /\ net[id].cmd = "none" /\ net[id].inbox = <<>> /\ ~net[id].late
                             /\ net[id].server = IF id = TabEngine THEN tab.site ELSE NoSite
  BY DEF Init
<1>3. ~d.active /\ d.state = "none" /\ d.item = NoItem
  BY DEF NewData
<1> HIDE DEF w, d
<1>4. \A id : ~HasData(w, id)
  BY <1>1 DEF HasData, Contains
<1>5. \A id \in Engines : Clean(net[id])
  BY <1>2 DEF Clean
<1>6. ASSUME NEW e \in Own
      PROVE  EngineCalm(w.q.data[e], w.net[e], HasData(w, e), e = w.q.sending)
  <2>1. e \in Engines /\ e # TabEngine
    BY OwnIn
  <2>2. w.q.data[e] = d /\ w.net[e] = net[e] /\ net[e].server = NoSite /\ Clean(net[e])
        /\ ~net[e].late /\ net[e].cmd = "none" /\ ~HasData(w, e)
    BY <1>1, <1>2, <1>4, <1>5, <2>1
  <2> QED
    BY <1>3, <2>2 DEF EngineCalm
<1>7. TabCalm(w.q.data[TabEngine], w.net[TabEngine], w.tab, HasData(w, TabEngine),
              TabEngine = w.q.sending)
  <2>1. w.q.data[TabEngine] = d /\ w.net[TabEngine] = net[TabEngine]
        /\ net[TabEngine].server = tab.site /\ Clean(net[TabEngine])
        /\ ~net[TabEngine].late /\ net[TabEngine].cmd = "none" /\ ~HasData(w, TabEngine)
    BY <1>1, <1>2, <1>4, <1>5, OwnIn
  <2> QED
    BY <1>1, <1>2, <1>3, <2>1 DEF TabCalm, Borrowed
<1>8. Calm(w, w.q.sending)
  BY <1>1, <1>6, <1>7 DEF Calm, OwnCalm, LentCalm
<1>9. Tidy(w)
  BY <1>4 DEF Tidy, Unused
<1>10. Peace(w)
  BY <1>1, <1>8, <1>9 DEF Peace
<1> QED
  BY <1>10 DEF CalmInv, w

LEMMA NextCalm ==
    ASSUME BookInv, CalmInv, [Next]_vars
    PROVE  CalmInv'
<1>1. ASSUME Interface PROVE CalmInv'
  BY <1>1, SendNextCommandCalm, StartNextTransferCalm, FinishCalm,
     OnExclusiveEngineRequestGrantedCalm, OnEngineEventCalm DEF Interface
<1>2. ASSUME UNCHANGED vars PROVE CalmInv'
  BY <1>2 DEF vars, CalmInv, Undisturbed, World
<1> QED
  BY <1>1, <1>2, EngineStepsCalm, QueueFileCalm, SetActiveCalm, StopCalm, OnRemoveSelectedCalm,
     RemoveAllCalm, OnTimerCalm, TabCommandCalm DEF Next

(* While nothing is withdrawn and no handler runs as an idle engine        *)
(* disconnects, every engine does the one thing its record says.           *)
THEOREM CalmKept == Spec => [](BookInv /\ CalmInv)
<1>1. Init => BookInv /\ CalmInv
  BY InitBook, InitCalm
<1>2. BookInv /\ CalmInv /\ [Next]_vars => (BookInv /\ CalmInv)'
  BY NextBook, NextCalm
<1> QED
  BY <1>1, <1>2, PTL DEF Spec

LEMMA CalmServer ==
    ASSUME BookInv, CalmInv, Undisturbed
    PROVE  RightServer
<1> DEFINE w == World
           h == w.q.sending
<1>1. Book(w) /\ w.q = q /\ w.item = item /\ w.tab = tab /\ w.net = net
  BY InvWorld
<1>2. Peace(w)
  BY CalmWorld
<1> HIDE DEF w
<1>3. ASSUME NEW id \in Engines, net[id].cmd \in {"transfer", "mkdir"}
      PROVE  /\ net[id].server = SiteOf[net[id].to]
             /\ id = TabEngine => tab.lock /\ tab.cmd = "none"
  <2> DEFINE d == w.q.data[id]
             n == w.net[id]
             s == SiteOf[n.to]
  <2>1. n.to \in Items /\ n.to # NoItem
    BY <1>1, <1>3, QueueAssumption DEF Book, ToOK
  <2>2. d.item = n.to => d.site = s
    BY <1>1, <2>1 DEF Book, ItemsOK
  <2>3. s # NoSite
    BY <2>1, QueueAssumption
  <2>4. n.cmd \in {"transfer", "mkdir"}
    BY <1>1, <1>3
  <2> HIDE DEF s
  <2>5. CASE id \in Own
    <3>1. EngineCalm(d, n, HasData(w, id), id = h)
      BY <1>2, <2>5, CalmParts DEF Peace
    <3> HIDE DEF d, n, h
    <3>2. ~Clean(n) /\ ~Due(n, "disconnect", NoItem)
      BY <2>4 DEF Clean, Due
    <3>3. Due(n, d.state, d.item) /\ n.server # NoSite /\ (d.state # "disconnect" =>
             n.server \in {NoSite, d.site})
      BY <2>4, <3>1, <3>2 DEF EngineCalm
    <3>4. n.cmd = d.state /\ n.to = d.item
      BY <2>4, <3>3 DEF Due
    <3>5. n.server = s
      BY <2>2, <2>4, <3>3, <3>4
    <3> QED
      BY <1>1, <2>5, <3>5, OwnIn DEF n, s
  <2>6. CASE id = TabEngine
    <3>1. TabCalm(d, n, w.tab, HasData(w, id), id = h)
      BY <1>2, <2>6, CalmParts DEF Peace
    <3>2. w.tab.cmd \in {"none", "browse", "connect", "disconnect"}
      BY <1>1, WorldParts DEF Book, TabRec
    <3> HIDE DEF d, n, h
    <3>3. ~Clean(n) /\ \A to : ~Due(n, w.tab.cmd, to)
      BY <2>4, <3>2 DEF Clean, Due
    <3>4. Borrowed(d) /\ w.tab.lock /\ Due(n, d.state, d.item) /\ w.tab.cmd = "none"
      BY <3>1, <3>3 DEF TabCalm
    <3>5. n.server # NoSite /\ n.server \in {NoSite, w.tab.site} /\ d.site = w.tab.site
      BY <2>4, <3>1, <3>4 DEF TabCalm, Borrowed
    <3>6. n.to = d.item
      BY <2>4, <3>4 DEF Due
    <3>7. n.server = s
      BY <2>2, <3>5, <3>6
    <3> QED
      BY <1>1, <3>4, <3>7 DEF n, s
  <2> QED
    BY <2>5, <2>6, OwnIn
<1> QED
  BY <1>3 DEF RightServer

LEMMA CalmReply ==
    ASSUME BookInv, CalmInv, Undisturbed
    PROVE  ReplyIsDue
<1> DEFINE w == World
           h == w.q.sending
<1>1. w.q = q /\ w.net = net
  BY InvWorld
<1>2. Peace(w)
  BY CalmWorld
<1> HIDE DEF w
<1>3. ASSUME NEW id \in Active, q.data[id].state # "waitprimary", q.sending # id
      PROVE  Due(net[id], q.data[id].state, q.data[id].item)
  <2> DEFINE d == w.q.data[id]
             n == w.net[id]
  <2>1. id \in Engines /\ d.active /\ d.state # "waitprimary" /\ id # h
    BY <1>1, <1>3 DEF Active
  <2>2. CASE id \in Own
    <3>1. EngineCalm(d, n, HasData(w, id), id = h)
      BY <1>2, <2>2, CalmParts DEF Peace
    <3> HIDE DEF d, n, h
    <3>2. Due(n, d.state, d.item)
      BY <2>1, <3>1 DEF EngineCalm
    <3> QED
      BY <1>1, <3>2 DEF d, n
  <2>3. CASE id = TabEngine
    <3>1. TabCalm(d, n, w.tab, HasData(w, id), id = h)
      BY <1>2, <2>3, CalmParts DEF Peace
    <3> HIDE DEF d, n, h
    <3>2. Due(n, d.state, d.item)
      BY <2>1, <3>1 DEF TabCalm, Borrowed
    <3> QED
      BY <1>1, <3>2 DEF d, n
  <2> QED
    BY <2>1, <2>2, <2>3, OwnIn
<1> QED
  BY <1>3 DEF ReplyIsDue, Due

LEMMA CalmNeverBusy ==
    ASSUME BookInv, CalmInv, Undisturbed
    PROVE  NeverBusy
<1>1. Peace(World) /\ World.q = q
  BY CalmWorld, InvWorld
<1> QED
  BY <1>1 DEF Peace, Calm, NeverBusy

(* A file is sent to its own server only, and through the engine of a tab  *)
(* only while that is lent to the queue: an engine is disconnected before  *)
(* it serves another site, and the tab does nothing while it is locked.    *)
(* This is without the two disturbances: an item withdrawn while it waits  *)
(* for a tab, and a handler that runs while an idle engine disconnects.    *)
THEOREM OnlyToItsServer == Spec => [](Undisturbed => RightServer)
<1>1. BookInv /\ CalmInv => (Undisturbed => RightServer)
  BY CalmServer
<1> QED
  BY <1>1, CalmKept, PTL

(* Undisturbed, the reply ProcessReply is given is the one to the command  *)
(* of the engine's state for its file: no reply is lost or taken for       *)
(* another.                                                                *)
THEOREM RepliesAreDue == Spec => [](Undisturbed => ReplyIsDue)
<1>1. BookInv /\ CalmInv => (Undisturbed => ReplyIsDue)
  BY CalmReply
<1> QED
  BY <1>1, CalmKept, PTL

(* Undisturbed, SendNextCommand never gives a command to an engine that has*)
(* one: its assertion on FZ_REPLY_BUSY holds.                              *)
THEOREM NeverSentToBusy == Spec => [](Undisturbed => NeverBusy)
<1>1. BookInv /\ CalmInv => (Undisturbed => NeverBusy)
  BY CalmNeverBusy
<1> QED
  BY <1>1, CalmKept, PTL

-----------------------------------------------------------------------------
(* A reply that tells of a file that has been transferred.                 *)
Tells(n) ==
    n.inbox # <<>> /\ n.inbox[1].code = "ok" /\ n.inbox[1].cmd \in {"transfer", "mkdir"}

(* What is true of the record of a file: without an engine it has been     *)
(* transferred only if it is on no list.                                   *)
FileOnce(r) ==
    /\ r.sent <= 1
    /\ r.where = "done" => r.sent = 1
    /\ r.where = "out" => r.sent = 0
    /\ r.where = "queue" /\ ~r.active => r.sent = 0

(* A file with an engine has been transferred only if the reply tells so,  *)
(* or if it is file x, whose success is being handled.                     *)
SentBy(d, n, x) == IF d.item = x \/ Tells(n) THEN 1 ELSE 0
HeldOnce(w, x) ==
    \A e \in Engines :
        w.q.data[e].item # NoItem =>
            w.item[w.q.data[e].item].sent = SentBy(w.q.data[e], w.net[e], x)
Once(w, x) == (\A i \in Items : FileOnce(w.item[i])) /\ HeldOnce(w, x)

LEMMA OnceItems ==
    ASSUME NEW w, Book(w)
    PROVE  /\ \A e \in Engines : w.q.data[e].item \in Items \cup {NoItem}
           /\ \A e \in Engines : ~w.q.data[e].active \/ ~HasData(w, e) => w.q.data[e].item = NoItem
           /\ \A i \in Items : w.item[i].sent \in Nat /\ w.item[i].active \in BOOLEAN
           /\ NoItem \notin Items
<1>1. w \in Worlds /\ DataOK(w)
  BY DEF Book
<1>2. ASSUME NEW e \in Engines
      PROVE  /\ w.q.data[e].item \in Items \cup {NoItem}
             /\ ~w.q.data[e].active \/ ~HasData(w, e) => w.q.data[e].item = NoItem
  <2>1. w.q.data[e].item \in Items \cup {NoItem}
    BY <1>1, DataType DEF Files
  <2>2. GoodData(e, w.q.data[e]) /\ (~HasData(w, e) => w.q.data[e] = NewData("none"))
    BY <1>1 DEF DataOK
  <2>3. NewData("none").item = NoItem
    BY DEF NewData
  <2> QED
    BY <2>1, <2>2, <2>3 DEF GoodData
<1>3. \A i \in Items : w.item[i].sent \in Nat /\ w.item[i].active \in BOOLEAN
  BY <1>1, ItemType DEF ItemRec
<1> QED
  BY <1>2, <1>3, QueueAssumption

(* Files keep what was sent of them; engines may lose their files.         *)
LEMMA OnceFrame ==
    ASSUME NEW w, NEW x, Once(w, x), NEW u,
           \A i \in Items : u.item[i].sent = w.item[i].sent /\ FileOnce(u.item[i]),
           \A e \in Engines : /\ w.q.data[e].item \in Items \cup {NoItem}
                              /\ u.q.data[e].item \in {w.q.data[e].item, NoItem}
                              /\ u.q.data[e].item # NoItem => (Tells(u.net[e]) <=> Tells(w.net[e]))
    PROVE  Once(u, x)
<1>1. ASSUME NEW e \in Engines, u.q.data[e].item # NoItem
      PROVE  u.item[u.q.data[e].item].sent = SentBy(u.q.data[e], u.net[e], x)
  <2> DEFINE i == w.q.data[e].item
  <2>1. u.q.data[e].item = i /\ i \in Items /\ i # NoItem /\ (Tells(u.net[e]) <=> Tells(w.net[e]))
    BY <1>1
  <2>2. w.item[i].sent = SentBy(w.q.data[e], w.net[e], x)
    BY <2>1 DEF Once, HeldOnce
  <2>3. SentBy(u.q.data[e], u.net[e], x) = SentBy(w.q.data[e], w.net[e], x)
    BY <2>1 DEF SentBy
  <2>4. u.item[i].sent = w.item[i].sent
    BY <2>1
  <2> HIDE DEF i
  <2> QED
    BY <2>1, <2>2, <2>3, <2>4
<1> QED
  BY <1>1 DEF Once, HeldOnce

LEMMA FileSame ==
    ASSUME NEW r, FileOnce(r), NEW k, k.sent = r.sent, k.where = r.where,
           ~k.active => ~r.active \/ r.sent = 0 \/ r.where # "queue"
    PROVE  FileOnce(k)
BY DEF FileOnce

(* The same files are at the same engines.                                 *)
LEMMA OnceSame ==
    ASSUME NEW w, Book(w), NEW x, Once(w, x), NEW u,
           \A i \in Items : /\ u.item[i].sent = w.item[i].sent
                            /\ u.item[i].where = w.item[i].where
                            /\ u.item[i].active = w.item[i].active,
           \A e \in Engines : /\ u.q.data[e].item \in {w.q.data[e].item, NoItem}
                              /\ u.q.data[e].item # NoItem => (Tells(u.net[e]) <=> Tells(w.net[e]))
    PROVE  Once(u, x)
<1>1. \A i \in Items : u.item[i].sent = w.item[i].sent /\ FileOnce(u.item[i])
  <2> SUFFICES ASSUME NEW i \in Items PROVE u.item[i].sent = w.item[i].sent /\ FileOnce(u.item[i])
    OBVIOUS
  <2>1. FileOnce(w.item[i])
    BY DEF Once
  <2> QED
    BY <2>1, FileSame
<1>2. \A e \in Engines : w.q.data[e].item \in Items \cup {NoItem}
  BY OnceItems
<1> QED
  BY <1>1, <1>2, OnceFrame

LEMMA GrownOnce ==
    ASSUME NEW w, Book(w), NEW u, Grown(w, u), NEW x, Once(w, x)
    PROVE  Once(u, x)
<1>1. Book(u) /\ u.item = w.item /\ u.net = w.net
  BY DEF Grown
<1>2. ASSUME NEW e \in Engines
      PROVE  u.q.data[e].item \in {w.q.data[e].item, NoItem}
  <2>1. CASE HasData(w, e)
    BY <2>1 DEF Grown
  <2>2. CASE ~HasData(w, e) /\ HasData(u, e)
    <3>1. u.q.data[e] = NewData(NewState(e))
      BY <2>2 DEF Grown
    <3>2. \A s : NewData(s).item = NoItem
      BY DEF NewData
    <3> QED
      BY <3>1, <3>2
  <2>3. CASE ~HasData(u, e)
    BY <1>1, <2>3, OnceItems
  <2> QED
    BY <2>1, <2>2, <2>3
<1> QED
  BY <1>1, <1>2, OnceSame

LEMMA TellsSame ==
    ASSUME NEW n, NEW m, m.inbox = n.inbox
    PROVE  Tells(m) <=> Tells(n)
BY DEF Tells

LEMMA SettledOnce ==
    ASSUME NEW w, Book(w), NEW u, Settled(w, u), NEW x, Once(w, x)
    PROVE  Once(u, x)
<1>1. u.item = w.item
  BY DEF Settled
<1>2. ASSUME NEW e \in Engines
      PROVE  u.q.data[e].item \in {w.q.data[e].item, NoItem} /\ u.net[e].inbox = w.net[e].inbox
  <2>1. CASE e \in Own
    <3>1. CASE Unmoved(w, u, e)
      BY <3>1 DEF Unmoved, Alike
    <3>2. CASE Refreshing(w, u, e)
      <4>1. w.q.data[e] \in DataRec /\ w.net[e] \in NetRec
        BY DataType, NetType DEF Book
      <4>2. Listing(w.q.data[e]).item = w.q.data[e].item
        BY <4>1, ListingType
      <4>3. u.net[e].inbox = w.net[e].inbox
        BY <3>2, <4>1 DEF Refreshing, Executing, NetRec
      <4> QED
        BY <3>2, <4>2, <4>3 DEF Refreshing, Alike
    <3> QED
      BY <2>1, <3>1, <3>2 DEF Settled
  <2>2. CASE e = TabEngine
    BY <2>2 DEF Settled, NewData
  <2> QED
    BY <2>1, <2>2, OwnIn
<1>3. \A e \in Engines : Tells(u.net[e]) <=> Tells(w.net[e])
  BY <1>2, TellsSame
<1> QED
  BY <1>1, <1>2, <1>3, OnceSame

LEMMA FreeTellsNot ==
    ASSUME NEW d, NEW n, NEW t, NEW has, NEW held, TabCalm(d, n, t, has, held), ~Borrowed(d),
           t.cmd \in {"none", "browse", "connect", "disconnect"}
    PROVE  ~Tells(n)
<1>1. n.inbox = <<>> \/ n.inbox[1].cmd = t.cmd
  BY DEF TabCalm, Clean, Due
<1> QED
  BY <1>1 DEF Tells

(* The reply of an engine that has no file does not tell of one, nor does  *)
(* that of the engine of a tab that waits.                                 *)
LEMMA TabTellsNot ==
    ASSUME NEW w \in Worlds, NEW h, Calm(w, h), ~Borrowed(w.q.data[TabEngine])
    PROVE  ~Tells(w.net[TabEngine])
<1>1. w.tab.cmd \in {"none", "browse", "connect", "disconnect"}
  BY TabType
<1>2. TabCalm(w.q.data[TabEngine], w.net[TabEngine], w.tab, HasData(w, TabEngine), TabEngine = h)
  BY CalmParts
<1>3. PICK d, n, has, held : /\ d = w.q.data[TabEngine] /\ n = w.net[TabEngine]
                             /\ has = HasData(w, TabEngine) /\ held = (TabEngine = h)
  OBVIOUS
<1>4. TabCalm(d, n, w.tab, has, held) /\ ~Borrowed(d)
  BY <1>2, <1>3
<1>5. ~Tells(n)
  BY <1>1, <1>4, FreeTellsNot
<1> QED
  BY <1>3, <1>5

LEMMA CleanTellsNot ==
    ASSUME NEW n, Clean(n)
    PROVE  ~Tells(n)
BY DEF Clean, Tells

LEMMA AssignOnce ==
    ASSUME NEW v, NEW i, NEW id, Starts(v, i, id), Calm(v, NoEngine), Still(v), Once(v, NoItem)
    PROVE  Once(Assign(v, i, id), NoItem)
<1> DEFINE u == Assign(v, i, id)
           r == v.item[i]
           k == [r EXCEPT !.active = TRUE]
<1>1. /\ Book(v) /\ v \in Worlds /\ i \in Items /\ id \in Engines /\ ~r.active
      /\ ~v.q.data[id].active /\ i # NoItem
  BY QueueAssumption DEF Starts, Book
<1>2. /\ u \in Worlds /\ Given(v, i, id) \in DataRec
      /\ u.q.data = [v.q.data EXCEPT ![id] = Given(v, i, id)]
      /\ u.q.data[id] = Given(v, i, id)
      /\ \A e \in Engines \ {id} : u.q.data[e] = v.q.data[e]
      /\ u.q.busy = [v.q.busy EXCEPT ![SiteOf[i]] = v.q.busy[SiteOf[i]] + 1]
      /\ u.q.count = v.q.count + 1
      /\ u.q.down = v.q.down + (IF Download(i) THEN 1 ELSE 0)
      /\ u.q.up = v.q.up + (IF Download(i) THEN 0 ELSE 1)
      /\ u.item = [v.item EXCEPT ![i] = k]
      /\ u.q.sending = id /\ u.q.engines = v.q.engines /\ SameLists(v, u)
      /\ u.q.mode = v.q.mode /\ u.q.inside = v.q.inside /\ u.q.refused = v.q.refused
      /\ u.tab = v.tab /\ u.net = v.net
  BY <1>1, AssignViews
<1>3. Given(v, i, id).item = i
  BY <1>1, GivenFields
<1>4. r \in ItemRec /\ v.item \in [Items -> ItemRec]
  BY <1>1, ItemType, WorldParts
<1>5. k.active /\ k.where = r.where /\ k.sent = r.sent
  BY <1>4 DEF ItemRec
<1>6. r.where = "queue" /\ FileOnce(r)
  BY <1>1 DEF Starts, Book, ListsOK, Once
<1>7. r.sent = 0
  BY <1>1, <1>6 DEF FileOnce
<1> HIDE DEF r, k, u
<1>8. FileOnce(k)
  BY <1>5, <1>6, FileSame
<1>9. \A j \in Items : FileOnce(u.item[j]) /\ u.item[j].sent = v.item[j].sent
  BY <1>2, <1>4, <1>5, <1>8 DEF Once, r
<1>10. ~Tells(v.net[id])
  <2>1. CASE id \in Own
    BY <1>1, <2>1, CleanTellsNot DEF Still
  <2>2. CASE id = TabEngine
    BY <1>1, <2>2, TabTellsNot DEF Borrowed
  <2> QED
    BY <1>1, <2>1, <2>2, OwnIn
<1>11. ASSUME NEW e \in Engines, u.q.data[e].item # NoItem
       PROVE  u.item[u.q.data[e].item].sent = SentBy(u.q.data[e], u.net[e], NoItem)
  <2>1. CASE e = id
    <3>1. u.q.data[e].item = i /\ u.net[e] = v.net[id]
      BY <1>2, <1>3, <2>1
    <3>2. u.item[i].sent = 0
      BY <1>1, <1>7, <1>9 DEF r
    <3>3. SentBy(u.q.data[e], u.net[e], NoItem) = 0
      BY <1>1, <1>10, <3>1 DEF SentBy
    <3> QED
      BY <3>1, <3>2, <3>3
  <2>2. CASE e # id
    <3>1. u.q.data[e] = v.q.data[e] /\ u.net[e] = v.net[e]
      BY <1>2, <2>2
    <3>2. v.q.data[e].item \in Items
      BY <1>1, <1>11, <3>1, OnceItems
    <3>3. v.item[v.q.data[e].item].sent = SentBy(v.q.data[e], v.net[e], NoItem)
      BY <1>11, <3>1 DEF Once, HeldOnce
    <3> QED
      BY <1>9, <3>1, <3>2, <3>3
  <2> QED
    BY <2>1, <2>2
<1> QED
  BY <1>9, <1>11 DEF Once, HeldOnce, u

TabSilent(w) == ~Borrowed(w.q.data[TabEngine]) => ~Tells(w.net[TabEngine])

LEMMA CalmSilent ==
    ASSUME NEW w \in Worlds, NEW h, Calm(w, h)
    PROVE  TabSilent(w)
BY TabTellsNot DEF TabSilent

(* The queue has been stopped; a file that waited for a tab is let go.     *)
LEMMA HaltedOnce ==
    ASSUME NEW w, Book(w), NEW u, Halted(w, u), TabSilent(w), Once(w, NoItem)
    PROVE  Once(u, NoItem)
<1>1. Book(u) /\ w \in Worlds /\ u \in Worlds
  BY DEF Halted, Book
<1>2. ASSUME NEW e \in Engines
      PROVE  /\ w.q.data[e].item \in Items \cup {NoItem}
             /\ u.q.data[e].item \in {w.q.data[e].item, NoItem}
             /\ Tells(u.net[e]) <=> Tells(w.net[e])
             /\ u.q.data[e].item # w.q.data[e].item => ~Tells(w.net[e])
  <2>1. w.net[e] \in NetRec /\ Cancelled(w.net[e], u.net[e])
    BY <1>1, NetType DEF Halted
  <2>2. u.net[e].inbox = w.net[e].inbox
    BY <2>1 DEF Cancelled, NetRec
  <2>3. Tells(u.net[e]) <=> Tells(w.net[e])
    BY <2>2, TellsSame
  <2>4. CASE e \in Own
    <3>1. u.q.data[e].item = w.q.data[e].item
      BY <2>4 DEF Halted, Alike
    <3> QED
      BY <2>3, <3>1, OnceItems
  <2>5. CASE e = TabEngine /\ SameTab(w, u)
    BY <2>3, <2>5, OnceItems DEF SameTab
  <2>6. CASE e = TabEngine /\ GivesBack(w, u)
    <3>1. u.q.data[e].item = NoItem /\ ~Borrowed(w.q.data[TabEngine])
      BY <2>6 DEF GivesBack, NewData, Borrowed
    <3>2. ~Tells(w.net[e])
      BY <2>6, <3>1 DEF TabSilent
    <3> QED
      BY <2>3, <3>1, <3>2, OnceItems
  <2> QED
    BY <2>4, <2>5, <2>6, OwnIn DEF Halted
<1>3. ASSUME NEW i \in Items
      PROVE  u.item[i].sent = w.item[i].sent /\ FileOnce(u.item[i])
  <2>1. u.item[i].sent = w.item[i].sent /\ u.item[i].where = w.item[i].where
    BY DEF Halted
  <2>2. FileOnce(w.item[i])
    BY DEF Once
  <2>3. CASE u.item[i].active \/ ~w.item[i].active
    BY <2>1, <2>2, <2>3, FileSame
  <2>4. CASE ~u.item[i].active /\ w.item[i].active
    <3>1. PICK e \in Engines : w.q.data[e].item = i
      BY <1>1, <2>4, ActiveQueued
    <3>2. i # NoItem
      BY QueueAssumption
    <3>3. u.q.data[e].item # i
      BY <1>1, <2>4, <3>2 DEF Book, ItemsOK
    <3>4. ~Tells(w.net[e])
      BY <1>2, <3>1, <3>3
    <3>5. w.item[i].sent = SentBy(w.q.data[e], w.net[e], NoItem)
      BY <3>1, <3>2 DEF Once, HeldOnce
    <3>6. w.item[i].sent = 0
      BY <3>1, <3>2, <3>4, <3>5 DEF SentBy
    <3> QED
      BY <2>1, <2>2, <3>6, FileSame
  <2> QED
    BY <2>3, <2>4
<1> QED
  BY <1>2, <1>3, OnceFrame

(* The reply of engine id has been taken: the file it tells of is x.       *)
LEMMA TakenOnce ==
    ASSUME NEW w, Book(w), Once(w, NoItem), NEW id \in Engines, NEW u, u.item = w.item,
           u.q.data = w.q.data, \A e \in Engines \ {id} : u.net[e] = w.net[e], ~Tells(u.net[id]),
           NEW x, x = IF Tells(w.net[id]) THEN w.q.data[id].item ELSE NoItem
    PROVE  Once(u, x)
<1>1. ASSUME NEW e \in Engines, u.q.data[e].item # NoItem
      PROVE  u.item[u.q.data[e].item].sent = SentBy(u.q.data[e], u.net[e], x)
  <2>1. w.item[w.q.data[e].item].sent = SentBy(w.q.data[e], w.net[e], NoItem)
    BY <1>1 DEF Once, HeldOnce
  <2>2. CASE e = id
    BY <1>1, <2>1, <2>2 DEF SentBy
  <2>3. CASE e # id
    <3>1. w.q.data[e].item # w.q.data[id].item
      BY <1>1, <2>3 DEF Book, ItemsOK
    <3> QED
      BY <1>1, <2>1, <2>3, <3>1 DEF SentBy
  <2> QED
    BY <2>2, <2>3
<1> QED
  BY <1>1 DEF Once, HeldOnce

(* What may be decided about the file of engine id: it is successful if it *)
(* has been transferred, and stays if it has not been.                     *)
Suited(w, id, reason) ==
    w.q.data[id].item # NoItem =>
        /\ reason = "success" => w.item[w.q.data[id].item].sent = 1
        /\ Stays(reason) => w.item[w.q.data[id].item].sent = 0

LEMMA LeftOnce ==
    ASSUME NEW r \in ItemRec, FileOnce(r), NEW reason \in Reasons,
           reason = "success" => r.sent = 1, Stays(reason) => r.sent = 0
    PROVE  FileOnce(Left(r, reason)) /\ Left(r, reason).sent = r.sent
<1> DEFINE k == Left(r, reason)
<1>1. /\ k.where = (IF Stays(reason) THEN r.where ELSE OutTo(reason)) /\ k.sent = r.sent
      /\ OutTo(reason) \in {"failed", "done", "gone"}
  BY LeftFields
<1>2. OutTo(reason) = "done" => reason = "success"
  BY DEF OutTo
<1> HIDE DEF k
<1>3. FileOnce(k)
  <2>1. CASE Stays(reason)
    BY <1>1, <2>1 DEF FileOnce
  <2>2. CASE ~Stays(reason)
    BY <1>1, <1>2, <2>2 DEF FileOnce
  <2> QED
    BY <2>1, <2>2
<1> QED
  BY <1>1, <1>3 DEF k

LEMMA ResetOnce ==
    ASSUME NEW w, Book(w), NEW id \in Engines, NEW reason \in Reasons, Suited(w, id, reason),
           NEW x \in {NoItem, w.q.data[id].item}, Once(w, x)
    PROVE  Once(Reset(w, id, reason), NoItem)
<1> DEFINE u == Reset(w, id, reason)
           i == w.q.data[id].item
<1>1. w \in Worlds /\ w.q.data \in [Engines -> DataRec] /\ w.q.data[id] \in DataRec
  BY WorldParts, DataType DEF Book
<1>2. /\ FreedData(w, u, id)
      /\ i = NoItem => FreedOfNone(w, u)
      /\ i # NoItem => FreedOf(w, u, i, reason)
  BY <1>1, ResetViews
<1>3. /\ u.net = w.net /\ u.q.data[id].item = NoItem
      /\ \A e \in Engines \ {id} : u.q.data[e] = w.q.data[e]
  BY <1>1, <1>2, FreedType DEF FreedData
<1> HIDE DEF u
<1>4. ASSUME NEW j \in Items
      PROVE  u.item[j].sent = w.item[j].sent /\ FileOnce(u.item[j])
  <2>1. FileOnce(w.item[j]) /\ w.item[j] \in ItemRec
    BY <1>1, ItemType DEF Once
  <2>2. CASE i # NoItem /\ j = i
    <3>1. u.item[j] = Left(w.item[j], reason)
      BY <1>2, <2>2 DEF FreedOf
    <3>2. (reason = "success" => w.item[j].sent = 1) /\ (Stays(reason) => w.item[j].sent = 0)
      BY <2>2 DEF Suited
    <3> QED
      BY <2>1, <3>1, <3>2, LeftOnce
  <2>3. CASE i = NoItem \/ j # i
    <3>1. u.item[j] = w.item[j]
      BY <1>2, <2>3 DEF FreedOf, FreedOfNone
    <3> QED
      BY <2>1, <3>1
  <2> QED
    BY <2>2, <2>3
<1>5. ASSUME NEW e \in Engines, u.q.data[e].item # NoItem
      PROVE  u.item[u.q.data[e].item].sent = SentBy(u.q.data[e], u.net[e], NoItem)
  <2>1. e # id /\ u.q.data[e] = w.q.data[e]
    BY <1>3, <1>5
  <2>2. w.item[w.q.data[e].item].sent = SentBy(w.q.data[e], w.net[e], x)
    BY <1>5, <2>1 DEF Once, HeldOnce
  <2>3. w.q.data[e].item # i
    BY <1>5, <2>1 DEF Book, ItemsOK
  <2>4. w.q.data[e].item \in Items
    BY <1>5, <2>1, OnceItems
  <2>5. SentBy(u.q.data[e], u.net[e], NoItem) = SentBy(w.q.data[e], w.net[e], x)
    BY <1>3, <1>5, <2>1, <2>3 DEF SentBy
  <2> QED
    BY <1>4, <2>1, <2>2, <2>4, <2>5
<1> QED
  BY <1>4, <1>5 DEF Once, HeldOnce, u

(* Setting what is sent next, or that the loop runs, concerns no file.     *)
LEMMA SameOnce ==
    ASSUME NEW w, NEW x, Once(w, x), NEW u, u.item = w.item, u.q.data = w.q.data, u.net = w.net
    PROVE  Once(u, x)
BY DEF Once, HeldOnce

OnceDecided(v, id) ==
    \E x \in {NoItem, v.w.q.data[id].item} :
        /\ Once(v.w, x)
        /\ v.next \in {"alone", "send"} => x = NoItem
        /\ v.next \in Reasons => Suited(v.w, id, v.next)

LEMMA DoneOnce ==
    ASSUME NEW v, NEW id \in Engines, BookDecided(v, id), OnceDecided(v, id)
    PROVE  Once(Done(v, id), NoItem)
<1> DEFINE w == v.w
<1>1. Book(w) /\ w \in Worlds /\ v.next \in Nexts
  BY DEF BookDecided, Book
<1>2. PICK x \in {NoItem, w.q.data[id].item} :
        /\ Once(w, x)
        /\ v.next \in {"alone", "send"} => x = NoItem
        /\ v.next \in Reasons => Suited(w, id, v.next)
  BY DEF OnceDecided
<1>3. PICK y \in Engines \cup {NoEngine} : y = IF v.next = "send" THEN id ELSE NoEngine
  OBVIOUS
<1> DEFINE u == [w EXCEPT !.q.sending = y]
<1>4. LET s == [w EXCEPT !.q.sending = y]
      IN  /\ s \in Worlds
          /\ s.q = [w.q EXCEPT !.sending = y]
          /\ s.item = w.item /\ s.tab = w.tab /\ s.net = w.net
          /\ s.q.mode = w.q.mode /\ s.q.inside = w.q.inside /\ s.q.refused = w.q.refused
          /\ s.q.refreshed = w.q.refreshed /\ s.q.servers = w.q.servers
          /\ s.q.sending = y /\ SameEngines(w, s) /\ SameCounts(w, s) /\ SameLists(w, s)
  BY <1>1, SendingSet
<1>5. Book(u)
  BY <1>1, BookSets
<1>6. u.q.data = w.q.data /\ u.item = w.item /\ u.net = w.net
  BY <1>4 DEF SameEngines
<1>7. Done(v, id) = IF v.next \in {"alone", "send"} THEN u ELSE ResetEngine(u, id, v.next)
  BY <1>3 DEF Done
<1> HIDE DEF u, w
<1>8. Once(u, x)
  BY <1>2, <1>6, SameOnce
<1>9. CASE v.next \in {"alone", "send"}
  BY <1>2, <1>7, <1>8, <1>9
<1>10. CASE v.next \in Reasons
  <2>1. Suited(u, id, v.next) /\ x \in {NoItem, u.q.data[id].item}
    BY <1>2, <1>6, <1>10 DEF Suited
  <2>2. v.next \notin {"alone", "send"}
    BY <1>10 DEF Reasons
  <2>3. CASE ~u.q.data[id].active
    <3>1. u.q.data[id].item = NoItem
      BY <1>5, <2>3, OnceItems
    <3>2. ResetEngine(u, id, v.next) = u
      BY <2>3 DEF ResetEngine, Data
    <3> QED
      BY <1>7, <1>8, <2>1, <2>2, <3>1, <3>2
  <2>4. CASE u.q.data[id].active
    <3> DEFINE z == Reset(u, id, v.next)
    <3>1. Once(z, NoItem) /\ Book(z)
      BY <1>5, <1>8, <1>10, <2>1, <2>4, ResetOnce, BookReset
    <3>2. Done(v, id) = AdvanceQueue(z)
      BY <1>7, <2>2, <2>4 DEF ResetEngine, Data
    <3> HIDE DEF z
    <3>3. LET a == AdvanceQueue(z)
          IN  /\ Book(a) /\ a.item = z.item /\ a.tab = z.tab /\ a.net = z.net
              /\ a.q.mode = z.q.mode /\ a.q.sending = z.q.sending /\ a.q.refused = z.q.refused
              /\ a.q.inside /\ SameEngines(z, a) /\ SameCounts(z, a) /\ SameLists(z, a)
      BY <3>1, AdvancedViews
    <3>4. Once(AdvanceQueue(z), NoItem)
      BY <3>1, <3>3, SameOnce DEF SameEngines
    <3> QED
      BY <3>2, <3>4
  <2> QED
    BY <2>3, <2>4
<1> QED
  BY <1>1, <1>9, <1>10 DEF Nexts

LEMMA StateOnce ==
    ASSUME NEW w, Book(w), NEW id \in Engines, NEW s \in States, NEW x, Once(w, x)
    PROVE  LET u == SetState(w, id, s)
           IN  /\ Once(u, x) /\ u.net = w.net /\ u.item = w.item
               /\ \A e \in Engines : u.q.data[e].item = w.q.data[e].item
<1> DEFINE u == SetState(w, id, s)
<1>1. w \in Worlds /\ w.q.data \in [Engines -> DataRec] /\ w.q.data[id] \in DataRec
  BY WorldParts, DataType DEF Book
<1>2. /\ u \in Worlds /\ u.item = w.item /\ u.tab = w.tab /\ u.net = w.net
      /\ u.q.data = [w.q.data EXCEPT ![id] = WithState(w.q.data[id], s)]
      /\ u.q.engines = w.q.engines
      /\ SameMode(w, u) /\ SameLists(w, u) /\ SameCounts(w, u)
  BY <1>1, StateViews
<1>3. WithState(w.q.data[id], s).item = w.q.data[id].item
  BY <1>1, WithStateType
<1> HIDE DEF u
<1>4. \A e \in Engines : u.q.data[e].item = w.q.data[e].item
  BY <1>1, <1>2, <1>3
<1>5. Once(u, x)
  BY <1>2, <1>4, OnceSame
<1> QED
  BY <1>2, <1>4, <1>5 DEF u

LEMMA FaultedOnce ==
    ASSUME NEW w, Book(w), NEW i \in Items, NEW x, Once(w, x)
    PROVE  LET u == Faulted(w, i)
           IN  /\ Once(u, x) /\ u.net = w.net /\ u.q = w.q
               /\ \A j \in Items : u.item[j].sent = w.item[j].sent
<1> DEFINE u == Faulted(w, i)
<1>1. /\ Book(u) /\ u.q = w.q /\ u.tab = w.tab /\ u.net = w.net
      /\ \A j \in Items : /\ u.item[j].active = w.item[j].active
                          /\ u.item[j].where = w.item[j].where
                          /\ u.item[j].sent = w.item[j].sent
  BY BookFaulted
<1> HIDE DEF u
<1>2. Once(u, x)
  BY <1>1, OnceSame
<1> QED
  BY <1>1, <1>2 DEF u

LEMMA NotSentSuits ==
    ASSUME NEW w, Once(w, NoItem), NEW id \in Engines, ~Tells(w.net[id]), NEW reason,
           reason # "success"
    PROVE  Suited(w, id, reason)
BY DEF Once, HeldOnce, SentBy, Suited

(* Nothing has been transferred: anything but success may be decided.      *)
LEMMA NotSentDecided ==
    ASSUME NEW v, NEW id \in Engines, Once(v.w, NoItem), ~Tells(v.w.net[id]), v.next # "success"
    PROVE  OnceDecided(v, id)
<1>1. Suited(v.w, id, v.next)
  BY NotSentSuits
<1> QED
  BY <1>1 DEF OnceDecided

LEMMA AnsweredOnce ==
    ASSUME NEW w, Book(w), NEW id \in Engines, TabSilent(w), ~Tells(w.net[id]),
           NEW r, NEW v, Answered(w, id, r, v), NEW x, Once(w, x),
           x = IF r.code = "ok" /\ w.q.data[id].state \in {"transfer", "mkdir"}
               THEN w.q.data[id].item ELSE NoItem
    PROVE  OnceDecided(v, id)
<1> DEFINE d == w.q.data[id]
<1>1. /\ w \in Worlds /\ GoodData(id, d)
      /\ d.state \in {"connect", "disconnect", "transfer", "mkdir"} => d.item \in Items
  <2>1. w \in Worlds /\ GoodData(id, d)
    BY DEF Book, DataOK
  <2>2. d.state \in {"connect", "disconnect", "transfer", "mkdir"} => d.active
    BY <2>1 DEF GoodData
  <2> QED
    BY <2>1, <2>2, ActiveHas
<1>2. CASE r.code = "ok" /\ d.state \in {"transfer", "mkdir"}
  <2>1. v.w = w /\ v.next = "success" /\ x = d.item
    BY <1>2 DEF Answered
  <2>2. Suited(w, id, "success")
    BY <1>1, <1>2, <2>1 DEF Suited, Once, HeldOnce, SentBy, Stays
  <2> QED
    BY <2>1, <2>2 DEF OnceDecided
<1>3. CASE ~(r.code = "ok" /\ d.state \in {"transfer", "mkdir"})
  <2>1. Once(w, NoItem)
    BY <1>3
  <2>2. v.next # "success"
    BY <1>3 DEF Answered, Onward
  <2>3. Once(v.w, NoItem) /\ ~Tells(v.w.net[id])
    <3>1. CASE v.w = w
      BY <2>1, <3>1
    <3>2. CASE v.w = Deactivate(w)
      <4> DEFINE u == Deactivate(w)
      <4>1. Halted(w, u)
        BY DeactivateViews
      <4> HIDE DEF u
      <4>2. Once(u, NoItem)
        BY <2>1, <4>1, HaltedOnce
      <4>3. w.net[id] \in NetRec /\ Cancelled(w.net[id], u.net[id])
        BY <1>1, <4>1, NetType DEF Halted
      <4>4. u.net[id].inbox = w.net[id].inbox
        BY <4>3 DEF Cancelled, NetRec
      <4>5. ~Tells(u.net[id])
        BY <4>4, TellsSame
      <4> QED
        BY <3>2, <4>2, <4>5 DEF u
    <3>3. CASE \E s \in States : v.w = SetState(w, id, s)
      BY <2>1, <3>3, StateOnce
    <3>4. CASE d.item \in Items /\ v.w = Faulted(w, d.item)
      BY <2>1, <3>4, FaultedOnce
    <3>5. "connect" \in States /\ Work(d.item) \in States
      BY WorkType DEF States
    <3> QED
      BY <1>1, <1>3, <3>1, <3>2, <3>3, <3>4, <3>5 DEF Answered
  <2> QED
    BY <2>2, <2>3, NotSentDecided
<1> QED
  BY <1>2, <1>3

LEMMA SentOnce ==
    ASSUME NEW w, Book(w), NEW id \in Engines, w.q.data[id].item # NoItem, Once(w, NoItem),
           NEW v, SentNext(w, id, v)
    PROVE  OnceDecided(v, id)
<1> DEFINE d == w.q.data[id]
           n == w.net[id]
<1>1. /\ d.active /\ GoodData(id, d) /\ w \in Worlds /\ d \in DataRec /\ n \in NetRec
      /\ w.net \in [Engines -> NetRec]
      /\ d.state # "list" => d.item \in Items
  BY ActiveHas, DataType, NetType, WorldParts DEF Book, DataOK
<1>2. d.item \in Items /\ d.state \in Commands \cup {"waitprimary"}
  BY <1>1 DEF GoodData, DataRec, States, Commands
<1>3. v.next \in {"alone", "send", "failure"}
  BY DEF SentNext
<1>4. Once(v.w, NoItem)
  <2>1. CASE v.w = RequestExclusiveEngine(w)
    <3> DEFINE u == RequestExclusiveEngine(w)
    <3>1. u.item = w.item /\ u.net = w.net /\ u.q = w.q
      BY <1>1, RequestSet
    <3> HIDE DEF u
    <3>2. Once(u, NoItem)
      BY <3>1, SameOnce
    <3> QED
      BY <2>1, <3>2 DEF u
  <2>2. CASE d.state # "waitprimary" /\ v.w = Execute(w, id, d.state, d.item)
    <3> DEFINE cmd == d.state
               to == d.item
               u == Execute(w, id, cmd, to)
               m == Executing(n, cmd, to)
    <3>1. cmd \in Commands /\ to \in Aims
      BY <1>2, <2>2 DEF Aims, Files
    <3>2. v.w = u
      BY <2>2
    <3> HIDE DEF cmd, to, u, m, n
    <3>3. u.q = w.q /\ u.item = w.item /\ u.net = [w.net EXCEPT ![id] = m]
      BY <1>1, <3>1, ExecutedViews DEF u, m, n
    <3>4. m.inbox = n.inbox
      BY <1>1, <3>1, ExecutingType DEF m
    <3>5. \A e \in Engines : Tells(u.net[e]) <=> Tells(w.net[e])
      BY <1>1, <3>3, <3>4, TellsSame DEF n
    <3>6. Once(u, NoItem)
      BY <3>3, <3>5, OnceSame
    <3> QED
      BY <3>2, <3>6
  <2>3. CASE \E s \in States : v.w = SetState(w, id, s)
    BY <2>3, StateOnce
  <2>4. CASE \E y : /\ y = w \/ y = [w EXCEPT !.q.refused = TRUE]
                    /\ v.w = Faulted(y, d.item) \/ v.w = y
    <3>1. PICK y : /\ y = w \/ y = [w EXCEPT !.q.refused = TRUE]
                   /\ v.w = Faulted(y, d.item) \/ v.w = y
      BY <2>4
    <3>2. Book(y) /\ y.q.data = w.q.data /\ y.item = w.item /\ y.net = w.net
      BY <3>1, BookRefused
    <3>3. Once(y, NoItem)
      BY <3>2, SameOnce
    <3> QED
      BY <1>2, <3>1, <3>2, <3>3, FaultedOnce
  <2>5. "connect" \in States /\ "disconnect" \in States
    BY DEF States
  <2> QED
    BY <2>1, <2>2, <2>3, <2>4, <2>5 DEF SentNext
<1>5. Suited(v.w, id, "failure")
  BY DEF Suited, Stays
<1> QED
  BY <1>3, <1>4, <1>5 DEF OnceDecided, Reasons

LEMMA GrantedOnce ==
    ASSUME NEW w, Book(w), NEW h, Calm(w, h), Once(w, NoItem)
    PROVE  OnceDecided(Granted(w), TabEngine)
<1> DEFINE v == Granted(w)
           d == w.q.data[TabEngine]
           u == ReleaseEngine(w)
<1>1. w \in Worlds /\ TabEngine \in Engines
  BY OwnIn DEF Book
<1>2. d = Data(w, TabEngine)
  BY DEF Data
<1>3. Work(d.item) \in States
  BY WorkType DEF States
<1>4. u.item = w.item /\ u.net = w.net /\ u.q = w.q
  BY <1>1, ReleaseSet
<1>5. Once(u, NoItem)
  <2> HIDE DEF u
  <2> QED
    BY <1>4, SameOnce
<1>6. Once(SetState(w, TabEngine, Work(d.item)), NoItem)
  BY <1>1, <1>3, StateOnce
<1>7. \/ v.next \in {"alone", "send"} /\ v.w \in {u, w, SetState(w, TabEngine, Work(d.item))}
      \/ v.next = "retry" /\ v.w = u /\ d.active /\ d.state = "waitprimary"
  BY <1>2 DEF Granted, Decide
<1> HIDE DEF v, u
<1>8. CASE v.next \in {"alone", "send"} /\ v.w \in {u, w, SetState(w, TabEngine, Work(d.item))}
  <2>1. Once(v.w, NoItem)
    BY <1>5, <1>6, <1>8
  <2>2. v.next \notin Reasons
    BY <1>8 DEF Reasons
  <2> QED
    BY <2>1, <2>2 DEF OnceDecided, v
<1>9. CASE v.next = "retry" /\ v.w = u /\ d.active /\ d.state = "waitprimary"
  <2>1. ~Borrowed(d)
    BY <1>9 DEF Borrowed
  <2>2. ~Tells(v.w.net[TabEngine])
    BY <1>1, <1>4, <1>9, <2>1, TabTellsNot
  <2>3. OnceDecided(v, TabEngine)
    BY <1>1, <1>5, <1>9, <2>2, NotSentDecided
  <2> QED
    BY <2>3 DEF v
<1> QED
  BY <1>7, <1>8, <1>9

OnceInv == Undisturbed => \E w \in {World} : Once(w, NoItem)

LEMMA OnceWorld ==
    ASSUME OnceInv, Undisturbed
    PROVE  Once(World, NoItem)
BY DEF OnceInv

LEMMA OnceBecomes ==
    ASSUME NEW w, Book(w), Becomes(w), UNCHANGED env, Undisturbed => Once(w, NoItem)
    PROVE  OnceInv'
<1>1. World' = w
  BY Becoming DEF Book
<1> QED
  BY <1>1 DEF OnceInv, Undisturbed

LEMMA SendNextCommandOnce ==
    ASSUME BookInv, OnceInv, SendNextCommand
    PROVE  OnceInv'
<1> DEFINE w == World
           id == w.q.sending
           v == SendRound(w, id)
<1>1. Book(w) /\ SendingOK(w) /\ w \in Worlds /\ w.q = q
  BY InvWorld
<1>2. id # NoEngine /\ Becomes(Done(v, id)) /\ UNCHANGED env
  BY <1>1 DEF SendNextCommand
<1>3. id \in Engines /\ w.q.data[id].item # NoItem
  BY <1>1, <1>2, QueueType DEF SendingOK
<1>4. Undisturbed => Once(w, NoItem)
  BY OnceWorld
<1> HIDE DEF w, id
<1>5. SentNext(w, id, v)
  BY <1>1, <1>3, RoundSent
<1> HIDE DEF v
<1>6. BookDecided(v, id) /\ (Undisturbed => OnceDecided(v, id))
  BY <1>1, <1>3, <1>4, <1>5, BookSent, SentOnce
<1>7. Book(Done(v, id)) /\ (Undisturbed => Once(Done(v, id), NoItem))
  BY <1>3, <1>6, BookDone, DoneOnce
<1> QED
  BY <1>2, <1>7, OnceBecomes

LEMMA StartNextTransferOnce ==
    ASSUME BookInv, CalmInv, OnceInv, StartNextTransfer
    PROVE  OnceInv'
<1> DEFINE w == World
           t == TryStartNextTransfer(w)
<1>1. Book(w) /\ w.q = q
  BY InvWorld
<1>2. w.q.sending = NoEngine /\ w.q.inside /\ UNCHANGED env
      /\ Becomes(IF t.ok THEN t.w ELSE AdvanceQueueEnds(t.w))
  BY <1>1 DEF StartNextTransfer
<1>3. Undisturbed => Calm(w, NoEngine) /\ Still(w) /\ Once(w, NoItem)
  BY <1>2, CalmWorld, OnceWorld DEF Peace
<1> HIDE DEF w
<1>4. /\ t.ok \in BOOLEAN
      /\ ~t.ok => Grown(w, t.w)
      /\ t.ok => \E v, i, id : Grown(w, v) /\ Starts(v, i, id) /\ t.w = Assign(v, i, id)
  BY <1>1, TryStart
<1> HIDE DEF t
<1>5. CASE t.ok
  <2>1. PICK v, i, id : Grown(w, v) /\ Starts(v, i, id) /\ t.w = Assign(v, i, id)
    BY <1>4, <1>5
  <2>2. Undisturbed => Calm(v, NoEngine) /\ Still(v) /\ Once(v, NoItem)
    BY <1>1, <1>3, <2>1, GrownCalm, GrownOnce
  <2>3. Book(t.w) /\ (Undisturbed => Once(t.w, NoItem))
    BY <2>1, <2>2, AssignSends, AssignOnce
  <2> QED
    BY <1>2, <1>5, <2>3, OnceBecomes
<1>6. CASE ~t.ok
  <2> DEFINE x == t.w
             u == AdvanceQueueEnds(x)
  <2>1. Grown(w, x)
    BY <1>4, <1>6
  <2>2. Becomes(u)
    BY <1>2, <1>6
  <2> HIDE DEF x
  <2>3. Book(x) /\ (Undisturbed => Once(x, NoItem))
    BY <1>1, <1>3, <2>1, GrownOnce DEF Grown
  <2>4. Settled(x, u)
    BY <2>3, EndsViews
  <2> HIDE DEF u
  <2>5. Book(u) /\ (Undisturbed => Once(u, NoItem))
    BY <2>3, <2>4, SettledOnce DEF Settled
  <2> QED
    BY <1>2, <2>2, <2>5, OnceBecomes
<1> QED
  BY <1>4, <1>5, <1>6

(* What the reply of an engine tells, which is the only one.               *)
LEMMA ReplyTells ==
    ASSUME NEW w, Book(w), Calm(w, NoEngine), NEW id \in Engines, w.net[id].inbox # <<>>
    PROVE  /\ ~Tells(Emptier(w.net[id]))
           /\ w.q.data[id].item # NoItem =>
                  (Tells(w.net[id]) <=> /\ w.net[id].inbox[1].code = "ok"
                                        /\ w.q.data[id].state \in {"transfer", "mkdir"})
<1> DEFINE d == w.q.data[id]
           n == w.net[id]
<1>1. w \in Worlds /\ n \in NetRec /\ GoodData(id, d)
  BY NetType DEF Book, DataOK
<1>2. d.item # NoItem => d.active
  BY <1>1 DEF GoodData
<1>3. /\ id \in Own => EngineCalm(d, n, HasData(w, id), id = NoEngine)
      /\ id = TabEngine => TabCalm(d, n, w.tab, HasData(w, id), id = NoEngine)
      /\ id # NoEngine
  BY CalmParts, OwnIn
<1>4. w.tab.cmd \in {"none", "browse", "connect", "disconnect"}
  BY <1>1, TabType
<1> HIDE DEF d, n
<1>5. n.inbox # <<>>
  BY DEF n
<1>6. /\ \E cmd, to : Due(n, cmd, to)
      /\ d.item # NoItem => Due(n, d.state, d.item) \/ (d.state = "waitprimary" /\ ~Tells(n))
  <2>1. CASE id \in Own
    <3>1. CASE d.active
      BY <1>3, <2>1, <3>1 DEF EngineCalm
    <3>2. CASE ~d.active
      BY <1>2, <1>3, <1>5, <2>1, <3>2 DEF EngineCalm, Clean
    <3> QED
      BY <3>1, <3>2
  <2>2. CASE id = TabEngine
    <3>1. CASE Borrowed(d)
      BY <1>3, <2>2, <3>1 DEF TabCalm
    <3>2. CASE ~Borrowed(d)
      <4>1. PICK has, held : has = HasData(w, id) /\ held = (id = NoEngine)
        OBVIOUS
      <4>2. TabCalm(d, n, w.tab, has, held)
        BY <1>3, <2>2, <4>1
      <4>3. ~Tells(n)
        BY <1>4, <3>2, <4>2, FreeTellsNot
      <4>4. \E cmd, to : Due(n, cmd, to)
        BY <1>5, <3>2, <4>2 DEF TabCalm, Clean
      <4> QED
        BY <1>2, <3>2, <4>3, <4>4 DEF Borrowed
    <3> QED
      BY <3>1, <3>2
  <2> QED
    BY <2>1, <2>2, OwnIn
<1>7. ~Tells(Emptier(n))
  <2>1. PICK cmd, to : Due(n, cmd, to)
    BY <1>6
  <2>2. Clean(Emptier(n))
    BY <1>1, <1>5, <2>1, EmptierClean
  <2> QED
    BY <2>2, CleanTellsNot
<1>8. ASSUME d.item # NoItem
      PROVE  Tells(n) <=> n.inbox[1].code = "ok" /\ d.state \in {"transfer", "mkdir"}
  <2>1. CASE Due(n, d.state, d.item)
    BY <1>5, <2>1 DEF Due, Tells
  <2>2. CASE d.state = "waitprimary" /\ ~Tells(n)
    BY <2>2
  <2> QED
    BY <1>6, <1>8, <2>1, <2>2
<1> QED
  BY <1>7, <1>8 DEF d, n

LEMMA ReceivedOnce ==
    ASSUME NEW w, Book(w), Calm(w, NoEngine), Once(w, NoItem), NEW id \in Engines,
           w.net[id].inbox # <<>>, NEW r, r = Head(w.net[id].inbox),
           NEW x, x = IF r.code = "ok" /\ w.q.data[id].state \in {"transfer", "mkdir"}
                      THEN w.q.data[id].item ELSE NoItem
    PROVE  LET u == Received(w, id)
           IN  Once(u, x) /\ TabSilent(u) /\ ~Tells(u.net[id])
<1> DEFINE u == Received(w, id)
           n == w.net[id]
<1>1. w \in Worlds /\ n \in NetRec /\ w.net \in [Engines -> NetRec]
  BY NetType, WorldParts DEF Book
<1>2. /\ Book(u) /\ u.q = w.q /\ u.item = w.item /\ u.tab = w.tab
      /\ u.net = [w.net EXCEPT ![id] = Emptier(n)]
  BY BookReceived
<1>3. /\ ~Tells(Emptier(n))
      /\ w.q.data[id].item # NoItem =>
             (Tells(n) <=> n.inbox[1].code = "ok" /\ w.q.data[id].state \in {"transfer", "mkdir"})
  BY ReplyTells
<1>4. r = n.inbox[1]
  BY <1>1, EmptierType
<1>5. TabSilent(w)
  BY <1>1, CalmSilent
<1> HIDE DEF u, n
<1>6. u.net[id] = Emptier(n) /\ \A e \in Engines \ {id} : u.net[e] = w.net[e]
  BY <1>1, <1>2
<1>7. x = IF Tells(n) THEN w.q.data[id].item ELSE NoItem
  BY <1>3, <1>4
<1>8. Once(u, x)
  <2>1. u.item = w.item /\ u.q.data = w.q.data /\ ~Tells(u.net[id])
    BY <1>2, <1>3, <1>6
  <2>2. x = IF Tells(w.net[id]) THEN w.q.data[id].item ELSE NoItem
    BY <1>7 DEF n
  <2> QED
    BY <1>6, <2>1, <2>2, TakenOnce
<1>9. TabSilent(u)
  BY <1>2, <1>3, <1>5, <1>6, OwnIn DEF TabSilent
<1> QED
  BY <1>3, <1>6, <1>8, <1>9 DEF u

LEMMA OnEngineEventOnce ==
    ASSUME BookInv, CalmInv, OnceInv, NEW id \in Engines, OnEngineEvent(id)
    PROVE  OnceInv'
<1> DEFINE w == World
           u == Received(w, id)
           r == Head(net[id].inbox)
           v == ProcessReply(u, id, r)
           lent == id = TabEngine /\ ~(HasData(w, id) /\ Data(w, id).active)
<1>1. Book(w) /\ w.net = net
  BY InvWorld
<1>2. /\ w.net[id].inbox # <<>> /\ UNCHANGED env /\ Quiet
      /\ Becomes(IF lent THEN u ELSE Done(v, id))
  BY <1>1 DEF OnEngineEvent, HasReply
<1>3. Undisturbed => Calm(w, NoEngine) /\ Once(w, NoItem)
  BY <1>2, QuietCalm, OnceWorld
<1>4. r = Head(w.net[id].inbox)
  BY <1>1
<1> HIDE DEF w, r
<1>5. Book(u) /\ u.q = w.q
  BY <1>1, <1>2, BookReceived
<1>6. PICK x : x = IF r.code = "ok" /\ w.q.data[id].state \in {"transfer", "mkdir"}
                   THEN w.q.data[id].item ELSE NoItem
  OBVIOUS
<1>7. Undisturbed => Once(u, x) /\ TabSilent(u) /\ ~Tells(u.net[id])
  BY <1>1, <1>2, <1>3, <1>4, <1>6, ReceivedOnce
<1>8. Answered(u, id, r, v)
  BY <1>5, ReplyAnswered
<1>9. lent => w.q.data[id].item = NoItem
  BY <1>1, OnceItems DEF Data
<1> HIDE DEF u, v
<1>10. CASE lent
  <2>1. x = NoItem
    BY <1>6, <1>9, <1>10
  <2> QED
    BY <1>2, <1>5, <1>7, <1>10, <2>1, OnceBecomes
<1>11. CASE ~lent
  <2>1. BookDecided(v, id)
    BY <1>5, <1>8, BookAnswered
  <2>2. Undisturbed => OnceDecided(v, id)
    BY <1>5, <1>6, <1>7, <1>8, AnsweredOnce
  <2>3. Book(Done(v, id)) /\ (Undisturbed => Once(Done(v, id), NoItem))
    BY <2>1, <2>2, BookDone, DoneOnce
  <2> QED
    BY <1>2, <1>11, <2>3, OnceBecomes
<1> QED
  BY <1>10, <1>11

LEMMA FinishOnce ==
    ASSUME BookInv, CalmInv, OnceInv, Finish
    PROVE  OnceInv'
<1> DEFINE w == World
           u == TabEnds(w)
           z == IF tab.wants THEN GrantExclusiveEngineRequest(u) ELSE u
           n == w.net[TabEngine]
<1>1. Book(w) /\ w \in Worlds /\ w.net = net /\ w.tab = tab
  BY InvWorld
<1>2. n.inbox # <<>> /\ ~w.tab.lock /\ Quiet /\ Becomes(z) /\ UNCHANGED env
  BY <1>1 DEF Finish, HasReply
<1>3. Undisturbed => Calm(w, NoEngine) /\ Once(w, NoItem)
  BY <1>2, QuietCalm, OnceWorld
<1> HIDE DEF w
<1>4. /\ Book(u) /\ u.item = w.item /\ u.q.data = w.q.data /\ u.q.engines = w.q.engines
      /\ u.q.sending = w.q.sending /\ u.q.inside = w.q.inside /\ u.q.mode = w.q.mode
      /\ u.q.refused = w.q.refused
      /\ u.tab = TabAfter(w.tab, Head(w.net[TabEngine].inbox))
      /\ u.net = [w.net EXCEPT ![TabEngine] = Emptier(w.net[TabEngine])]
      /\ u.q.busy = w.q.busy
  BY <1>1, <1>2, BookTabEnds
<1> HIDE DEF u
<1>5. Book(z) /\ z.q = u.q /\ z.net = u.net /\ z.item = u.item
  BY <1>4, BookRelease, GrantSet DEF Book
<1> HIDE DEF z
<1>6. Undisturbed => Once(z, NoItem)
  <2> SUFFICES ASSUME Undisturbed PROVE Once(z, NoItem)
    OBVIOUS
  <2>1. TabEngine \in Engines /\ w.net \in [Engines -> NetRec]
    BY <1>1, WorldParts, OwnIn
  <2>2. TabCalm(w.q.data[TabEngine], n, w.tab, HasData(w, TabEngine), TabEngine = NoEngine)
    BY <1>3, CalmParts
  <2>3. ~Tells(n)
    <3>1. ~Borrowed(w.q.data[TabEngine])
      BY <1>2, <2>2 DEF TabCalm
    <3> QED
      BY <1>1, <1>3, <3>1, TabTellsNot
  <2>4. ~Tells(Emptier(n))
    BY <1>1, <1>2, <1>3, <2>1, ReplyTells
  <2>5. \A e \in Engines : Tells(z.net[e]) <=> Tells(w.net[e])
    BY <1>4, <1>5, <2>1, <2>3, <2>4
  <2>6. z.item = w.item /\ z.q.data = w.q.data
    BY <1>4, <1>5
  <2> QED
    BY <1>1, <1>3, <2>5, <2>6, OnceSame
<1> QED
  BY <1>2, <1>5, <1>6, OnceBecomes

LEMMA OnExclusiveEngineRequestGrantedOnce ==
    ASSUME BookInv, CalmInv, OnceInv, OnExclusiveEngineRequestGranted
    PROVE  OnceInv'
<1> DEFINE t == Popped(tab)
           w == [World EXCEPT !.tab = t]
           v == Granted(w)
           to == tab.lock /\ Head(tab.grants) = tab.id
<1>1. Book(World) /\ World \in Worlds /\ World.tab = tab
  BY InvWorld
<1>2. [World EXCEPT !.tab.grants = Tail(tab.grants)] = w
  BY <1>1 DEF Popped, Worlds
<1>3. Handler /\ tab.grants # <<>> /\ UNCHANGED env
      /\ Becomes(IF to THEN Done(v, TabEngine) ELSE w)
  <2> HIDE DEF w
  <2> QED
    BY <1>2 DEF OnExclusiveEngineRequestGranted
<1>4. tab \in TabRec
  BY <1>1, WorldParts
<1>5. /\ t \in TabRec /\ t.site = tab.site /\ t.cmd = tab.cmd
      /\ t.lock = tab.lock /\ t.wants = tab.wants
      /\ t.listing = tab.listing /\ t.id = tab.id
  BY <1>3, <1>4, PoppedType
<1> HIDE DEF t, to
<1>6. Book(w) /\ w.q = World.q /\ w.item = World.item /\ w.net = World.net /\ w.tab = t
  BY <1>1, <1>5, BookTab
<1> HIDE DEF w
<1>7. Undisturbed => Calm(w, NoEngine) /\ Once(w, NoItem)
  <2>1. Undisturbed => Rests(World) /\ Once(World, NoItem)
    BY <1>3, HandlerRests, OnceWorld
  <2>2. Undisturbed => Rests(w)
    BY <1>1, <1>5, <1>6, <2>1, RestsTab
  <2>3. Undisturbed => Once(w, NoItem)
    BY <1>6, <2>1, SameOnce
  <2> QED
    BY <2>2, <2>3 DEF Rests
<1>8. CASE to
  <2>1. BookDecided(v, TabEngine) /\ (Undisturbed => OnceDecided(v, TabEngine))
    BY <1>6, <1>7, BookGranted, GrantedOnce
  <2> HIDE DEF v
  <2>2. Book(Done(v, TabEngine)) /\ (Undisturbed => Once(Done(v, TabEngine), NoItem))
    BY <2>1, BookDone, DoneOnce, OwnIn
  <2> QED
    BY <1>3, <1>8, <2>2, OnceBecomes
<1>9. CASE ~to
  BY <1>3, <1>6, <1>7, <1>9, OnceBecomes
<1> QED
  BY <1>8, <1>9

LEMMA AdvancedOnce ==
    ASSUME NEW w, Book(w)
    PROVE  Book(AdvanceQueue(w)) /\ \A x : Once(w, x) => Once(AdvanceQueue(w), x)
<1> DEFINE a == AdvanceQueue(w)
<1>1. /\ Book(a) /\ a.item = w.item /\ a.tab = w.tab /\ a.net = w.net
      /\ a.q.mode = w.q.mode /\ a.q.sending = w.q.sending /\ a.q.refused = w.q.refused
      /\ a.q.inside /\ SameEngines(w, a) /\ SameCounts(w, a) /\ SameLists(w, a)
  BY AdvancedViews
<1> HIDE DEF a
<1>2. \A x : Once(w, x) => Once(a, x)
  BY <1>1, SameOnce DEF SameEngines
<1> QED
  BY <1>1, <1>2 DEF a

LEMMA QueueFileOnce ==
    ASSUME BookInv, OnceInv, QueueFile
    PROVE  OnceInv'
<1>1. Book(World) /\ World \in Worlds /\ World.item = item
  BY InvWorld
<1>2. UNCHANGED env
  BY DEF QueueFile
<1>3. PICK i \in Items, queueOnly \in BOOLEAN :
         \E w \in {Queued(World, i, queueOnly)} :
            item[i].where = "out" /\ Becomes(IF w.q.mode # 0 THEN AdvanceQueue(w) ELSE w)
  BY DEF QueueFile
<1> DEFINE w == Queued(World, i, queueOnly)
<1>4. Becomes(w) \/ Becomes(AdvanceQueue(w))
  BY <1>3
<1>5. Book(w)
  BY <1>1, BookQueued
<1>6. /\ w \in Worlds /\ SameEngines(World, w) /\ SameCounts(World, w)
      /\ w.tab = World.tab /\ w.net = World.net
      /\ w.item[i] = [World.item[i] EXCEPT !.where = "queue"]
      /\ \A j \in Items \ {i} : w.item[j] = World.item[j]
      /\ \A s \in Sites, j \in Items :
           Listed(w, s, j) <=> Listed(World, s, j) \/ (s = SiteOf[i] /\ j = i)
      /\ w.q.sending = World.q.sending /\ w.q.inside = World.q.inside
      /\ w.q.refused = World.q.refused
      /\ w.q.mode = World.q.mode \/ w.q.mode = 1
  BY <1>1, QueuedViews
<1> HIDE DEF w
<1>7. Undisturbed => Once(w, NoItem)
  <2> SUFFICES ASSUME Undisturbed PROVE Once(w, NoItem)
    OBVIOUS
  <2>1. Once(World, NoItem)
    BY OnceWorld
  <2>2. World.item[i].where = "out" /\ World.item[i] \in ItemRec /\ FileOnce(World.item[i])
    BY <1>1, <1>3, <2>1, ItemType DEF Once
  <2>3. w.item[i].sent = World.item[i].sent /\ w.item[i].where = "queue"
    BY <1>6, <2>2 DEF ItemRec
  <2>4. FileOnce(w.item[i])
    BY <2>2, <2>3 DEF FileOnce
  <2>5. \A j \in Items : w.item[j].sent = World.item[j].sent /\ FileOnce(w.item[j])
    BY <1>6, <2>1, <2>3, <2>4 DEF Once
  <2>6. \A e \in Engines : World.q.data[e].item \in Items \cup {NoItem}
    BY <1>1, OnceItems
  <2>7. w.q.data = World.q.data
    BY <1>6 DEF SameEngines
  <2> QED
    BY <1>6, <2>1, <2>5, <2>6, <2>7, OnceFrame
<1>8. Book(AdvanceQueue(w)) /\ (Undisturbed => Once(AdvanceQueue(w), NoItem))
  BY <1>5, <1>7, AdvancedOnce
<1> QED
  BY <1>2, <1>4, <1>5, <1>7, <1>8, OnceBecomes

LEMMA SetActiveOnce ==
    ASSUME BookInv, OnceInv, SetActive
    PROVE  OnceInv'
<1>1. Book(World) /\ World \in Worlds
  BY InvWorld
<1>2. PICK mode \in 0 .. 2 : mode = 2
  OBVIOUS
<1> DEFINE w == [World EXCEPT !.q.mode = mode]
<1>3. UNCHANGED env /\ Becomes(AdvanceQueue(w))
  BY <1>2 DEF SetActive, Event
<1>4. Book(w)
  BY <1>1, BookSets
<1>5. /\ w \in Worlds
      /\ w.q = [World.q EXCEPT !.mode = mode]
      /\ w.item = World.item /\ w.tab = World.tab /\ w.net = World.net
      /\ w.q.inside = World.q.inside /\ w.q.sending = World.q.sending /\ w.q.refused = World.q.refused
      /\ w.q.refreshed = World.q.refreshed /\ w.q.servers = World.q.servers
      /\ w.q.mode = mode /\ SameEngines(World, w) /\ SameCounts(World, w) /\ SameLists(World, w)
  BY <1>1, ModeSet, Zenon
<1> HIDE DEF w
<1>6. Undisturbed => Once(w, NoItem)
  <2>1. Undisturbed => Once(World, NoItem)
    BY OnceWorld
  <2> QED
    BY <1>5, <2>1, SameOnce DEF SameEngines
<1>7. Book(AdvanceQueue(w)) /\ (Undisturbed => Once(AdvanceQueue(w), NoItem))
  BY <1>4, <1>6, AdvancedOnce
<1> QED
  BY <1>3, <1>7, OnceBecomes

LEMMA StopOnce ==
    ASSUME BookInv, CalmInv, OnceInv, Stop
    PROVE  OnceInv'
<1> DEFINE w == World
           u == Deactivate(w)
<1>1. Book(w) /\ w \in Worlds
  BY InvWorld
<1>2. Handler /\ UNCHANGED env /\ Becomes(u)
  BY DEF Stop, Event
<1>3. Undisturbed => Calm(w, NoEngine) /\ Once(w, NoItem)
  BY <1>2, HandlerRests, OnceWorld DEF Rests
<1> HIDE DEF w
<1>4. Halted(w, u)
  BY <1>1, DeactivateViews
<1> HIDE DEF u
<1>5. Book(u) /\ (Undisturbed => Once(u, NoItem))
  BY <1>1, <1>3, <1>4, CalmSilent, HaltedOnce DEF Halted
<1> QED
  BY <1>2, <1>5, OnceBecomes

LEMMA EmptiedOnce ==
    ASSUME NEW w, Book(w), Once(w, NoItem)
    PROVE  Once(Emptied(w), NoItem)
<1> DEFINE u == Emptied(w)
<1>1. w \in Worlds
  BY DEF Book
<1>2. /\ u \in Worlds /\ SameRest(w, u)
      /\ u.item = [i \in Items |-> LeftIn(w, i)]
      /\ \A s \in Sites, j \in Items : Listed(u, s, j) <=> Listed(w, s, j) /\ j \in Kept(w)
  BY <1>1, EmptiedViews
<1> HIDE DEF u
<1>3. ASSUME NEW i \in Items
      PROVE  u.item[i].sent = w.item[i].sent /\ FileOnce(u.item[i])
  <2>1. LET r == LeftIn(w, i)
        IN  /\ r \in ItemRec /\ r.active = w.item[i].active /\ r.sent = w.item[i].sent
            /\ r.where = IF i \notin Kept(w) THEN "gone" ELSE w.item[i].where
    BY <1>1, LeftInType
  <2>2. FileOnce(w.item[i])
    BY DEF Once
  <2>3. FileOnce(LeftIn(w, i))
    BY <2>1, <2>2 DEF FileOnce
  <2> QED
    BY <1>2, <2>1, <2>3
<1>4. \A e \in Engines : w.q.data[e].item \in Items \cup {NoItem}
  BY OnceItems
<1>5. u.q.data = w.q.data /\ u.net = w.net
  BY <1>2 DEF SameRest, SameEngines
<1> QED
  BY <1>3, <1>4, <1>5, OnceFrame DEF u

LEMMA RemoveAllOnce ==
    ASSUME BookInv, OnceInv, RemoveAll
    PROVE  OnceInv'
<1> DEFINE w == World
           x == Emptied(w)
           u == CheckQueueState(x)
<1>1. Book(w)
  BY InvWorld
<1>2. UNCHANGED env /\ Becomes(u)
  BY DEF RemoveAll, Event
<1>3. Undisturbed => Once(w, NoItem)
  BY OnceWorld
<1> HIDE DEF w
<1>4. Book(x) /\ (Undisturbed => Once(x, NoItem))
  BY <1>1, <1>3, BookEmptied, EmptiedOnce
<1> HIDE DEF x
<1>5. Settled(x, u)
  BY <1>4, CheckViews
<1> HIDE DEF u
<1>6. Book(u) /\ (Undisturbed => Once(u, NoItem))
  BY <1>4, <1>5, SettledOnce DEF Settled
<1> QED
  BY <1>2, <1>6, OnceBecomes

LEMMA RemovedOnce ==
    ASSUME NEW w, Book(w), Once(w, NoItem), NEW i \in Items, ~w.item[i].active
    PROVE  LET u == RemoveItem(w, i, "gone") IN Book(u) /\ Once(u, NoItem)
<1>1. PICK p \in Places : p = "gone"
  BY DEF Places
<1> DEFINE u == RemoveItem(w, i, p)
<1>2. w \in Worlds
  BY DEF Book
<1>3. /\ u \in Worlds /\ SameRest(w, u)
      /\ u.item[i] = [w.item[i] EXCEPT !.where = p]
      /\ \A j \in Items \ {i} : u.item[j] = w.item[j]
      /\ \A s \in Sites, j \in Items :
           Listed(u, s, j) <=> Listed(w, s, j) /\ ~(s = SiteOf[i] /\ j = i)
  BY <1>2, RemoveViews
<1>4. Book(u)
  BY <1>1, BookRemoved
<1> HIDE DEF u
<1>5. w.item[i] \in ItemRec /\ FileOnce(w.item[i])
  BY <1>2, ItemType DEF Once
<1>6. u.item[i].sent = w.item[i].sent /\ u.item[i].where = "gone"
  BY <1>1, <1>3, <1>5 DEF ItemRec
<1>7. FileOnce(u.item[i])
  BY <1>5, <1>6 DEF FileOnce
<1>8. \A j \in Items : u.item[j].sent = w.item[j].sent /\ FileOnce(u.item[j])
  BY <1>3, <1>6, <1>7 DEF Once
<1>9. \A e \in Engines : w.q.data[e].item \in Items \cup {NoItem}
  BY OnceItems
<1>10. u.q.data = w.q.data /\ u.net = w.net
  BY <1>3 DEF SameRest, SameEngines
<1>11. Once(u, NoItem)
  BY <1>8, <1>9, <1>10, OnceFrame
<1> QED
  BY <1>1, <1>4, <1>11 DEF u

LEMMA StopItemOnce ==
    ASSUME NEW w, Book(w), Once(w, NoItem), NEW i \in Items, w.item[i].active,
           w.q.sending = NoEngine
    PROVE  LET u == StopItem(ToBeRemoved(w, i), i) IN Book(u) /\ Once(u, NoItem)
<1> DEFINE x == ToBeRemoved(w, i)
           id == CHOOSE k \in Engines : Data(x, k).item = i
           v == QueueImmediateFile(x, i)
           u == StopItem(x, i)
<1>1. /\ Book(x) /\ x.q = w.q /\ x.tab = w.tab /\ x.net = w.net
      /\ \A j \in Items : /\ x.item[j].active = w.item[j].active
                          /\ x.item[j].where = w.item[j].where
                          /\ x.item[j].sent = w.item[j].sent
  BY BookToBeRemoved
<1> HIDE DEF x
<1>2. Once(x, NoItem)
  BY <1>1, OnceSame
<1>3. id \in Engines
  <2>1. \E k \in Engines : x.q.data[k].item = i
    BY <1>1, ActiveQueued
  <2> QED
    BY <2>1 DEF Data
<1>4. Book(u)
  BY <1>1, BookStopItem
<1>5. u = ResetEngine(v, id, "remove") \/ u = CancelEngine(v, id)
  BY DEF StopItem
<1> HIDE DEF id, u
<1>6. Book(v) /\ v.item = x.item /\ SameRest(x, v)
  BY <1>1, BookPutBack
<1> HIDE DEF v
<1>7. Once(v, NoItem)
  BY <1>2, <1>6, SameOnce DEF SameRest, SameEngines
<1>8. CASE u = CancelEngine(v, id)
  <2>1. /\ Book(u) /\ u.q = v.q /\ u.item = v.item /\ u.tab = v.tab
        /\ \A e \in Engines : Cancelled(v.net[e], u.net[e])
    BY <1>3, <1>6, <1>8, BookCancel
  <2>2. ASSUME NEW e \in Engines
        PROVE  Tells(u.net[e]) <=> Tells(v.net[e])
    <3>1. v.net[e] \in NetRec /\ Cancelled(v.net[e], u.net[e])
      BY <1>6, <2>1, NetType DEF Book
    <3>2. u.net[e].inbox = v.net[e].inbox
      BY <3>1 DEF Cancelled, NetRec
    <3> QED
      BY <3>2, TellsSame
  <2>3. Once(u, NoItem)
    BY <1>6, <1>7, <2>1, <2>2, OnceSame
  <2> QED
    BY <1>4, <2>3 DEF u, x
<1>9. CASE u = ResetEngine(v, id, "remove")
  <2>1. PICK reason \in Reasons : reason = "remove"
    BY DEF Reasons
  <2>2. CASE ~v.q.data[id].active
    <3>1. u = v
      BY <1>9, <2>2 DEF ResetEngine, Data
    <3> QED
      BY <1>4, <1>7, <3>1 DEF u, x
  <2>3. CASE v.q.data[id].active
    <3> DEFINE z == Reset(v, id, reason)
    <3>1. Suited(v, id, reason)
      BY <2>1 DEF Suited, Stays
    <3>2. Once(z, NoItem) /\ Book(z)
      BY <1>3, <1>6, <1>7, <2>3, <3>1, ResetOnce, BookReset
    <3>3. u = AdvanceQueue(z)
      BY <1>9, <2>1, <2>3 DEF ResetEngine, Data
    <3> HIDE DEF z
    <3>4. Once(u, NoItem)
      BY <3>2, <3>3, AdvancedOnce
    <3> QED
      BY <1>4, <3>4 DEF u, x
  <2> QED
    BY <2>2, <2>3
<1> QED
  BY <1>5, <1>8, <1>9

LEMMA OnRemoveSelectedOnce ==
    ASSUME BookInv, OnceInv, OnRemoveSelected
    PROVE  OnceInv'
<1> DEFINE w == World
<1>1. Book(w) /\ w.q = q /\ w.item = item
  BY InvWorld
<1>2. Handler /\ UNCHANGED env
  BY DEF OnRemoveSelected, Event
<1>3. PICK i \in Items :
         Becomes(IF w.item[i].active THEN StopItem(ToBeRemoved(w, i), i)
                 ELSE RemoveItem(w, i, "gone"))
  BY <1>1 DEF OnRemoveSelected
<1>4. CASE ~Undisturbed
  BY <1>2, <1>4 DEF OnceInv, Undisturbed
<1>5. CASE Undisturbed
  <2>1. Once(w, NoItem) /\ w.q.sending = NoEngine
    BY <1>1, <1>2, <1>5, OnceWorld, HandlerQuiet
  <2> HIDE DEF w
  <2>2. PICK u : u = IF w.item[i].active THEN StopItem(ToBeRemoved(w, i), i)
                     ELSE RemoveItem(w, i, "gone")
    OBVIOUS
  <2>3. Book(u) /\ Once(u, NoItem)
    <3>1. CASE w.item[i].active
      BY <1>1, <2>1, <2>2, <3>1, StopItemOnce
    <3>2. CASE ~w.item[i].active
      BY <1>1, <2>1, <2>2, <3>2, RemovedOnce
    <3> QED
      BY <3>1, <3>2
  <2>4. Becomes(u)
    BY <1>3, <2>2
  <2> QED
    BY <1>2, <2>3, <2>4, OnceBecomes
<1> QED
  BY <1>4, <1>5

LEMMA OnTimerOnce ==
    ASSUME BookInv, OnceInv, OnTimer
    PROVE  OnceInv'
<1> DEFINE w == World
<1>1. Book(w) /\ w \in Worlds /\ w.q = q /\ w.net = net
  BY InvWorld
<1>2. UNCHANGED env
  BY DEF OnTimer, Event
<1>3. PICK id \in Engines :
         \E x \in {WithData(w, id, [q.data[id] EXCEPT !.timer = FALSE])} :
            /\ q.data[id].timer
            /\ Becomes(IF IsConnected(x, id) /\ Precondition(x, id, "disconnect") # "busy"
                       THEN Execute(x, id, "disconnect", NoItem) ELSE x)
  BY DEF OnTimer
<1> DEFINE x == WithData(w, id, Untimed(w.q.data[id]))
           u == Execute(x, id, "disconnect", NoItem)
           z == IF IsConnected(x, id) /\ Precondition(x, id, "disconnect") # "busy" THEN u ELSE x
<1>4. w.q.data[id].timer /\ Becomes(z)
  BY <1>1, <1>3 DEF Untimed
<1>5. Undisturbed => Once(w, NoItem)
  BY OnceWorld
<1>6. w.q.data \in [Engines -> DataRec] /\ w.q.data[id] \in DataRec
  BY <1>1, WorldParts, DataType
<1> HIDE DEF w
<1>7. /\ Book(x) /\ x.item = w.item /\ x.tab = w.tab /\ x.net = w.net
      /\ x.q.data = [w.q.data EXCEPT ![id] = Untimed(w.q.data[id])]
      /\ x.q.engines = w.q.engines
      /\ x.q.sending = w.q.sending /\ x.q.mode = w.q.mode /\ x.q.inside = w.q.inside
      /\ x.q.refused = w.q.refused
  BY <1>1, <1>4, BookUntimed
<1> HIDE DEF x
<1>8. Undisturbed => Once(x, NoItem)
  <2>1. Untimed(w.q.data[id]).item = w.q.data[id].item
    BY <1>6, UntimedType DEF Alike
  <2>2. \A e \in Engines : x.q.data[e].item = w.q.data[e].item
    BY <1>6, <1>7, <2>1
  <2> QED
    BY <1>1, <1>5, <1>7, <2>2, OnceSame
<1>9. PICK cmd \in Commands, to \in Aims : cmd = "disconnect" /\ to = NoItem
  BY DEF Commands, Aims, Files
<1>10. u = Execute(x, id, cmd, to)
  BY <1>9
<1> HIDE DEF u
<1>11. /\ u.item = x.item /\ u.tab = x.tab /\ u.q = x.q
       /\ u.net = [x.net EXCEPT ![id] = Executing(x.net[id], cmd, to)]
  BY <1>7, <1>10, ExecutedViews DEF Book
<1>12. Book(u)
  BY <1>7, <1>9, <1>10, BookExecute
<1>13. Undisturbed => Once(u, NoItem)
  <2>1. x.net \in [Engines -> NetRec] /\ x.net[id] \in NetRec
    BY <1>7, WorldParts, NetType DEF Book
  <2>2. Executing(x.net[id], cmd, to).inbox = x.net[id].inbox
    BY <2>1, ExecutingType
  <2>3. \A e \in Engines : u.net[e].inbox = x.net[e].inbox
    BY <1>11, <2>1, <2>2
  <2>4. \A e \in Engines : Tells(u.net[e]) <=> Tells(x.net[e])
    BY <2>3, TellsSame
  <2> QED
    BY <1>7, <1>8, <1>11, <2>4, OnceSame
<1>14. Book(z) /\ (Undisturbed => Once(z, NoItem))
  BY <1>7, <1>8, <1>12, <1>13
<1> HIDE DEF z
<1> QED
  BY <1>2, <1>4, <1>14, OnceBecomes

LEMMA TabCommandOnce ==
    ASSUME BookInv, OnceInv, TabCommand
    PROVE  OnceInv'
<1> DEFINE w == World
<1>1. Book(w) /\ w \in Worlds /\ w.q = q /\ w.tab = tab
  BY InvWorld
<1>2. UNCHANGED env
  BY DEF TabCommand, Event
<1>3. PICK cmd \in {"browse", "connect", "disconnect"}, s \in Sites : Becomes(TabBegins(w, cmd, s))
  BY <1>1 DEF TabCommand
<1> DEFINE u == TabBegins(w, cmd, s)
<1>4. Undisturbed => Once(w, NoItem)
  BY OnceWorld
<1> HIDE DEF w
<1>5. /\ Book(u) /\ u.q = w.q /\ u.item = w.item /\ u.tab = TabBegun(w.tab, cmd, s)
      /\ u.net = [w.net EXCEPT ![TabEngine] = Executing(w.net[TabEngine], cmd, s)]
  BY <1>1, BookTabBegins
<1> HIDE DEF u
<1>6. Undisturbed => Once(u, NoItem)
  <2>1. w.net \in [Engines -> NetRec] /\ w.net[TabEngine] \in NetRec /\ TabEngine \in Engines
    BY <1>1, WorldParts, NetType, OwnIn
  <2>2. cmd \in Commands /\ s \in Aims
    BY DEF Commands, Aims
  <2>3. Executing(w.net[TabEngine], cmd, s).inbox = w.net[TabEngine].inbox
    BY <2>1, <2>2, ExecutingType
  <2>4. \A e \in Engines : u.net[e].inbox = w.net[e].inbox
    BY <1>5, <2>1, <2>3
  <2>5. \A e \in Engines : Tells(u.net[e]) <=> Tells(w.net[e])
    BY <2>4, TellsSame
  <2> QED
    BY <1>1, <1>4, <1>5, <2>5, OnceSame
<1> QED
  BY <1>2, <1>3, <1>5, <1>6, OnceBecomes DEF u

(* A reply that comes after another, or that does not tell of a file.      *)
LEMMA AppendTells ==
    ASSUME NEW n \in NetRec, NEW m, NEW r, m.inbox = Append(n.inbox, r),
           ~(r.code = "ok" /\ r.cmd \in {"transfer", "mkdir"})
    PROVE  Tells(m) <=> Tells(n)
<1>1. n.inbox \in Seq(Replies)
  BY DEF NetRec
<1>2. m.inbox # <<>> /\ (n.inbox # <<>> => m.inbox[1] = n.inbox[1]) /\ (n.inbox = <<>> => m.inbox[1] = r)
  <2> HIDE DEF Replies
  <2> QED
    BY <1>1
<1> QED
  BY <1>2 DEF Tells

LEMMA EndedTells ==
    ASSUME NEW n \in NetRec, NEW code \in Codes, NEW progress \in BOOLEAN, NEW m,
           m.inbox = Ended(n, code, progress).inbox,
           code # "ok" \/ n.cmd \notin {"transfer", "mkdir"}
    PROVE  Tells(m) <=> Tells(n)
<1> DEFINE r == [cmd |-> n.cmd, to |-> n.to, code |-> code, progress |-> progress]
<1>1. m.inbox = Append(n.inbox, r)
  BY EndedType DEF Reply
<1>2. r.code = code /\ r.cmd = n.cmd
  OBVIOUS
<1> HIDE DEF r
<1> QED
  BY <1>1, <1>2, AppendTells

(* A step of an engine that transfers nothing.                             *)
LEMMA ChangeOnce ==
    ASSUME BookInv, OnceInv, NEW id \in Engines, NEW m, Change(id, m),
           UNCHANGED <<q, item, env>>, Tells(m) <=> Tells(net[id])
    PROVE  OnceInv'
<1> SUFFICES ASSUME Undisturbed', NEW u, u = World' PROVE Once(u, NoItem)
  BY DEF OnceInv
<1> DEFINE w == World
<1>1. Book(w) /\ w \in Worlds /\ w.q = q /\ w.item = item /\ w.net = net
  BY InvWorld
<1>2. Once(w, NoItem)
  BY OnceWorld DEF Undisturbed
<1>3. u.q = w.q /\ u.item = w.item /\ u.net = [w.net EXCEPT ![id] = m]
  BY <1>1 DEF World, Change
<1> HIDE DEF w
<1>4. w.net \in [Engines -> NetRec] /\ (Tells(m) <=> Tells(w.net[id]))
  BY <1>1, WorldParts
<1>5. \A e \in Engines : Tells(u.net[e]) <=> Tells(w.net[e])
  BY <1>3, <1>4
<1> QED
  BY <1>1, <1>2, <1>3, <1>5, OnceSame

LEMMA EngineBeginsOnce ==
    ASSUME BookInv, OnceInv, NEW id \in Engines, EngineBegins(id)
    PROVE  OnceInv'
<1> DEFINE n == net[id]
           s == Target(id)
           m == [n EXCEPT !.server = s]
<1>1. n \in NetRec
  BY NetOf
<1>2. Change(id, m) /\ UNCHANGED <<q, item, env>>
  BY DEF EngineBegins
<1>3. m.inbox = n.inbox
  <2> HIDE DEF n, s
  <2> QED
    BY <1>1 DEF NetRec
<1> HIDE DEF m
<1>4. Tells(m) <=> Tells(n)
  BY <1>3, TellsSame
<1> QED
  BY <1>2, <1>4, ChangeOnce

LEMMA EngineFailsOnce ==
    ASSUME BookInv, OnceInv, NEW id \in Engines, EngineFails(id)
    PROVE  OnceInv'
<1>1. net[id] \in NetRec
  BY NetOf
<1>2. UNCHANGED <<q, item, env>>
  BY DEF EngineFails
<1>3. PICK code \in Failures(net[id].cmd), progress \in BOOLEAN :
         Change(id, Ended(net[id], code, progress))
  BY DEF EngineFails
<1>4. code \in Codes /\ code # "ok"
  BY DEF Failures, Codes
<1>5. PICK m : m = Ended(net[id], code, progress)
  OBVIOUS
<1>6. Tells(m) <=> Tells(net[id])
  BY <1>1, <1>4, <1>5, EndedTells
<1> QED
  BY <1>2, <1>3, <1>5, <1>6, ChangeOnce

LEMMA EngineCancelsOnce ==
    ASSUME BookInv, OnceInv, NEW id \in Engines, EngineCancels(id)
    PROVE  OnceInv'
<1> DEFINE o == net[id]
           n == [o EXCEPT !.cancel = FALSE]
<1>1. o \in NetRec
  BY NetOf
<1>2. UNCHANGED <<q, item, env>>
      /\ \/ Change(id, n)
         \/ \E server \in {n.server, NoSite} :
                Change(id, [Ended(n, "canceled", FALSE) EXCEPT !.server = server])
  BY DEF EngineCancels
<1> HIDE DEF o
<1>3. n \in NetRec /\ n.inbox = o.inbox
  BY <1>1, CancelFlag
<1> HIDE DEF n
<1>4. Tells(n) <=> Tells(o)
  BY <1>3, TellsSame
<1>5. CASE Change(id, n)
  BY <1>2, <1>4, <1>5, ChangeOnce DEF o
<1>6. CASE \E server \in {n.server, NoSite} :
               Change(id, [Ended(n, "canceled", FALSE) EXCEPT !.server = server])
  <2>1. PICK server \in {n.server, NoSite} :
            Change(id, [Ended(n, "canceled", FALSE) EXCEPT !.server = server])
    BY <1>6
  <2>2. PICK code \in Codes, no \in BOOLEAN : code = "canceled" /\ no = FALSE
    BY DEF Codes
  <2> DEFINE k == Ended(n, code, no)
             m == [k EXCEPT !.server = server]
  <2>3. k \in NetRec
    BY <1>3, EndedType
  <2>4. Change(id, m)
    BY <2>1, <2>2
  <2>5. m.inbox = k.inbox
    <3> HIDE DEF k
    <3> QED
      BY <2>3 DEF NetRec
  <2> HIDE DEF m
  <2>6. Tells(m) <=> Tells(n)
    BY <1>3, <2>2, <2>5, EndedTells
  <2> QED
    BY <1>2, <1>4, <2>4, <2>6, ChangeOnce DEF o
<1> QED
  BY <1>2, <1>5, <1>6

LEMMA EngineCancelsLateOnce ==
    ASSUME BookInv, OnceInv, NEW id \in Engines, EngineCancelsLate(id)
    PROVE  OnceInv'
<1> DEFINE o == net[id]
           n == [o EXCEPT !.late = FALSE]
<1>1. o \in NetRec
  BY NetOf
<1>2. UNCHANGED <<q, item, env>> /\ (Change(id, n) \/ Change(id, Ended(n, "canceled", FALSE)))
  BY DEF EngineCancelsLate
<1> HIDE DEF o
<1>3. n \in NetRec /\ n.inbox = o.inbox
  BY <1>1, CancelFlag
<1> HIDE DEF n
<1>4. Tells(n) <=> Tells(o)
  BY <1>3, TellsSame
<1>5. CASE Change(id, n)
  BY <1>2, <1>4, <1>5, ChangeOnce DEF o
<1>6. CASE Change(id, Ended(n, "canceled", FALSE))
  <2>1. PICK code \in Codes, no \in BOOLEAN : code = "canceled" /\ no = FALSE
    BY DEF Codes
  <2> DEFINE m == Ended(n, code, no)
  <2>3. Change(id, m)
    BY <1>6, <2>1
  <2> HIDE DEF m
  <2>2. Tells(m) <=> Tells(n)
    BY <1>3, <2>1, EndedTells DEF m
  <2> QED
    BY <1>2, <1>4, <2>2, <2>3, ChangeOnce DEF o
<1> QED
  BY <1>2, <1>5, <1>6

(* An engine in the middle of a file has its one command and no reply yet. *)
LEMMA WorkingDue ==
    ASSUME NEW w, Book(w), NEW h, Calm(w, h), NEW id \in Engines,
           w.net[id].cmd \in {"transfer", "mkdir"}
    PROVE  w.net[id].inbox = <<>> /\ w.net[id].to = w.q.data[id].item /\ w.net[id].to \in Items
<1> DEFINE d == w.q.data[id]
           n == w.net[id]
<1>1. n.to \in Items /\ w \in Worlds
  BY DEF Book, ToOK
<1>2. n.cmd \in {"transfer", "mkdir"}
  OBVIOUS
<1>3. w.tab.cmd \in {"none", "browse", "connect", "disconnect"}
  BY <1>1, TabType
<1>4. Due(n, d.state, d.item)
  <2>1. CASE id \in Own
    <3>1. EngineCalm(d, n, HasData(w, id), id = h)
      BY <2>1, CalmParts
    <3> HIDE DEF d, n
    <3>2. ~Clean(n) /\ ~Due(n, "disconnect", NoItem)
      BY <1>2 DEF Clean, Due
    <3> QED
      BY <3>1, <3>2 DEF EngineCalm
  <2>2. CASE id = TabEngine
    <3>1. TabCalm(d, n, w.tab, HasData(w, id), id = h)
      BY <2>2, CalmParts
    <3> HIDE DEF d, n
    <3>2. ~Clean(n) /\ \A to : ~Due(n, w.tab.cmd, to)
      BY <1>2, <1>3 DEF Clean, Due
    <3> QED
      BY <3>1, <3>2 DEF TabCalm
  <2> QED
    BY <2>1, <2>2, OwnIn
<1> HIDE DEF d, n
<1>5. n.inbox = <<>> /\ n.to = d.item
  BY <1>2, <1>4 DEF Due
<1> QED
  BY <1>1, <1>5 DEF d, n

(* The file of an engine that has a command and no reply is transferred.   *)
LEMMA SentHeldOnce ==
    ASSUME NEW w, Book(w), Once(w, NoItem), NEW id \in Engines, NEW i \in Items,
           w.q.data[id].item = i, ~Tells(w.net[id]), NEW m, Tells(m),
           NEW u, u.q = w.q, u.net = [w.net EXCEPT ![id] = m],
           u.item = [w.item EXCEPT ![i].sent = w.item[i].sent + 1]
    PROVE  Once(u, NoItem)
<1> DEFINE n == w.item[i].sent + 1
           k == [w.item[i] EXCEPT !.sent = n]
<1>1. /\ w \in Worlds /\ ItemsOK(w) /\ i # NoItem
      /\ w.item \in [Items -> ItemRec] /\ w.net \in [Engines -> NetRec] /\ w.item[i] \in ItemRec
  <2>1. w \in Worlds
    BY DEF Book
  <2> QED
    BY <2>1, WorldParts, ItemType, QueueAssumption DEF Book
<1>2. w.item[i].active /\ w.item[i].where = "queue"
  BY <1>1 DEF ItemsOK
<1>3. w.item[i].sent = 0
  BY <1>1 DEF Once, HeldOnce, SentBy
<1>4. u.item = [w.item EXCEPT ![i] = k]
  OBVIOUS
<1>5. k.sent = 1 /\ k.active /\ k.where = "queue"
  <2>1. n = 1
    BY <1>3
  <2>2. k.sent = n /\ k.active = w.item[i].active /\ k.where = w.item[i].where
    <3> HIDE DEF n
    <3> QED
      BY <1>1 DEF ItemRec
  <2> QED
    BY <1>2, <2>1, <2>2
<1> HIDE DEF k
<1>6. FileOnce(k)
  BY <1>5 DEF FileOnce
<1>7. \A j \in Items : FileOnce(u.item[j])
  BY <1>1, <1>4, <1>6 DEF Once
<1>8. ASSUME NEW e \in Engines, u.q.data[e].item # NoItem
      PROVE  u.item[u.q.data[e].item].sent = SentBy(u.q.data[e], u.net[e], NoItem)
  <2>1. CASE e = id
    <3>1. u.item[i] = k /\ u.net[e] = m /\ u.q.data[e].item = i
      BY <1>1, <1>4, <2>1
    <3>2. SentBy(u.q.data[e], u.net[e], NoItem) = 1
      BY <3>1 DEF SentBy
    <3> QED
      BY <1>5, <3>1, <3>2
  <2>2. CASE e # id
    <3>1. u.q.data[e] = w.q.data[e] /\ u.net[e] = w.net[e]
      BY <2>2
    <3>2. w.q.data[e].item # i /\ w.q.data[e].item # NoItem
      BY <1>1, <1>8, <2>2, <3>1 DEF ItemsOK
    <3>3. w.q.data[e].item \in Items
      BY <3>2, OnceItems
    <3>4. u.item[w.q.data[e].item] = w.item[w.q.data[e].item]
      BY <1>1, <1>4, <3>2, <3>3
    <3>5. w.item[w.q.data[e].item].sent = SentBy(w.q.data[e], w.net[e], NoItem)
      BY <3>2 DEF Once, HeldOnce
    <3> QED
      BY <3>1, <3>4, <3>5
  <2> QED
    BY <2>1, <2>2
<1> QED
  BY <1>7, <1>8 DEF Once, HeldOnce

LEMMA EngineSucceedsOnce ==
    ASSUME BookInv, CalmInv, OnceInv, NEW id \in Engines, EngineSucceeds(id)
    PROVE  OnceInv'
<1> DEFINE n == net[id]
<1>1. n \in NetRec
  BY NetOf
<1>2. /\ Change(id, Ended(n, "ok", FALSE)) /\ UNCHANGED <<q, env>>
      /\ item' = IF n.cmd \in {"transfer", "mkdir"} THEN [item EXCEPT ![n.to].sent = @ + 1] ELSE item
  BY DEF EngineSucceeds
<1>3. PICK code \in Codes, no \in BOOLEAN : code = "ok" /\ no = FALSE
  BY DEF Codes
<1> DEFINE m == Ended(n, code, no)
<1>4. Change(id, m)
  BY <1>2, <1>3
<1> HIDE DEF n, m
<1>5. CASE n.cmd \notin {"transfer", "mkdir"}
  <2>1. Tells(m) <=> Tells(n)
    BY <1>1, <1>5, EndedTells DEF m
  <2> QED
    BY <1>2, <1>4, <1>5, <2>1, ChangeOnce DEF n
<1>6. CASE n.cmd \in {"transfer", "mkdir"}
  <2> SUFFICES ASSUME Undisturbed', NEW u, u = World' PROVE Once(u, NoItem)
    BY DEF OnceInv
  <2> DEFINE w == World
             h == w.q.sending
             i == n.to
             r == [cmd |-> n.cmd, to |-> n.to, code |-> code, progress |-> no]
  <2>1. Book(w) /\ w \in Worlds /\ w.q = q /\ w.item = item /\ w.net = net
    BY InvWorld
  <2>2. Undisturbed
    BY <1>2 DEF Undisturbed
  <2>3. Once(w, NoItem) /\ Calm(w, h)
    BY <2>2, OnceWorld, CalmWorld DEF Peace
  <2>4. u.q = w.q /\ u.item = item' /\ u.net = [w.net EXCEPT ![id] = m]
    BY <1>2, <1>4, <2>1 DEF World, Change
  <2> HIDE DEF w, h
  <2>5. w.net[id] = n
    BY <2>1 DEF n
  <2>6. n.inbox = <<>> /\ i = w.q.data[id].item /\ i \in Items
    BY <1>6, <2>1, <2>3, <2>5, WorkingDue
  <2>7. Tells(m)
    <3>1. m.inbox = Append(n.inbox, r)
      BY <1>1, EndedType DEF m, Reply
    <3>2. r.code = "ok" /\ r.cmd = n.cmd
      BY <1>3
    <3> HIDE DEF r
    <3>3. m.inbox = <<r>>
      BY <2>6, <3>1
    <3> QED
      BY <1>6, <3>2, <3>3 DEF Tells
  <2>8. ~Tells(n)
    BY <2>6 DEF Tells
  <2>9. item' = [item EXCEPT ![i].sent = item[i].sent + 1]
    BY <1>2, <1>6
  <2> HIDE DEF i
  <2>10. u.item = [w.item EXCEPT ![i].sent = w.item[i].sent + 1]
    BY <2>1, <2>4, <2>9
  <2> QED
    BY <2>1, <2>3, <2>4, <2>5, <2>6, <2>7, <2>8, <2>10, SentHeldOnce
<1> QED
  BY <1>5, <1>6

LEMMA InitOnce ==
    ASSUME Init
    PROVE  OnceInv
<1> DEFINE w == World
           d == NewData("none")
<1>1. w.q = q /\ w.item = item /\ q.data = [id \in Engines |-> d]
      /\ item = [i \in Items |->
                   [where |-> IF Contains(Loaded, i) THEN "queue" ELSE "out", active |-> FALSE,
                    errors |-> 0, remove |-> FALSE, sent |-> 0]]
  BY DEF Init, World
<1>2. d.item = NoItem
  BY DEF NewData
<1> HIDE DEF w, d
<1>3. \A e \in Engines : w.q.data[e].item = NoItem
  BY <1>1, <1>2
<1>4. \A i \in Items : FileOnce(w.item[i])
  BY <1>1 DEF FileOnce
<1>5. Once(w, NoItem)
  BY <1>3, <1>4 DEF Once, HeldOnce
<1> QED
  BY <1>5 DEF OnceInv, w

LEMMA NextOnce ==
    ASSUME BookInv, CalmInv, OnceInv, [Next]_vars
    PROVE  OnceInv'
<1>1. ASSUME Interface PROVE OnceInv'
  BY <1>1, SendNextCommandOnce, StartNextTransferOnce, FinishOnce,
     OnExclusiveEngineRequestGrantedOnce, OnEngineEventOnce DEF Interface
<1>2. ASSUME UNCHANGED vars PROVE OnceInv'
  BY <1>2 DEF vars, OnceInv, Undisturbed, World
<1>3. ASSUME NEW id \in Engines, EngineSteps(id) PROVE OnceInv'
  BY <1>3, EngineBeginsOnce, EngineSucceedsOnce, EngineFailsOnce, EngineCancelsOnce,
     EngineCancelsLateOnce DEF EngineSteps
<1> QED
  BY <1>1, <1>2, <1>3, QueueFileOnce, SetActiveOnce, StopOnce, OnRemoveSelectedOnce,
     RemoveAllOnce, OnTimerOnce, TabCommandOnce DEF Next

(* Undisturbed, a file is transferred at most once, whatever becomes of    *)
(* its engine, and the queue lists as successful only what was: an engine  *)
(* whose reply is read has transferred the file it still has, and a file   *)
(* that is given back to the queue has not been.                           *)
THEOREM SentOnlyOnce == Spec => [](Undisturbed => TransferredOnce)
<1>1. Init => BookInv /\ CalmInv /\ OnceInv
  BY InitBook, InitCalm, InitOnce
<1>2. BookInv /\ CalmInv /\ OnceInv /\ [Next]_vars => (BookInv /\ CalmInv /\ OnceInv)'
  BY NextBook, NextCalm, NextOnce
<1>3. BookInv /\ OnceInv => (Undisturbed => TransferredOnce)
  <2> SUFFICES ASSUME BookInv, OnceInv, Undisturbed PROVE TransferredOnce
    OBVIOUS
  <2>1. Once(World, NoItem) /\ World.item = item
    BY OnceWorld, InvWorld
  <2> QED
    BY <2>1 DEF Once, FileOnce, TransferredOnce
<1> QED
  BY <1>1, <1>2, <1>3, PTL DEF Spec

-----------------------------------------------------------------------------
(* An engine is open while it is active, has neither been told to stop nor *)
(* answered, and does not refresh a listing.                               *)
Shut(n) == n.cancel \/ n.inbox # <<>>
Open(w, e) == w.q.data[e].active /\ w.q.data[e].state # "list" /\ ~Shut(w.net[e])

(* Of the engines in E of a queue that is stopped only those in X are      *)
(* open, and none waits; none is sent a command.  A step that is begun with*)
(* the engines in X open ends with no other.                               *)
HaltBut(w, E, X) ==
    w.q.mode = 0 =>
        /\ TabEngine \in E => ~Waits(w)
        /\ \A e \in E : Open(w, e) => e \in X
Halt(w, X) == HaltBut(w, Engines, X) /\ (w.q.mode = 0 => w.q.sending = NoEngine)

LEMMA HaltFrame ==
    ASSUME NEW X, NEW w, NEW E, HaltBut(w, E, X), NEW u, u.q.mode = 0 => w.q.mode = 0,
           u.q.mode = 0 => \A e \in E : Open(u, e) => Open(w, e),
           u.q.mode = 0 /\ TabEngine \in E /\ Waits(u) => Waits(w)
    PROVE  HaltBut(u, E, X)
BY DEF HaltBut

(* The same engines with the same replies.                                 *)
LEMMA HaltSame ==
    ASSUME NEW X, NEW w, NEW E, HaltBut(w, E, X), NEW u, u.q.mode = 0 => w.q.mode = 0,
           u.q.data = w.q.data, u.net = w.net
    PROVE  HaltBut(u, E, X)
BY DEF HaltBut, Open, Waits

LEMMA HaltLess ==
    ASSUME NEW X, NEW w, NEW E, HaltBut(w, E, X), NEW F \in SUBSET E
    PROVE  HaltBut(w, F, X)
BY DEF HaltBut

LEMMA GrownHalt ==
    ASSUME NEW X, NEW w, Book(w), NEW u, Grown(w, u), HaltBut(w, Engines, X)
    PROVE  HaltBut(u, Engines, X)
<1>1. Book(u) /\ u.net = w.net /\ u.q.mode = w.q.mode
  BY DEF Grown, SameMode
<1>2. ASSUME NEW e \in Engines, u.q.data[e].active
      PROVE  u.q.data[e] = w.q.data[e]
  <2>1. HasData(u, e)
    BY <1>1, <1>2, ActiveHas
  <2>2. CASE HasData(w, e)
    BY <2>2 DEF Grown
  <2>3. CASE ~HasData(w, e)
    <3>1. u.q.data[e] = NewData(NewState(e))
      BY <2>1, <2>3 DEF Grown
    <3>2. \A s : ~NewData(s).active
      BY DEF NewData
    <3> QED
      BY <1>2, <3>1, <3>2
  <2> QED
    BY <2>2, <2>3
<1>3. \A e \in Engines : Open(u, e) => Open(w, e)
  BY <1>1, <1>2 DEF Open
<1>4. Waits(u) => Waits(w)
  BY <1>2, OwnIn DEF Waits
<1> QED
  BY <1>1, <1>3, <1>4, HaltFrame

(* Where nothing is counted no engine is active.                           *)
LEMMA NoneCounted ==
    ASSUME NEW w, Book(w), w.q.count = 0, NEW e \in Engines
    PROVE  ~w.q.data[e].active
<1>1. w.q.count = Cardinality(Busy(w.q.data))
  BY DEF Book, CountsOK
<1>2. Busy(w.q.data) \subseteq Engines
  BY DEF Busy
<1>3. IsFiniteSet(Busy(w.q.data))
  BY <1>2, EnginesFinite, FS_Subset
<1>4. Busy(w.q.data) = {}
  BY <1>1, <1>3, FS_EmptySet
<1> QED
  BY <1>4 DEF Busy

LEMMA SettledHalt ==
    ASSUME NEW X, NEW w, Book(w), NEW u, Settled(w, u), HaltBut(w, Engines, X)
    PROVE  HaltBut(u, Engines, X)
<1>1. ASSUME NEW e \in Engines, u.q.data[e].active, u.q.data[e].state # "list"
      PROVE  /\ w.q.data[e].active /\ w.q.data[e].state = u.q.data[e].state
             /\ u.net[e] = w.net[e]
  <2>1. CASE e \in Own
    <3>1. CASE Unmoved(w, u, e)
      BY <1>1, <3>1 DEF Unmoved, Alike
    <3>2. CASE Refreshing(w, u, e)
      <4>1. w.q.data[e] \in DataRec
        BY DataType DEF Book
      <4>2. Listing(w.q.data[e]).state = "list"
        BY <4>1, ListingType
      <4> QED
        BY <1>1, <3>2, <4>2 DEF Refreshing, Alike
    <3> QED
      BY <2>1, <3>1, <3>2 DEF Settled
  <2>2. CASE e = TabEngine
    BY <1>1, <2>2 DEF Settled, NewData
  <2> QED
    BY <2>1, <2>2, OwnIn
<1>2. \A e \in Engines : Open(u, e) => Open(w, e)
  BY <1>1 DEF Open
<1>3. Waits(u) => Waits(w)
  BY <1>1, OwnIn DEF Waits
<1>4. CASE u.q.mode = w.q.mode
  BY <1>2, <1>3, <1>4, HaltFrame
<1>5. CASE w.q.count = 0
  <2>1. \A e \in Engines : ~w.q.data[e].active
    BY <1>5, NoneCounted
  <2> QED
    BY <1>2, <1>3, <2>1, OwnIn DEF HaltBut, Open, Waits
<1> QED
  BY <1>4, <1>5 DEF Settled

(* Every engine in E that is active and done with its command has          *)
(* answered it.                                                            *)
Answers(w, E) ==
    \A e \in E :
        w.q.data[e].active /\ w.q.data[e].state # "waitprimary" /\ w.net[e].cmd = "none" =>
            w.net[e].inbox # <<>>

LEMMA CalmAnswers ==
    ASSUME NEW w, Book(w), Calm(w, NoEngine)
    PROVE  Answers(w, Engines)
<1> SUFFICES ASSUME NEW e \in Engines, w.q.data[e].active, w.q.data[e].state # "waitprimary",
                    w.net[e].cmd = "none"
             PROVE  w.net[e].inbox # <<>>
  BY DEF Answers
<1>1. GoodData(e, w.q.data[e]) /\ e # NoEngine
  BY OwnIn DEF Book, DataOK
<1>2. w.q.data[e].state # "none"
  BY <1>1 DEF GoodData
<1>3. Due(w.net[e], w.q.data[e].state, w.q.data[e].item)
  <2>1. CASE e \in Own
    <3>1. EngineCalm(w.q.data[e], w.net[e], HasData(w, e), e = NoEngine)
      BY <2>1, CalmParts
    <3> QED
      BY <1>1, <3>1 DEF EngineCalm
  <2>2. CASE e = TabEngine
    <3>1. TabCalm(w.q.data[e], w.net[e], w.tab, HasData(w, e), e = NoEngine)
      BY <2>2, CalmParts
    <3> QED
      BY <1>1, <3>1 DEF TabCalm, Borrowed
  <2> QED
    BY <2>1, <2>2, OwnIn
<1> QED
  BY <1>2, <1>3 DEF Due

(* Deactivate misses the engine behind the waiting one of a tab at most.   *)
LEMMA HaltedHalt ==
    ASSUME NEW X, NEW w, Book(w), NEW E \in SUBSET Engines, Answers(w, E),
           NEW u, Halted(w, u), Told(u, TabEngine), Skipped(w) \subseteq X,
           \A id \in Engines \ Skipped(w) : Told(u, id)
    PROVE  HaltBut(u, E, X) /\ ~Waits(u)
<1>1. ~Waits(u)
  BY DEF Told, Waits
<1>2. w \in Worlds
  BY DEF Book
<1>3. ASSUME NEW e \in E, e \notin X
      PROVE  ~Open(u, e)
  <2>1. Told(u, e)
    BY <1>3
  <2>2. CASE u.q.data[e].active /\ u.q.data[e].state # "waitprimary" /\ ~u.net[e].cancel
    <3>1. u.net[e].cmd = "none"
      BY <2>1, <2>2 DEF Told
    <3>2. w.net[e] \in NetRec /\ Cancelled(w.net[e], u.net[e])
      BY <1>2, NetType DEF Halted
    <3>3. w.net[e].cmd = "none" /\ u.net[e].inbox = w.net[e].inbox
      BY <3>1, <3>2 DEF Cancelled, NetRec
    <3>4. w.q.data[e].active /\ w.q.data[e].state # "waitprimary"
      <4>1. CASE e \in Own
        BY <2>2, <4>1 DEF Halted, Alike
      <4>2. CASE e = TabEngine
        BY <2>2, <4>2 DEF Halted, SameTab, GivesBack, NewData
      <4> QED
        BY <4>1, <4>2, OwnIn
    <3>5. u.net[e].inbox # <<>>
      BY <3>3, <3>4 DEF Answers
    <3> QED
      BY <3>5 DEF Open, Shut
  <2>3. CASE ~u.q.data[e].active \/ u.net[e].cancel
    BY <2>3 DEF Open, Shut
  <2> QED
    BY <2>1, <2>2, <2>3 DEF Told
<1> QED
  BY <1>1, <1>3 DEF HaltBut

(* What is decided about engine id leaves only those in X open: id itself  *)
(* does not count where it is reset.                                       *)
HaltDecided(v, id, X) ==
    /\ v.next = "send" => v.w.q.mode # 0
    /\ v.next = "alone" => HaltBut(v.w, Engines, X)
    /\ v.next \in Reasons => HaltBut(v.w, Engines \ {id}, X)

LEMMA ResetHalt ==
    ASSUME NEW X, NEW w, Book(w), NEW id \in Engines, NEW reason \in Reasons,
           HaltBut(w, Engines \ {id}, X)
    PROVE  LET u == Reset(w, id, reason)
           IN  HaltBut(u, Engines, X) /\ SameMode(w, u)
<1> DEFINE u == Reset(w, id, reason)
<1>1. w \in Worlds /\ w.q.data \in [Engines -> DataRec] /\ w.q.data[id] \in DataRec
  BY WorldParts, DataType DEF Book
<1>2. FreedData(w, u, id)
  BY <1>1, ResetViews
<1> HIDE DEF u
<1>3. /\ u.net = w.net /\ SameMode(w, u) /\ u.q.mode = w.q.mode /\ ~u.q.data[id].active
      /\ \A e \in Engines \ {id} : u.q.data[e] = w.q.data[e]
  BY <1>1, <1>2, FreedType DEF FreedData, SameMode
<1>4. \A e \in Engines : Open(u, e) => e # id /\ Open(w, e)
  BY <1>3 DEF Open
<1>5. Waits(u) => TabEngine # id /\ Waits(w)
  BY <1>3, OwnIn DEF Waits
<1>6. HaltBut(u, Engines, X)
  BY <1>3, <1>4, <1>5, OwnIn DEF HaltBut
<1> QED
  BY <1>3, <1>6 DEF u

LEMMA AdvancedHalt ==
    ASSUME NEW X, NEW w, Book(w)
    PROVE  LET a == AdvanceQueue(w)
           IN  /\ Book(a) /\ a.q.mode = w.q.mode /\ a.q.sending = w.q.sending
               /\ \A E : HaltBut(w, E, X) => HaltBut(a, E, X)
<1> DEFINE a == AdvanceQueue(w)
<1>1. /\ Book(a) /\ a.item = w.item /\ a.tab = w.tab /\ a.net = w.net
      /\ a.q.mode = w.q.mode /\ a.q.sending = w.q.sending /\ a.q.refused = w.q.refused
      /\ a.q.inside /\ SameEngines(w, a) /\ SameCounts(w, a) /\ SameLists(w, a)
  BY AdvancedViews
<1> HIDE DEF a
<1>2. \A E : HaltBut(w, E, X) => HaltBut(a, E, X)
  BY <1>1, HaltSame DEF SameEngines
<1> QED
  BY <1>1, <1>2 DEF a

LEMMA DoneHalt ==
    ASSUME NEW X, NEW v, NEW id \in Engines, BookDecided(v, id), HaltDecided(v, id, X)
    PROVE  Halt(Done(v, id), X)
<1> DEFINE w == v.w
<1>1. Book(w) /\ w \in Worlds /\ v.next \in Nexts
  BY DEF BookDecided, Book
<1>2. PICK y \in Engines \cup {NoEngine} : y = IF v.next = "send" THEN id ELSE NoEngine
  OBVIOUS
<1> DEFINE u == [w EXCEPT !.q.sending = y]
<1>3. LET s == [w EXCEPT !.q.sending = y]
      IN  /\ s \in Worlds
          /\ s.q = [w.q EXCEPT !.sending = y]
          /\ s.item = w.item /\ s.tab = w.tab /\ s.net = w.net
          /\ s.q.mode = w.q.mode /\ s.q.inside = w.q.inside /\ s.q.refused = w.q.refused
          /\ s.q.refreshed = w.q.refreshed /\ s.q.servers = w.q.servers
          /\ s.q.sending = y /\ SameEngines(w, s) /\ SameCounts(w, s) /\ SameLists(w, s)
  BY <1>1, SendingSet
<1>4. Book(u)
  BY <1>1, BookSets
<1>5. u.q.data = w.q.data /\ u.q.mode = w.q.mode /\ u.net = w.net /\ u.q.sending = y
  BY <1>3 DEF SameEngines
<1>6. Done(v, id) = IF v.next \in {"alone", "send"} THEN u ELSE ResetEngine(u, id, v.next)
  BY <1>2 DEF Done
<1> HIDE DEF u, w
<1>7. CASE v.next = "send"
  BY <1>5, <1>6, <1>7 DEF HaltDecided, Halt, HaltBut, w
<1>8. CASE v.next = "alone"
  <2>1. HaltBut(u, Engines, X)
    BY <1>5, <1>8, HaltSame DEF HaltDecided, w
  <2> QED
    BY <1>2, <1>5, <1>6, <1>8, <2>1 DEF Halt
<1>9. CASE v.next \in Reasons
  <2>1. v.next \notin {"alone", "send"}
    BY <1>9 DEF Reasons
  <2>2. HaltBut(u, Engines \ {id}, X) /\ u.q.sending = NoEngine
    BY <1>2, <1>5, <1>9, <2>1, HaltSame DEF HaltDecided, w
  <2>3. CASE ~u.q.data[id].active
    <3>1. Done(v, id) = u
      BY <1>6, <2>1, <2>3 DEF ResetEngine, Data
    <3>2. ~Open(u, id) /\ (id = TabEngine => ~Waits(u))
      BY <2>3 DEF Open, Waits
    <3>3. HaltBut(u, Engines, X)
      BY <2>2, <3>2 DEF HaltBut
    <3> QED
      BY <2>2, <3>1, <3>3 DEF Halt
  <2>4. CASE u.q.data[id].active
    <3> DEFINE z == Reset(u, id, v.next)
    <3>1. Book(z) /\ HaltBut(z, Engines, X) /\ SameMode(u, z)
      BY <1>4, <1>9, <2>2, <2>4, ResetHalt, BookReset
    <3>2. Done(v, id) = AdvanceQueue(z)
      BY <1>6, <2>1, <2>4 DEF ResetEngine, Data
    <3> HIDE DEF z
    <3>3. HaltBut(AdvanceQueue(z), Engines, X) /\ AdvanceQueue(z).q.sending = NoEngine
      BY <2>2, <3>1, AdvancedHalt DEF SameMode
    <3> QED
      BY <3>2, <3>3 DEF Halt
  <2> QED
    BY <2>3, <2>4
<1> QED
  BY <1>1, <1>7, <1>8, <1>9 DEF Nexts

LEMMA StateHalt ==
    ASSUME NEW X, NEW w, Book(w), NEW id \in Engines, NEW s \in States, HaltBut(w, Engines \ {id}, X)
    PROVE  LET u == SetState(w, id, s)
           IN  HaltBut(u, Engines \ {id}, X) /\ u.q.mode = w.q.mode
<1> DEFINE u == SetState(w, id, s)
<1>1. w \in Worlds /\ w.q.data \in [Engines -> DataRec]
  BY WorldParts DEF Book
<1>2. /\ u \in Worlds /\ u.item = w.item /\ u.tab = w.tab /\ u.net = w.net
      /\ u.q.data = [w.q.data EXCEPT ![id] = WithState(w.q.data[id], s)]
      /\ u.q.engines = w.q.engines
      /\ SameMode(w, u) /\ SameLists(w, u) /\ SameCounts(w, u)
  BY <1>1, StateViews
<1> HIDE DEF u
<1>3. u.q.mode = w.q.mode /\ \A e \in Engines \ {id} : u.q.data[e] = w.q.data[e]
  BY <1>1, <1>2 DEF SameMode
<1>4. \A e \in Engines \ {id} : Open(u, e) => Open(w, e)
  BY <1>2, <1>3 DEF Open
<1>5. TabEngine \in Engines \ {id} /\ Waits(u) => Waits(w)
  BY <1>3 DEF Waits
<1>6. HaltBut(u, Engines \ {id}, X)
  BY <1>3, <1>4, <1>5, HaltFrame
<1> QED
  BY <1>3, <1>6 DEF u

LEMMA AnsweredHalt ==
    ASSUME NEW X, NEW w, Book(w), NEW id \in Engines, NEW r, NEW v, Answered(w, id, r, v),
           HaltBut(w, Engines \ {id}, X), w.q.mode = 0 => ~Waits(w),
           Answers(w, Engines \ {id}), Skipped(w) \subseteq X
    PROVE  HaltDecided(v, id, X)
<1> DEFINE d == w.q.data[id]
           E == Engines \ {id}
<1>1. /\ GoodData(id, d)
      /\ d.state \in {"connect", "disconnect", "transfer", "mkdir"} => d.item \in Items
  <2>1. GoodData(id, d)
    BY DEF Book, DataOK
  <2>2. d.state \in {"connect", "disconnect", "transfer", "mkdir"} => d.active
    BY <2>1 DEF GoodData
  <2> QED
    BY <2>1, <2>2, ActiveHas
<1>2. CASE v.w = Deactivate(w) /\ v.next \in {"reset", "remove"}
  <2> DEFINE u == Deactivate(w)
  <2>1. /\ Halted(w, u) /\ Told(u, TabEngine)
        /\ \A e \in Engines \ Skipped(w) : Told(u, e)
    BY DeactivateViews
  <2> HIDE DEF u
  <2>2. HaltBut(u, E, X)
    BY <2>1, HaltedHalt
  <2> QED
    BY <1>2, <2>2 DEF HaltDecided, u
<1>3. CASE v.w = w /\ v.next = "alone" /\ d.state \in {"none", "waitprimary"}
  <2>1. w.q.mode = 0 => ~d.active
    <3>1. CASE d.state = "none"
      BY <1>1, <3>1 DEF GoodData
    <3>2. CASE d.state = "waitprimary"
      BY <1>1, <3>2 DEF GoodData, Waits
    <3> QED
      BY <1>3, <3>1, <3>2
  <2>2. HaltBut(w, Engines, X)
    BY <2>1 DEF HaltBut, Open
  <2>3. "alone" \notin Reasons
    BY DEF Reasons
  <2> QED
    BY <1>3, <2>2, <2>3 DEF HaltDecided
<1>4. CASE /\ v.w = w \/ (d.item \in Items /\ v.w = Faulted(w, d.item))
              \/ \E s \in States : v.w = SetState(w, id, s)
           /\ v.next # "alone" /\ (v.next = "send" => w.q.mode # 0)
  <2>1. HaltBut(v.w, E, X) /\ v.w.q.mode = w.q.mode
    <3>1. CASE v.w = w
      BY <3>1
    <3>2. CASE d.item \in Items /\ v.w = Faulted(w, d.item)
      <4> DEFINE u == Faulted(w, d.item)
      <4>1. /\ Book(u) /\ u.q = w.q /\ u.tab = w.tab /\ u.net = w.net
            /\ \A j \in Items : /\ u.item[j].active = w.item[j].active
                                /\ u.item[j].where = w.item[j].where
                                /\ u.item[j].sent = w.item[j].sent
        BY <3>2, BookFaulted
      <4> HIDE DEF u
      <4>2. HaltBut(u, E, X) /\ u.q.mode = w.q.mode
        BY <4>1, HaltSame
      <4> QED
        BY <3>2, <4>2 DEF u
    <3>3. CASE \E s \in States : v.w = SetState(w, id, s)
      BY <3>3, StateHalt
    <3> QED
      BY <1>4, <3>1, <3>2, <3>3
  <2> QED
    BY <1>4, <2>1 DEF HaltDecided
<1>5. "connect" \in States /\ Work(d.item) \in States
  BY WorkType DEF States
<1>6. CASE r.code = "canceled" /\ v.next \in {"reset", "remove"}
           /\ v.w = IF d.state = "connect" THEN Deactivate(w) ELSE w
  <2>1. CASE d.state = "connect"
    BY <1>2, <1>6, <2>1
  <2>2. CASE d.state # "connect"
    BY <1>4, <1>6, <2>2
  <2> QED
    BY <2>1, <2>2
<1>7. CASE d.state \notin {"none", "waitprimary"} /\ ~(r.code = "canceled" /\ v.next \in {"reset", "remove"}
           /\ v.w = IF d.state = "connect" THEN Deactivate(w) ELSE w)
  <2>1. v.next # "alone" /\ (v.next = "send" => w.q.mode # 0)
    BY <1>7 DEF Answered, Onward
  <2>2. v.w = w \/ (d.item \in Items /\ v.w = Faulted(w, d.item))
              \/ \E s \in States : v.w = SetState(w, id, s)
    BY <1>1, <1>5, <1>7 DEF Answered
  <2> QED
    BY <1>4, <2>1, <2>2
<1>8. CASE d.state \in {"none", "waitprimary"} /\ ~(r.code = "canceled" /\ v.next \in {"reset", "remove"}
           /\ v.w = IF d.state = "connect" THEN Deactivate(w) ELSE w)
  BY <1>3, <1>8 DEF Answered
<1> QED
  BY <1>6, <1>7, <1>8

(* While a command is sent the queue runs.                                 *)
LEMMA SentHalt ==
    ASSUME NEW X, NEW w, Book(w), w.q.mode # 0, NEW id \in Engines, w.q.data[id].item # NoItem,
           NEW v, SentNext(w, id, v)
    PROVE  HaltDecided(v, id, X)
<1> DEFINE d == w.q.data[id]
<1>1. w \in Worlds /\ d \in DataRec /\ (d.state # "list" => d.item \in Items) /\ d.active
      /\ GoodData(id, d)
  BY ActiveHas, DataType DEF Book, DataOK
<1>2. d.item \in Items /\ d.state \in Commands \cup {"waitprimary"}
  BY <1>1 DEF GoodData, DataRec, States, Commands
<1>3. v.w.q.mode = w.q.mode
  <2>1. CASE v.w = RequestExclusiveEngine(w)
    BY <1>1, <2>1, RequestSet
  <2>2. CASE d.state # "waitprimary" /\ v.w = Execute(w, id, d.state, d.item)
    <3>1. PICK cmd \in Commands, to \in Aims : cmd = d.state /\ to = d.item
      BY <1>2, <2>2 DEF Aims, Files
    <3> DEFINE u == Execute(w, id, cmd, to)
    <3>2. v.w = u
      BY <2>2, <3>1
    <3>3. /\ u \in Worlds /\ u.item = w.item /\ u.tab = w.tab /\ u.q = w.q
          /\ u.net = [w.net EXCEPT ![id] = Executing(w.net[id], cmd, to)]
      <4> HIDE DEF d
      <4> QED
        BY <1>1, ExecutedViews
    <3> HIDE DEF u
    <3> QED
      BY <3>2, <3>3
  <2>3. CASE \E s \in States : v.w = SetState(w, id, s)
    <3>1. PICK s \in States : v.w = SetState(w, id, s)
      BY <2>3
    <3>2. SameMode(w, SetState(w, id, s))
      BY <1>1, StateViews
    <3> QED
      BY <3>1, <3>2 DEF SameMode
  <2>4. CASE \E y : /\ y = w \/ y = [w EXCEPT !.q.refused = TRUE]
                    /\ v.w = Faulted(y, d.item) \/ v.w = y
    <3>1. PICK y : /\ y = w \/ y = [w EXCEPT !.q.refused = TRUE]
                   /\ v.w = Faulted(y, d.item) \/ v.w = y
      BY <2>4
    <3>2. Book(y) /\ y.q.mode = w.q.mode
      <4>1. PICK yes \in BOOLEAN : yes = TRUE
        OBVIOUS
      <4> DEFINE u == [w EXCEPT !.q.refused = yes]
      <4>2. u.q.mode = w.q.mode
        BY <1>1, RefusedSet
      <4>3. y = w \/ y = u
        BY <3>1, <4>1
      <4> HIDE DEF u
      <4>4. y.q.mode = w.q.mode
        BY <4>2, <4>3
      <4> QED
        BY <3>1, <4>4, BookRefused
    <3> QED
      BY <1>2, <3>1, <3>2, BookFaulted
  <2>5. "connect" \in States /\ "disconnect" \in States
    BY DEF States
  <2> QED
    BY <2>1, <2>2, <2>3, <2>4, <2>5 DEF SentNext
<1> QED
  BY <1>3 DEF HaltDecided, HaltBut

LEMMA GrantedHalt ==
    ASSUME NEW X, NEW w, Book(w), HaltBut(w, Engines, X)
    PROVE  HaltDecided(Granted(w), TabEngine, X)
<1> DEFINE v == Granted(w)
           d == w.q.data[TabEngine]
           u == ReleaseEngine(w)
<1>1. w \in Worlds /\ TabEngine \in Engines
  BY OwnIn DEF Book
<1>2. d = Data(w, TabEngine)
  BY DEF Data
<1>3. Work(d.item) \in States
  BY WorkType DEF States
<1>4. u.net = w.net /\ u.q = w.q
  BY <1>1, ReleaseSet
<1>5. HaltBut(u, Engines, X)
  <2> HIDE DEF u
  <2> QED
    BY <1>4, HaltSame
<1>6. \/ v.next = "alone" /\ v.w \in {u, w}
      \/ v.next = "retry" /\ v.w = u
      \/ v.next = "send" /\ v.w = SetState(w, TabEngine, Work(d.item)) /\ Waits(w)
  BY <1>2 DEF Granted, Decide, Waits
<1> HIDE DEF v, u
<1>7. CASE v.next = "alone" /\ v.w \in {u, w}
  <2>1. v.next \notin Reasons
    BY <1>7 DEF Reasons
  <2> QED
    BY <1>5, <1>7, <2>1 DEF HaltDecided, v
<1>8. CASE v.next = "retry" /\ v.w = u
  <2>1. HaltBut(u, Engines \ {TabEngine}, X)
    BY <1>5, HaltLess
  <2> QED
    BY <1>8, <2>1 DEF HaltDecided, v
<1>9. CASE v.next = "send" /\ v.w = SetState(w, TabEngine, Work(d.item)) /\ Waits(w)
  <2>1. SameMode(w, SetState(w, TabEngine, Work(d.item)))
    BY <1>1, <1>3, StateViews
  <2>2. v.w.q.mode # 0
    BY <1>1, <1>9, <2>1 DEF SameMode, HaltBut
  <2>3. v.next \notin Reasons
    BY <1>9 DEF Reasons
  <2> QED
    BY <1>9, <2>2, <2>3 DEF HaltDecided, v
<1> QED
  BY <1>6, <1>7, <1>8, <1>9

HaltIn(X) == Undisturbed => \E w \in {World} : Halt(w, X)

LEMMA HaltWorld ==
    ASSUME NEW X, HaltIn(X), Undisturbed
    PROVE  Halt(World, X)
BY DEF HaltIn

LEMMA HaltBecomes ==
    ASSUME NEW X, NEW w, Book(w), Becomes(w), UNCHANGED env, Undisturbed => Halt(w, X)
    PROVE  HaltIn(X)'
<1>1. World' = w
  BY Becoming DEF Book
<1> QED
  BY <1>1 DEF HaltIn, Undisturbed

LEMMA SendNextCommandHalt ==
    ASSUME NEW X, BookInv, HaltIn(X), SendNextCommand
    PROVE  HaltIn(X)'
<1> DEFINE w == World
           id == w.q.sending
           v == SendRound(w, id)
<1>1. Book(w) /\ SendingOK(w) /\ w \in Worlds /\ w.q = q
  BY InvWorld
<1>2. id # NoEngine /\ Becomes(Done(v, id)) /\ UNCHANGED env
  BY <1>1 DEF SendNextCommand
<1>3. id \in Engines /\ w.q.data[id].item # NoItem
  BY <1>1, <1>2, QueueType DEF SendingOK
<1>4. Undisturbed => w.q.mode # 0
  BY <1>2, HaltWorld DEF Halt
<1> HIDE DEF w, id
<1>5. SentNext(w, id, v)
  BY <1>1, <1>3, RoundSent
<1> HIDE DEF v
<1>6. BookDecided(v, id) /\ (Undisturbed => HaltDecided(v, id, X))
  BY <1>1, <1>3, <1>4, <1>5, BookSent, SentHalt
<1>7. Book(Done(v, id)) /\ (Undisturbed => Halt(Done(v, id), X))
  BY <1>3, <1>6, BookDone, DoneHalt
<1> QED
  BY <1>2, <1>7, HaltBecomes

LEMMA StartNextTransferHalt ==
    ASSUME NEW X, BookInv, HaltIn(X), StartNextTransfer
    PROVE  HaltIn(X)'
<1> DEFINE w == World
           t == TryStartNextTransfer(w)
<1>1. Book(w) /\ w.q = q
  BY InvWorld
<1>2. w.q.sending = NoEngine /\ w.q.inside /\ UNCHANGED env
      /\ Becomes(IF t.ok THEN t.w ELSE AdvanceQueueEnds(t.w))
  BY <1>1 DEF StartNextTransfer
<1>3. Undisturbed => HaltBut(w, Engines, X)
  BY HaltWorld DEF Halt
<1> HIDE DEF w
<1>4. /\ t.ok \in BOOLEAN
      /\ ~t.ok => Grown(w, t.w)
      /\ t.ok => /\ w.q.mode # 0
                 /\ \E v, i, id : Grown(w, v) /\ Starts(v, i, id) /\ t.w = Assign(v, i, id)
  BY <1>1, TryStart
<1> HIDE DEF t
<1>5. CASE t.ok
  <2>1. PICK v, i, id : Grown(w, v) /\ Starts(v, i, id) /\ t.w = Assign(v, i, id)
    BY <1>4, <1>5
  <2> DEFINE u == Assign(v, i, id)
  <2>2. v \in Worlds /\ i \in Items /\ id \in Engines /\ v.q.mode = w.q.mode
    BY <2>1 DEF Starts, Book, Grown, SameMode
  <2>3. /\ u \in Worlds /\ Given(v, i, id) \in DataRec
        /\ u.q.data = [v.q.data EXCEPT ![id] = Given(v, i, id)]
        /\ u.q.data[id] = Given(v, i, id)
        /\ \A e \in Engines \ {id} : u.q.data[e] = v.q.data[e]
        /\ u.q.busy = [v.q.busy EXCEPT ![SiteOf[i]] = v.q.busy[SiteOf[i]] + 1]
        /\ u.q.count = v.q.count + 1
        /\ u.q.down = v.q.down + (IF Download(i) THEN 1 ELSE 0)
        /\ u.q.up = v.q.up + (IF Download(i) THEN 0 ELSE 1)
        /\ u.item = [v.item EXCEPT ![i] = [v.item[i] EXCEPT !.active = TRUE]]
        /\ u.q.sending = id /\ u.q.engines = v.q.engines /\ SameLists(v, u)
        /\ u.q.mode = v.q.mode /\ u.q.inside = v.q.inside /\ u.q.refused = v.q.refused
        /\ u.tab = v.tab /\ u.net = v.net
    BY <2>2, AssignViews
  <2>4. Book(u)
    BY <2>1, AssignSends
  <2> HIDE DEF u
  <2>5. Halt(u, X)
    BY <1>4, <1>5, <2>2, <2>3 DEF Halt, HaltBut
  <2>6. Becomes(u)
    BY <1>2, <1>5, <2>1 DEF u
  <2> QED
    BY <1>2, <2>4, <2>5, <2>6, HaltBecomes
<1>6. CASE ~t.ok
  <2> DEFINE x == t.w
             u == AdvanceQueueEnds(x)
  <2>1. Grown(w, x)
    BY <1>4, <1>6
  <2>2. Becomes(u)
    BY <1>2, <1>6
  <2> HIDE DEF x
  <2>3. Book(x) /\ (Undisturbed => HaltBut(x, Engines, X)) /\ x.q.sending = NoEngine
    BY <1>1, <1>2, <1>3, <2>1, GrownHalt DEF Grown, SameMode
  <2>4. Settled(x, u)
    BY <2>3, EndsViews
  <2> HIDE DEF u
  <2>5. Book(u) /\ (Undisturbed => Halt(u, X))
    BY <2>3, <2>4, SettledHalt DEF Settled, Halt
  <2> QED
    BY <1>2, <2>2, <2>5, HaltBecomes
<1> QED
  BY <1>4, <1>5, <1>6

LEMMA OnEngineEventHalt ==
    ASSUME NEW X, BookInv, CalmInv, HaltIn(X), Skipped(World) \subseteq X,
           NEW id \in Engines, OnEngineEvent(id)
    PROVE  HaltIn(X)'
<1> DEFINE w == World
           u == Received(w, id)
           r == Head(net[id].inbox)
           v == ProcessReply(u, id, r)
           lent == id = TabEngine /\ ~(HasData(w, id) /\ Data(w, id).active)
           E == Engines \ {id}
<1>1. Book(w) /\ w \in Worlds /\ w.net = net /\ Skipped(w) \subseteq X
  BY InvWorld
<1>2. /\ w.net[id].inbox # <<>> /\ UNCHANGED env /\ Quiet
      /\ Becomes(IF lent THEN u ELSE Done(v, id))
  BY <1>1 DEF OnEngineEvent, HasReply
<1>3. Undisturbed => /\ Calm(w, NoEngine) /\ HaltBut(w, Engines, X)
                     /\ w.q.mode = 0 => ~Waits(w)
  BY <1>2, QuietCalm, HaltWorld, OwnIn DEF Halt, HaltBut
<1>4. w.q.sending = NoEngine
  BY <1>2, InvWorld DEF Quiet
<1> HIDE DEF w, r
<1>5. /\ Book(u) /\ u.q = w.q /\ u.item = w.item /\ u.tab = w.tab
      /\ u.net = [w.net EXCEPT ![id] = Emptier(w.net[id])]
  BY <1>1, <1>2, BookReceived
<1> HIDE DEF u
<1>6. \A e \in E : u.net[e] = w.net[e]
  BY <1>1, <1>5, WorldParts
<1>7. Undisturbed => /\ HaltBut(u, E, X) /\ Answers(u, E)
                     /\ u.q.mode = 0 => ~Waits(u)
  <2> SUFFICES ASSUME Undisturbed
               PROVE  /\ HaltBut(u, E, X) /\ Answers(u, E)
                      /\ u.q.mode = 0 => ~Waits(u)
    OBVIOUS
  <2>1. \A e \in E : Open(u, e) => Open(w, e)
    BY <1>5, <1>6 DEF Open
  <2>2. Waits(u) => Waits(w)
    BY <1>5 DEF Waits
  <2>3. HaltBut(w, E, X)
    BY <1>3, HaltLess
  <2>4. HaltBut(u, E, X)
    BY <1>5, <2>1, <2>2, <2>3, HaltFrame
  <2>5. Answers(w, Engines)
    BY <1>1, <1>3, CalmAnswers
  <2>6. Answers(u, E)
    BY <1>5, <1>6, <2>5 DEF Answers
  <2> QED
    BY <1>3, <1>5, <2>2, <2>4, <2>6
<1>8. CASE lent
  <2>1. ~w.q.data[id].active
    BY <1>1, <1>8, ActiveHas DEF Data
  <2>2. ~Open(u, id) /\ (id = TabEngine => ~Waits(u))
    BY <1>5, <2>1 DEF Open, Waits
  <2>3. Undisturbed => Halt(u, X)
    BY <1>4, <1>5, <1>7, <2>2 DEF Halt, HaltBut
  <2> QED
    BY <1>2, <1>5, <1>8, <2>3, HaltBecomes
<1>9. CASE ~lent
  <2>1. Answered(u, id, r, v)
    BY <1>5, ReplyAnswered
  <2> HIDE DEF v
  <2>2. BookDecided(v, id)
    BY <1>5, <2>1, BookAnswered
  <2>3. Skipped(u) \subseteq X
    BY <1>1, <1>5 DEF Skipped, Waits
  <2>4. Undisturbed => HaltDecided(v, id, X)
    BY <1>5, <1>7, <2>1, <2>3, AnsweredHalt
  <2>5. Book(Done(v, id)) /\ (Undisturbed => Halt(Done(v, id), X))
    BY <2>2, <2>4, BookDone, DoneHalt
  <2> QED
    BY <1>2, <1>9, <2>5, HaltBecomes
<1> QED
  BY <1>8, <1>9

(* The tab's engine is not lent: that of a stopped queue is not active.    *)
LEMMA FreeTab ==
    ASSUME NEW X, NEW w, Book(w), NEW h, Calm(w, h), HaltBut(w, Engines, X), ~w.tab.lock, w.q.mode = 0
    PROVE  ~w.q.data[TabEngine].active
<1>1. TabCalm(w.q.data[TabEngine], w.net[TabEngine], w.tab, HasData(w, TabEngine), TabEngine = h)
  BY CalmParts
<1>2. ~Borrowed(w.q.data[TabEngine])
  BY <1>1 DEF TabCalm
<1>3. ~Waits(w)
  BY OwnIn DEF HaltBut
<1> QED
  BY <1>2, <1>3 DEF Borrowed, Waits

(* Only the tab's engine has changed, and it is not active.                *)
LEMMA FreeHalt ==
    ASSUME NEW X, NEW w, Book(w), NEW h, Calm(w, h), Halt(w, X), ~w.tab.lock,
           NEW u, u.q.data = w.q.data, u.q.mode = w.q.mode, u.q.sending = w.q.sending,
           \A e \in Own : u.net[e] = w.net[e]
    PROVE  Halt(u, X)
<1>1. CASE w.q.mode # 0
  BY <1>1 DEF Halt, HaltBut
<1>2. CASE w.q.mode = 0
  <2>1. ~w.q.data[TabEngine].active
    BY <1>2, FreeTab DEF Halt
  <2>2. \A e \in Engines : Open(u, e) => Open(w, e)
    BY <2>1, OwnIn DEF Open
  <2>3. Waits(u) => Waits(w)
    BY DEF Waits
  <2>4. HaltBut(w, Engines, X)
    BY DEF Halt
  <2>5. HaltBut(u, Engines, X)
    BY <2>2, <2>3, <2>4, HaltFrame
  <2> QED
    BY <2>5 DEF Halt
<1> QED
  BY <1>1, <1>2

LEMMA FinishHalt ==
    ASSUME NEW X, BookInv, CalmInv, HaltIn(X), Finish
    PROVE  HaltIn(X)'
<1> DEFINE w == World
           u == TabEnds(w)
           z == IF tab.wants THEN GrantExclusiveEngineRequest(u) ELSE u
<1>1. Book(w) /\ w \in Worlds /\ w.net = net /\ w.tab = tab
  BY InvWorld
<1>2. /\ w.net[TabEngine].inbox # <<>> /\ ~w.tab.lock /\ Quiet /\ Becomes(z)
      /\ UNCHANGED env
  BY <1>1 DEF Finish, HasReply
<1>3. Undisturbed => Calm(w, NoEngine) /\ Halt(w, X)
  BY <1>2, QuietCalm, HaltWorld
<1> HIDE DEF w
<1>4. /\ Book(u) /\ u.item = w.item /\ u.q.data = w.q.data /\ u.q.engines = w.q.engines
      /\ u.q.sending = w.q.sending /\ u.q.inside = w.q.inside /\ u.q.mode = w.q.mode
      /\ u.q.refused = w.q.refused
      /\ u.tab = TabAfter(w.tab, Head(w.net[TabEngine].inbox))
      /\ u.net = [w.net EXCEPT ![TabEngine] = Emptier(w.net[TabEngine])]
      /\ u.q.busy = w.q.busy
  BY <1>1, <1>2, BookTabEnds
<1> HIDE DEF u
<1>5. Book(z) /\ z.q = u.q /\ z.net = u.net /\ z.item = u.item
  BY <1>4, BookRelease, GrantSet DEF Book
<1> HIDE DEF z
<1>6. \A e \in Own : z.net[e] = w.net[e]
  BY <1>1, <1>4, <1>5, WorldParts, OwnIn
<1>7. z.q.data = w.q.data /\ z.q.mode = w.q.mode /\ z.q.sending = w.q.sending
  BY <1>4, <1>5
<1>8. Undisturbed => Halt(z, X)
  BY <1>1, <1>2, <1>3, <1>6, <1>7, FreeHalt
<1> QED
  BY <1>2, <1>5, <1>8, HaltBecomes

LEMMA OnExclusiveEngineRequestGrantedHalt ==
    ASSUME NEW X, BookInv, HaltIn(X), OnExclusiveEngineRequestGranted
    PROVE  HaltIn(X)'
<1> DEFINE t == Popped(tab)
           w == [World EXCEPT !.tab = t]
           v == Granted(w)
           to == tab.lock /\ Head(tab.grants) = tab.id
<1>1. Book(World) /\ World \in Worlds /\ World.tab = tab
  BY InvWorld
<1>2. [World EXCEPT !.tab.grants = Tail(tab.grants)] = w
  BY <1>1 DEF Popped, Worlds
<1>3. Handler /\ tab.grants # <<>> /\ UNCHANGED env
      /\ Becomes(IF to THEN Done(v, TabEngine) ELSE w)
  <2> HIDE DEF w
  <2> QED
    BY <1>2 DEF OnExclusiveEngineRequestGranted
<1>4. tab \in TabRec
  BY <1>1, WorldParts
<1>5. /\ t \in TabRec /\ t.site = tab.site /\ t.cmd = tab.cmd
      /\ t.lock = tab.lock /\ t.wants = tab.wants
      /\ t.listing = tab.listing /\ t.id = tab.id
  BY <1>3, <1>4, PoppedType
<1> HIDE DEF t, to
<1>6. Book(w) /\ w.q = World.q /\ w.item = World.item /\ w.net = World.net /\ w.tab = t
  BY <1>1, <1>5, BookTab
<1> HIDE DEF w
<1>7. Undisturbed => Halt(w, X)
  <2>1. Undisturbed => Halt(World, X)
    BY HaltWorld
  <2> QED
    BY <1>6, <2>1, HaltSame DEF Halt
<1>8. CASE to
  <2>1. BookDecided(v, TabEngine) /\ (Undisturbed => HaltDecided(v, TabEngine, X))
    BY <1>6, <1>7, BookGranted, GrantedHalt DEF Halt
  <2> HIDE DEF v
  <2>2. Book(Done(v, TabEngine)) /\ (Undisturbed => Halt(Done(v, TabEngine), X))
    BY <2>1, BookDone, DoneHalt, OwnIn
  <2> QED
    BY <1>3, <1>8, <2>2, HaltBecomes
<1>9. CASE ~to
  BY <1>3, <1>6, <1>7, <1>9, HaltBecomes
<1> QED
  BY <1>8, <1>9

LEMMA QueueFileHalt ==
    ASSUME NEW X, BookInv, HaltIn(X), QueueFile
    PROVE  HaltIn(X)'
<1>1. Book(World) /\ World \in Worlds /\ World.item = item
  BY InvWorld
<1>2. UNCHANGED env /\ World.q.sending = NoEngine
  BY HandlerQuiet, InvWorld DEF QueueFile
<1>3. PICK i \in Items, queueOnly \in BOOLEAN :
         \E w \in {Queued(World, i, queueOnly)} :
            item[i].where = "out" /\ Becomes(IF w.q.mode # 0 THEN AdvanceQueue(w) ELSE w)
  BY DEF QueueFile
<1> DEFINE w == Queued(World, i, queueOnly)
<1>4. Becomes(w) \/ Becomes(AdvanceQueue(w))
  BY <1>3
<1>5. Book(w)
  BY <1>1, BookQueued
<1>6. /\ w \in Worlds /\ SameEngines(World, w) /\ SameCounts(World, w)
      /\ w.tab = World.tab /\ w.net = World.net
      /\ w.item[i] = [World.item[i] EXCEPT !.where = "queue"]
      /\ \A j \in Items \ {i} : w.item[j] = World.item[j]
      /\ \A s \in Sites, j \in Items :
           Listed(w, s, j) <=> Listed(World, s, j) \/ (s = SiteOf[i] /\ j = i)
      /\ w.q.sending = World.q.sending /\ w.q.inside = World.q.inside
      /\ w.q.refused = World.q.refused
      /\ w.q.mode = World.q.mode \/ w.q.mode = 1
  BY <1>1, QueuedViews
<1> HIDE DEF w
<1>7. Undisturbed => Halt(w, X)
  <2> SUFFICES ASSUME Undisturbed PROVE Halt(w, X)
    OBVIOUS
  <2>1. HaltBut(World, Engines, X)
    BY HaltWorld DEF Halt
  <2>2. w.q.data = World.q.data /\ (w.q.mode = 0 => World.q.mode = 0)
    BY <1>6 DEF SameEngines
  <2>3. HaltBut(w, Engines, X)
    BY <1>6, <2>1, <2>2, HaltSame
  <2> QED
    BY <1>2, <1>6, <2>3 DEF Halt
<1>8. Book(AdvanceQueue(w)) /\ (Undisturbed => Halt(AdvanceQueue(w), X))
  BY <1>5, <1>7, AdvancedHalt DEF Halt
<1> QED
  BY <1>2, <1>4, <1>5, <1>7, <1>8, HaltBecomes

LEMMA SetActiveHalt ==
    ASSUME NEW X, BookInv, SetActive
    PROVE  HaltIn(X)'
<1>1. Book(World) /\ World \in Worlds
  BY InvWorld
<1>2. PICK mode \in 0 .. 2 : mode = 2
  OBVIOUS
<1> DEFINE w == [World EXCEPT !.q.mode = mode]
<1>3. UNCHANGED env /\ Becomes(AdvanceQueue(w))
  BY <1>2 DEF SetActive, Event
<1>4. Book(w)
  BY <1>1, BookSets
<1>5. /\ w \in Worlds
      /\ w.q = [World.q EXCEPT !.mode = mode]
      /\ w.item = World.item /\ w.tab = World.tab /\ w.net = World.net
      /\ w.q.inside = World.q.inside /\ w.q.sending = World.q.sending /\ w.q.refused = World.q.refused
      /\ w.q.refreshed = World.q.refreshed /\ w.q.servers = World.q.servers
      /\ w.q.mode = mode /\ SameEngines(World, w) /\ SameCounts(World, w) /\ SameLists(World, w)
  BY <1>1, ModeSet, Zenon
<1> HIDE DEF w
<1>6. Book(AdvanceQueue(w)) /\ AdvanceQueue(w).q.mode # 0
  <2>1. w.q.mode # 0
    BY <1>2, <1>5
  <2>2. Book(AdvanceQueue(w)) /\ AdvanceQueue(w).q.mode = w.q.mode
    BY <1>4, AdvancedHalt
  <2> QED
    BY <2>1, <2>2
<1>7. Halt(AdvanceQueue(w), X)
  BY <1>6 DEF Halt, HaltBut
<1> QED
  BY <1>3, <1>6, <1>7, HaltBecomes

LEMMA StopHalt ==
    ASSUME NEW X, BookInv, CalmInv, Skipped(World) \subseteq X, Stop
    PROVE  HaltIn(X)'
<1> DEFINE w == World
           u == Deactivate(w)
<1>1. Book(w) /\ Skipped(w) \subseteq X
  BY InvWorld
<1>2. Handler /\ UNCHANGED env /\ Becomes(u) /\ w.q.sending = NoEngine
  BY HandlerQuiet, InvWorld DEF Stop, Event
<1>3. Undisturbed => Calm(w, NoEngine)
  BY <1>2, HandlerRests DEF Rests
<1> HIDE DEF w
<1>4. /\ Halted(w, u) /\ Told(u, TabEngine)
      /\ \A id \in Engines \ Skipped(w) : Told(u, id)
  BY <1>1, DeactivateViews
<1> HIDE DEF u
<1>5. Undisturbed => HaltBut(u, Engines, X)
  BY <1>1, <1>3, <1>4, CalmAnswers, HaltedHalt
<1>6. Book(u) /\ (Undisturbed => Halt(u, X))
  BY <1>2, <1>4, <1>5 DEF Halted, Halt
<1> QED
  BY <1>2, <1>6, HaltBecomes

LEMMA RemoveAllHalt ==
    ASSUME NEW X, BookInv, HaltIn(X), RemoveAll
    PROVE  HaltIn(X)'
<1> DEFINE w == World
           x == Emptied(w)
           u == CheckQueueState(x)
<1>1. Book(w) /\ w \in Worlds
  BY InvWorld
<1>2. UNCHANGED env /\ Becomes(u) /\ w.q.sending = NoEngine
  BY HandlerQuiet, InvWorld DEF RemoveAll, Event
<1>3. Undisturbed => HaltBut(w, Engines, X)
  BY HaltWorld DEF Halt
<1> HIDE DEF w
<1>4. Book(x)
  BY <1>1, BookEmptied
<1>5. /\ x \in Worlds /\ SameRest(w, x)
      /\ x.item = [i \in Items |-> LeftIn(w, i)]
      /\ \A s \in Sites, j \in Items : Listed(x, s, j) <=> Listed(w, s, j) /\ j \in Kept(w)
  BY <1>1, EmptiedViews
<1> HIDE DEF x
<1>6. /\ x.q.data = w.q.data /\ x.net = w.net /\ x.q.mode = w.q.mode
      /\ x.q.sending = NoEngine
  BY <1>2, <1>5 DEF SameRest, SameEngines, SameMode
<1>7. Undisturbed => HaltBut(x, Engines, X)
  BY <1>3, <1>6, HaltSame
<1>8. Settled(x, u)
  BY <1>4, CheckViews
<1> HIDE DEF u
<1>9. Book(u) /\ u.q.sending = NoEngine
  BY <1>6, <1>8 DEF Settled
<1>10. Undisturbed => Halt(u, X)
  BY <1>4, <1>7, <1>8, <1>9, SettledHalt DEF Halt
<1> QED
  BY <1>2, <1>9, <1>10, HaltBecomes

LEMMA StopItemHalt ==
    ASSUME NEW X, NEW w, Book(w), Halt(w, X), NEW i \in Items, w.item[i].active, w.q.sending = NoEngine
    PROVE  LET u == StopItem(ToBeRemoved(w, i), i) IN Book(u) /\ Halt(u, X)
<1> DEFINE x == ToBeRemoved(w, i)
           id == CHOOSE k \in Engines : Data(x, k).item = i
           v == QueueImmediateFile(x, i)
           u == StopItem(x, i)
<1>1. /\ Book(x) /\ x.q = w.q /\ x.tab = w.tab /\ x.net = w.net
      /\ \A j \in Items : /\ x.item[j].active = w.item[j].active
                          /\ x.item[j].where = w.item[j].where
                          /\ x.item[j].sent = w.item[j].sent
  BY BookToBeRemoved
<1> HIDE DEF x
<1>2. HaltBut(x, Engines, X)
  BY <1>1, HaltSame DEF Halt
<1>3. id \in Engines
  <2>1. \E k \in Engines : x.q.data[k].item = i
    BY <1>1, ActiveQueued
  <2> QED
    BY <2>1 DEF Data
<1>4. Book(u) /\ u.q.sending = NoEngine
  BY <1>1, BookStopItem
<1>5. u = ResetEngine(v, id, "remove") \/ u = CancelEngine(v, id)
  BY DEF StopItem
<1> HIDE DEF id, u
<1>6. Book(v) /\ v.item = x.item /\ SameRest(x, v)
  BY <1>1, BookPutBack
<1> HIDE DEF v
<1>7. HaltBut(v, Engines, X)
  BY <1>2, <1>6, HaltSame DEF SameRest, SameEngines, SameMode
<1>8. CASE u = CancelEngine(v, id)
  <2>1. /\ Book(u) /\ u.q = v.q /\ u.item = v.item /\ u.tab = v.tab
        /\ \A e \in Engines : Cancelled(v.net[e], u.net[e])
    BY <1>3, <1>6, <1>8, BookCancel
  <2>2. ASSUME NEW e \in Engines, Open(u, e)
        PROVE  Open(v, e)
    <3>1. v.net[e] \in NetRec /\ Cancelled(v.net[e], u.net[e])
      BY <1>6, <2>1, NetType DEF Book
    <3>2. Shut(v.net[e]) => Shut(u.net[e])
      BY <3>1 DEF Cancelled, NetRec, Shut
    <3> QED
      BY <2>1, <2>2, <3>2 DEF Open
  <2>3. Waits(u) => Waits(v)
    BY <2>1 DEF Waits
  <2>4. HaltBut(u, Engines, X)
    BY <1>7, <2>1, <2>2, <2>3, HaltFrame
  <2> QED
    BY <1>4, <2>4 DEF u, x, Halt
<1>9. CASE u = ResetEngine(v, id, "remove")
  <2>1. PICK reason \in Reasons : reason = "remove"
    BY DEF Reasons
  <2>2. CASE ~v.q.data[id].active
    <3>1. u = v
      BY <1>9, <2>2 DEF ResetEngine, Data
    <3> QED
      BY <1>4, <1>7, <3>1 DEF u, x, Halt
  <2>3. CASE v.q.data[id].active
    <3> DEFINE z == Reset(v, id, reason)
    <3>1. HaltBut(v, Engines \ {id}, X)
      BY <1>7, HaltLess
    <3>2. HaltBut(z, Engines, X) /\ Book(z)
      BY <1>3, <1>6, <2>3, <3>1, ResetHalt, BookReset
    <3>3. u = AdvanceQueue(z)
      BY <1>9, <2>1, <2>3 DEF ResetEngine, Data
    <3> HIDE DEF z
    <3>4. HaltBut(u, Engines, X)
      BY <3>2, <3>3, AdvancedHalt
    <3> QED
      BY <1>4, <3>4 DEF u, x, Halt
  <2> QED
    BY <2>2, <2>3
<1> QED
  BY <1>5, <1>8, <1>9

LEMMA OnRemoveSelectedHalt ==
    ASSUME NEW X, BookInv, HaltIn(X), OnRemoveSelected
    PROVE  HaltIn(X)'
<1> DEFINE w == World
<1>1. Book(w) /\ w.q = q /\ w.item = item
  BY InvWorld
<1>2. Handler /\ UNCHANGED env
  BY DEF OnRemoveSelected, Event
<1>3. PICK i \in Items :
         Becomes(IF w.item[i].active THEN StopItem(ToBeRemoved(w, i), i)
                 ELSE RemoveItem(w, i, "gone"))
  BY <1>1 DEF OnRemoveSelected
<1>4. CASE ~Undisturbed
  BY <1>2, <1>4 DEF HaltIn, Undisturbed
<1>5. CASE Undisturbed
  <2>1. Halt(w, X) /\ w.q.sending = NoEngine
    BY <1>1, <1>2, <1>5, HaltWorld, HandlerQuiet
  <2> HIDE DEF w
  <2>2. PICK u : u = IF w.item[i].active THEN StopItem(ToBeRemoved(w, i), i)
                     ELSE RemoveItem(w, i, "gone")
    OBVIOUS
  <2>3. Book(u) /\ Halt(u, X)
    <3>1. CASE w.item[i].active
      BY <1>1, <2>1, <2>2, <3>1, StopItemHalt
    <3>2. CASE ~w.item[i].active
      <4>1. PICK p \in Places : p = "gone"
        BY DEF Places
      <4>2. Book(u) /\ SameRest(w, u)
        BY <1>1, <2>2, <3>2, <4>1, BookRemoved
      <4>3. u.q.data = w.q.data /\ u.net = w.net /\ u.q.mode = w.q.mode /\ u.q.sending = NoEngine
        BY <2>1, <4>2 DEF SameRest, SameEngines, SameMode
      <4>4. HaltBut(u, Engines, X)
        BY <2>1, <4>3, HaltSame DEF Halt
      <4> QED
        BY <4>2, <4>3, <4>4 DEF Halt
    <3> QED
      BY <3>1, <3>2
  <2>4. Becomes(u)
    BY <1>3, <2>2
  <2> QED
    BY <1>2, <2>3, <2>4, HaltBecomes
<1> QED
  BY <1>4, <1>5

LEMMA OnTimerHalt ==
    ASSUME NEW X, BookInv, CalmInv, HaltIn(X), OnTimer
    PROVE  HaltIn(X)'
<1> DEFINE w == World
<1>1. Book(w) /\ w \in Worlds /\ w.q = q /\ w.net = net
  BY InvWorld
<1>2. UNCHANGED env /\ Handler
  BY DEF OnTimer, Event
<1>3. PICK id \in Engines :
         \E x \in {WithData(w, id, [q.data[id] EXCEPT !.timer = FALSE])} :
            /\ q.data[id].timer
            /\ "race" \in env \/ net[id].inbox = <<>>
            /\ Becomes(IF IsConnected(x, id) /\ Precondition(x, id, "disconnect") # "busy"
                       THEN Execute(x, id, "disconnect", NoItem) ELSE x)
  BY DEF OnTimer
<1> DEFINE x == WithData(w, id, Untimed(w.q.data[id]))
           u == Execute(x, id, "disconnect", NoItem)
           b == IsConnected(x, id) /\ Precondition(x, id, "disconnect") # "busy"
<1>4. w.q.data[id].timer /\ Becomes(IF b THEN u ELSE x)
      /\ (Undisturbed => w.net[id].inbox = <<>>)
  BY <1>1, <1>3 DEF Untimed, Undisturbed
<1>5. Undisturbed => Halt(w, X) /\ Calm(w, NoEngine)
  BY <1>2, HaltWorld, HandlerRests DEF Rests
<1>6. w.q.data \in [Engines -> DataRec] /\ w.q.data[id] \in DataRec
  BY <1>1, WorldParts, DataType
<1> HIDE DEF w
<1>7. /\ Book(x) /\ x.item = w.item /\ x.tab = w.tab /\ x.net = w.net
      /\ x.q.data = [w.q.data EXCEPT ![id] = Untimed(w.q.data[id])]
      /\ x.q.engines = w.q.engines
      /\ x.q.sending = w.q.sending /\ x.q.mode = w.q.mode /\ x.q.inside = w.q.inside
      /\ x.q.refused = w.q.refused
  BY <1>1, <1>4, BookUntimed
<1>8. b => w.net[id].cmd = "none"
  <2> HIDE DEF x
  <2> QED
    BY <1>7 DEF Precondition
<1> HIDE DEF x, b
<1>9. \A e \in Engines : x.q.data[e].active = w.q.data[e].active
                         /\ x.q.data[e].state = w.q.data[e].state
  <2>1. Untimed(w.q.data[id]).active = w.q.data[id].active
        /\ Untimed(w.q.data[id]).state = w.q.data[id].state
    BY <1>6, UntimedType DEF Alike
  <2> QED
    BY <1>6, <1>7, <2>1
<1>10. Undisturbed => Halt(x, X)
  <2> SUFFICES ASSUME Undisturbed PROVE Halt(x, X)
    OBVIOUS
  <2>1. \A e \in Engines : Open(x, e) => Open(w, e)
    BY <1>7, <1>9 DEF Open
  <2>2. Waits(x) => Waits(w)
    BY <1>9, OwnIn DEF Waits
  <2>3. HaltBut(w, Engines, X)
    BY <1>5 DEF Halt
  <2>4. HaltBut(x, Engines, X)
    BY <1>7, <2>1, <2>2, <2>3, HaltFrame
  <2> QED
    BY <1>5, <1>7, <2>4 DEF Halt
<1>11. CASE ~b
  BY <1>2, <1>4, <1>7, <1>10, <1>11, HaltBecomes
<1>12. CASE b
  <2>1. PICK cmd \in Commands, to \in Aims : cmd = "disconnect" /\ to = NoItem
    BY DEF Commands, Aims, Files
  <2>2. u = Execute(x, id, cmd, to)
    BY <2>1
  <2> HIDE DEF u
  <2>3. /\ u.item = x.item /\ u.tab = x.tab /\ u.q = x.q
        /\ u.net = [x.net EXCEPT ![id] = Executing(x.net[id], cmd, to)]
    BY <1>7, <2>2, ExecutedViews DEF Book
  <2>4. Book(u)
    BY <1>7, <2>1, <2>2, BookExecute
  <2>5. Undisturbed => Halt(u, X)
    <3> SUFFICES ASSUME Undisturbed PROVE Halt(u, X)
      OBVIOUS
    <3>1. ~w.q.data[id].active \/ w.q.data[id].state = "waitprimary"
      <4>1. Answers(w, Engines)
        BY <1>1, <1>5, CalmAnswers
      <4> QED
        BY <1>4, <1>8, <1>12, <4>1 DEF Answers
    <3>2. id # TabEngine
      <4>1. GoodData(id, w.q.data[id])
        BY <1>1 DEF Book, DataOK
      <4> QED
        BY <1>4, <4>1 DEF GoodData
    <3>3. ~x.q.data[id].active
      <4>1. GoodData(id, x.q.data[id])
        BY <1>7 DEF Book, DataOK
      <4> QED
        BY <1>9, <3>1, <3>2, <4>1 DEF GoodData
    <3>4. x.net \in [Engines -> NetRec]
      BY <1>7, WorldParts DEF Book
    <3>5. \A e \in Engines : Open(u, e) => Open(x, e)
      BY <2>3, <3>3, <3>4 DEF Open
    <3>6. Waits(u) => Waits(x)
      BY <2>3 DEF Waits
    <3>7. HaltBut(x, Engines, X)
      BY <1>10 DEF Halt
    <3>8. HaltBut(u, Engines, X)
      BY <2>3, <3>5, <3>6, <3>7, HaltFrame
    <3> QED
      BY <1>10, <2>3, <3>8 DEF Halt
  <2>6. Becomes(u)
    BY <1>4, <1>12
  <2> QED
    BY <1>2, <2>4, <2>5, <2>6, HaltBecomes
<1> QED
  BY <1>11, <1>12

LEMMA TabCommandHalt ==
    ASSUME NEW X, BookInv, CalmInv, HaltIn(X), TabCommand
    PROVE  HaltIn(X)'
<1> DEFINE w == World
<1>1. Book(w) /\ w \in Worlds /\ w.q = q /\ w.tab = tab
  BY InvWorld
<1>2. UNCHANGED env /\ Handler /\ ~w.tab.lock
  BY <1>1 DEF TabCommand, Event
<1>3. PICK cmd \in {"browse", "connect", "disconnect"}, s \in Sites : Becomes(TabBegins(w, cmd, s))
  BY <1>1 DEF TabCommand
<1> DEFINE u == TabBegins(w, cmd, s)
<1>4. Undisturbed => Halt(w, X) /\ Calm(w, NoEngine)
  BY <1>2, HaltWorld, HandlerRests DEF Rests
<1> HIDE DEF w
<1>5. /\ Book(u) /\ u.q = w.q /\ u.item = w.item /\ u.tab = TabBegun(w.tab, cmd, s)
      /\ u.net = [w.net EXCEPT ![TabEngine] = Executing(w.net[TabEngine], cmd, s)]
  BY <1>1, BookTabBegins
<1> HIDE DEF u
<1>6. \A e \in Own : u.net[e] = w.net[e]
  BY <1>1, <1>5, WorldParts, OwnIn
<1>7. Undisturbed => Halt(u, X)
  BY <1>1, <1>2, <1>4, <1>5, <1>6, FreeHalt
<1> QED
  BY <1>2, <1>3, <1>5, <1>7, HaltBecomes DEF u

(* A step of an engine, which stays told to stop or answers.               *)
LEMMA ChangeHalt ==
    ASSUME NEW X, BookInv, HaltIn(X), NEW id \in Engines, NEW m, Change(id, m), UNCHANGED <<q, env>>,
           Undisturbed /\ q.mode = 0 /\ q.data[id].active /\ Shut(net[id]) => Shut(m)
    PROVE  HaltIn(X)'
<1> SUFFICES ASSUME Undisturbed', NEW u, u = World' PROVE Halt(u, X)
  BY DEF HaltIn
<1> DEFINE w == World
<1>1. Book(w) /\ w \in Worlds /\ w.q = q /\ w.net = net
  BY InvWorld
<1>2. Halt(w, X) /\ Undisturbed
  BY HaltWorld DEF Undisturbed
<1>3. u.q = w.q /\ u.net = [w.net EXCEPT ![id] = m]
  BY <1>1 DEF World, Change
<1>4. w.q.mode = 0 /\ w.q.data[id].active /\ Shut(w.net[id]) => Shut(m)
  BY <1>1, <1>2
<1> HIDE DEF w
<1>5. w.net \in [Engines -> NetRec]
  BY <1>1, WorldParts
<1>6. u.q.mode = 0 => \A e \in Engines : Open(u, e) => Open(w, e)
  BY <1>3, <1>4, <1>5 DEF Open
<1>7. Waits(u) => Waits(w)
  BY <1>3 DEF Waits
<1>8. HaltBut(u, Engines, X)
  BY <1>2, <1>3, <1>6, <1>7, HaltFrame DEF Halt
<1> QED
  BY <1>2, <1>3, <1>8 DEF Halt

(* A command that ends is answered.                                        *)
LEMMA EndedShut ==
    ASSUME NEW n \in NetRec, NEW code \in Codes, NEW progress \in BOOLEAN, NEW m,
           m.inbox = Ended(n, code, progress).inbox
    PROVE  Shut(m)
<1>1. m.inbox = Append(n.inbox, [cmd |-> n.cmd, to |-> n.to, code |-> code, progress |-> progress])
  BY EndedType DEF Reply
<1>2. n.inbox \in Seq(Replies)
  BY DEF NetRec
<1>3. PICK r : r = [cmd |-> n.cmd, to |-> n.to, code |-> code, progress |-> progress]
  OBVIOUS
<1>4. m.inbox = Append(n.inbox, r)
  BY <1>1, <1>3
<1>5. Len(m.inbox) = Len(n.inbox) + 1 /\ Len(n.inbox) \in Nat
  <2> HIDE DEF Replies
  <2> QED
    BY <1>2, <1>4
<1>6. m.inbox # <<>>
  BY <1>5
<1> QED
  BY <1>6 DEF Shut

LEMMA EngineBeginsHalt ==
    ASSUME NEW X, BookInv, HaltIn(X), NEW id \in Engines, EngineBegins(id)
    PROVE  HaltIn(X)'
<1> DEFINE n == net[id]
           s == Target(id)
           m == [n EXCEPT !.server = s]
<1>1. n \in NetRec
  BY NetOf
<1>2. Change(id, m) /\ UNCHANGED <<q, env>>
  BY DEF EngineBegins
<1>3. m.inbox = n.inbox /\ m.cancel = n.cancel
  <2> HIDE DEF n, s
  <2> QED
    BY <1>1 DEF NetRec
<1> HIDE DEF m
<1>4. Shut(n) => Shut(m)
  BY <1>3 DEF Shut
<1> QED
  BY <1>2, <1>4, ChangeHalt

LEMMA EngineSucceedsHalt ==
    ASSUME NEW X, BookInv, HaltIn(X), NEW id \in Engines, EngineSucceeds(id)
    PROVE  HaltIn(X)'
<1>1. net[id] \in NetRec
  BY NetOf
<1>2. UNCHANGED <<q, env>> /\ Change(id, Ended(net[id], "ok", FALSE))
  BY DEF EngineSucceeds
<1>3. PICK code \in Codes, no \in BOOLEAN : code = "ok" /\ no = FALSE
  BY DEF Codes
<1>4. PICK m : m = Ended(net[id], code, no)
  OBVIOUS
<1>5. Shut(m)
  BY <1>1, <1>4, EndedShut
<1>6. Change(id, m)
  BY <1>2, <1>3, <1>4
<1> QED
  BY <1>2, <1>5, <1>6, ChangeHalt

LEMMA EngineFailsHalt ==
    ASSUME NEW X, BookInv, HaltIn(X), NEW id \in Engines, EngineFails(id)
    PROVE  HaltIn(X)'
<1>1. net[id] \in NetRec
  BY NetOf
<1>2. UNCHANGED <<q, env>>
  BY DEF EngineFails
<1>3. PICK code \in Failures(net[id].cmd), progress \in BOOLEAN :
         Change(id, Ended(net[id], code, progress))
  BY DEF EngineFails
<1>4. code \in Codes
  BY DEF Failures, Codes
<1>5. PICK m : m = Ended(net[id], code, progress)
  OBVIOUS
<1>6. Shut(m)
  BY <1>1, <1>4, <1>5, EndedShut
<1> QED
  BY <1>2, <1>3, <1>5, <1>6, ChangeHalt

(* A cancel event that comes too late is taken by an engine that has       *)
(* answered.                                                               *)
LEMMA EngineCancelsHalt ==
    ASSUME NEW X, BookInv, CalmInv, HaltIn(X), NEW id \in Engines, EngineCancels(id)
    PROVE  HaltIn(X)'
<1> DEFINE o == net[id]
           n == [o EXCEPT !.cancel = FALSE]
<1>1. o \in NetRec
  BY NetOf
<1>2. UNCHANGED <<q, env>>
      /\ \/ n.cmd = "none" /\ Change(id, n)
         \/ \E server \in {n.server, NoSite} :
                Change(id, [Ended(n, "canceled", FALSE) EXCEPT !.server = server])
  BY DEF EngineCancels
<1> HIDE DEF o
<1>3. n \in NetRec /\ n.inbox = o.inbox /\ n.cmd = o.cmd
  BY <1>1, CancelFlag
<1> HIDE DEF n
<1>4. CASE n.cmd = "none" /\ Change(id, n)
  <2>1. ASSUME Undisturbed, q.mode = 0, q.data[id].active
        PROVE  Shut(n)
    <3> DEFINE w == World
    <3>1. Book(w) /\ w.q = q /\ w.net = net
      BY InvWorld
    <3>2. Halt(w, X) /\ Peace(w)
      BY <2>1, HaltWorld, CalmWorld
    <3> HIDE DEF w
    <3>3. Calm(w, NoEngine) /\ ~Waits(w)
      BY <2>1, <3>1, <3>2, OwnIn DEF Peace, Halt, HaltBut
    <3>4. Answers(w, Engines)
      BY <3>1, <3>3, CalmAnswers
    <3>5. w.q.data[id].active /\ w.net[id].cmd = "none"
      BY <1>3, <1>4, <2>1, <3>1 DEF o
    <3>6. w.q.data[id].state # "waitprimary"
      <4>1. GoodData(id, w.q.data[id])
        BY <3>1 DEF Book, DataOK
      <4> QED
        BY <3>3, <3>5, <4>1 DEF GoodData, Waits
    <3>7. w.net[id].inbox # <<>>
      BY <3>4, <3>5, <3>6 DEF Answers
    <3> QED
      BY <1>3, <3>1, <3>7 DEF Shut, o
  <2> QED
    BY <1>2, <1>4, <2>1, ChangeHalt DEF o
<1>5. CASE \E server \in {n.server, NoSite} :
               Change(id, [Ended(n, "canceled", FALSE) EXCEPT !.server = server])
  <2>1. PICK server \in {n.server, NoSite} :
            Change(id, [Ended(n, "canceled", FALSE) EXCEPT !.server = server])
    BY <1>5
  <2>2. PICK code \in Codes, no \in BOOLEAN : code = "canceled" /\ no = FALSE
    BY DEF Codes
  <2> DEFINE k == Ended(n, code, no)
             m == [k EXCEPT !.server = server]
  <2>3. k \in NetRec
    BY <1>3, EndedType
  <2>4. Change(id, m)
    BY <2>1, <2>2
  <2>5. m.inbox = k.inbox
    <3> HIDE DEF k
    <3> QED
      BY <2>3 DEF NetRec
  <2> HIDE DEF m
  <2>6. Shut(m)
    BY <1>3, <2>5, EndedShut
  <2> QED
    BY <1>2, <2>4, <2>6, ChangeHalt
<1> QED
  BY <1>2, <1>4, <1>5

LEMMA EngineCancelsLateHalt ==
    ASSUME NEW X, BookInv, HaltIn(X), NEW id \in Engines, EngineCancelsLate(id)
    PROVE  HaltIn(X)'
<1> DEFINE o == net[id]
           n == [o EXCEPT !.late = FALSE]
<1>1. o \in NetRec
  BY NetOf
<1>2. UNCHANGED <<q, env>> /\ (Change(id, n) \/ Change(id, Ended(n, "canceled", FALSE)))
  BY DEF EngineCancelsLate
<1> HIDE DEF o
<1>3. n \in NetRec /\ n.inbox = o.inbox /\ n.cancel = o.cancel
  BY <1>1, CancelFlag
<1> HIDE DEF n
<1>4. Shut(o) => Shut(n)
  BY <1>3 DEF Shut
<1>5. CASE Change(id, n)
  BY <1>2, <1>4, <1>5, ChangeHalt DEF o
<1>6. CASE Change(id, Ended(n, "canceled", FALSE))
  <2>1. PICK code \in Codes, no \in BOOLEAN : code = "canceled" /\ no = FALSE
    BY DEF Codes
  <2> DEFINE m == Ended(n, code, no)
  <2>2. Change(id, m)
    BY <1>6, <2>1
  <2> HIDE DEF m
  <2>3. Shut(m)
    BY <1>3, EndedShut DEF m
  <2> QED
    BY <1>2, <2>2, <2>3, ChangeHalt
<1> QED
  BY <1>2, <1>5, <1>6

LEMMA InitHalt ==
    ASSUME NEW X, Init
    PROVE  HaltIn(X)
<1> DEFINE w == World
           d == NewData("none")
<1>1. w.q = q /\ q.data = [id \in Engines |-> d] /\ q.sending = NoEngine
  BY DEF Init, World
<1>2. ~d.active
  BY DEF NewData
<1> HIDE DEF w, d
<1>3. \A e \in Engines : ~w.q.data[e].active
  BY <1>1, <1>2
<1>4. Halt(w, X)
  BY <1>1, <1>3, OwnIn DEF Halt, HaltBut, Open, Waits
<1> QED
  BY <1>4 DEF HaltIn, w

LEMMA NextHalt ==
    ASSUME NEW X, BookInv, CalmInv, HaltIn(X), Skipped(World) \subseteq X, [Next]_vars
    PROVE  HaltIn(X)'
<1>1. ASSUME Interface PROVE HaltIn(X)'
  BY <1>1, SendNextCommandHalt, StartNextTransferHalt, FinishHalt,
     OnExclusiveEngineRequestGrantedHalt, OnEngineEventHalt DEF Interface
<1>2. ASSUME UNCHANGED vars PROVE HaltIn(X)'
  BY <1>2 DEF vars, HaltIn, Undisturbed, World
<1>3. ASSUME NEW id \in Engines, EngineSteps(id) PROVE HaltIn(X)'
  BY <1>3, EngineBeginsHalt, EngineSucceedsHalt, EngineFailsHalt, EngineCancelsHalt,
     EngineCancelsLateHalt DEF EngineSteps
<1> QED
  BY <1>1, <1>2, <1>3, QueueFileHalt, SetActiveHalt, StopHalt, OnRemoveSelectedHalt,
     RemoveAllHalt, OnTimerHalt, TabCommandHalt DEF Next

(* While the queue is stopped, none waits and none is sent a command.      *)
HaltInv == HaltIn(Engines)

LEMMA NextStopped ==
    ASSUME BookInv, CalmInv, HaltInv, [Next]_vars
    PROVE  HaltInv'
<1> DEFINE w == World
<1>1. w.q.engines \in Seq(Engines)
  BY InvWorld, WorldParts
<1> HIDE DEF w
<1>2. Skipped(w) \subseteq Engines
  BY <1>1 DEF Skipped
<1>3. PICK X : X = Engines
  OBVIOUS
<1>4. HaltIn(X) /\ Skipped(World) \subseteq X
  BY <1>2, <1>3 DEF HaltInv, w
<1>5. HaltIn(X)'
  BY <1>4, NextHalt
<1> QED
  BY <1>3, <1>5 DEF HaltInv

LEMMA UndisturbedStays ==
    ASSUME Undisturbed, [Next]_vars
    PROVE  Undisturbed'
<1>1. ASSUME Interface PROVE env' = env
  BY <1>1 DEF Interface, SendNextCommand, StartNextTransfer, Finish,
     OnExclusiveEngineRequestGranted, OnEngineEvent
<1>2. ASSUME NEW id \in Engines, EngineSteps(id) PROVE env' = env
  BY <1>2 DEF EngineSteps, EngineBegins, EngineSucceeds, EngineFails, EngineCancels,
     EngineCancelsLate
<1>3. ASSUME QueueFile \/ SetActive \/ Stop \/ OnRemoveSelected \/ RemoveAll \/ OnTimer
             \/ TabCommand
      PROVE  env' = env
  BY <1>3 DEF QueueFile, SetActive, Stop, OnRemoveSelected, RemoveAll, OnTimer, TabCommand, Event
<1>4. env' = env
  BY <1>1, <1>2, <1>3 DEF Next, vars
<1> QED
  BY <1>4 DEF Undisturbed

(* The engines that are open, or will be missed, before a step.            *)
LEMMA StopStep ==
    ASSUME BookInv, CalmInv, HaltInv, Undisturbed, [Next]_vars
    PROVE  q'.mode = 0 =>
               Unstopped' \subseteq (IF q.mode = 0 THEN Unstopped ELSE BehindWaiting)
<1>1. PICK X : X = IF q.mode = 0 THEN Unstopped ELSE BehindWaiting
  OBVIOUS
<1> DEFINE w == World
<1>2. w.q = q /\ w.net = net
  BY InvWorld
<1>3. Halt(w, Engines)
  BY DEF HaltInv, HaltIn
<1>4. Skipped(w) = BehindWaiting /\ (w.q.mode = 0 => ~Waits(w))
  BY <1>2, <1>3, OwnIn DEF Skipped, BehindWaiting, Waits, Halt, HaltBut
<1> HIDE DEF w
<1>5. Skipped(w) \subseteq X
  BY <1>1, <1>2, <1>4 DEF Skipped
<1>6. Halt(w, X)
  <2>1. CASE q.mode = 0
    BY <1>1, <1>2, <1>3, <2>1 DEF Halt, HaltBut, Unstopped, Active, Open, Shut
  <2>2. CASE q.mode # 0
    BY <1>2, <2>2 DEF Halt, HaltBut
  <2> QED
    BY <2>1, <2>2
<1>7. HaltIn(X) /\ Skipped(World) \subseteq X
  BY <1>5, <1>6 DEF HaltIn, w
<1>8. HaltIn(X)'
  BY <1>7, NextHalt
<1>9. Undisturbed'
  BY UndisturbedStays
<1>10. q'.mode = 0 => Unstopped' \subseteq X
  BY <1>8, <1>9 DEF HaltIn, Halt, HaltBut, World, Unstopped, Active, Open, Shut
<1> QED
  BY <1>1, <1>10

(* Undisturbed, when the queue is stopped every engine that is active has  *)
(* been told so or has answered, except the one behind the engine of a tab *)
(* that is waited for, which the walk over the list misses; and while the  *)
(* queue is stopped no other engine goes on or begins.                     *)
THEOREM MissesOneOnly == Spec /\ Undisturbed => StopMissesOne
<1>1. Init => BookInv /\ CalmInv /\ HaltInv
  BY InitBook, InitCalm, InitHalt DEF HaltInv
<1>2. BookInv /\ CalmInv /\ HaltInv /\ [Next]_vars => (BookInv /\ CalmInv /\ HaltInv)'
  BY NextBook, NextCalm, NextStopped
<1>3. Undisturbed /\ [Next]_vars => Undisturbed'
  BY UndisturbedStays
<1>4. BookInv /\ CalmInv /\ HaltInv /\ Undisturbed /\ [Next]_vars =>
        [q'.mode = 0 =>
            Unstopped' \subseteq (IF q.mode = 0 THEN Unstopped ELSE BehindWaiting)]_vars
  BY StopStep
<1> QED
  BY <1>1, <1>2, <1>3, <1>4, PTL DEF Spec, StopMissesOne

-----------------------------------------------------------------------------
(* An engine claims a connection to site s while it has one that is not    *)
(* being closed, or a file of that site, for which it may connect.         *)
Linked(n, s) == n.server = s /\ n.cmd # "disconnect"
Claims(d, n, s) == Linked(n, s) \/ (d.item # NoItem /\ SiteOf[d.item] = s)
Claimants(w, s) == {e \in Own : Claims(w.q.data[e], w.net[e], s)}

(* While the tab stays at its site, which is the one that engines list, the*)
(* claims for another site are within its limit.                           *)
Listers(w) == \A e \in Own : w.q.data[e].state = "list" => w.q.data[e].site = w.tab.site
Room(w) ==
    /\ Listers(w)
    /\ \A s \in Sites :
         Limit[s] # 0 /\ w.tab.site # s => Cardinality(Claimants(w, s)) =< Limit[s]

(* An engine that takes no file and makes no connection claims no more.    *)
Yields(d, n, e, m, s) ==
    /\ e.item \in {d.item, NoItem} /\ m.server \in {n.server, NoSite}
    /\ n.cmd = "disconnect" => m.cmd = "disconnect" \/ m.server = NoSite
    /\ e.state = "list" => e.site = s \/ (d.state = "list" /\ e.site = d.site)

LEMMA YieldsClaims ==
    ASSUME NEW d, NEW n, NEW e, NEW m, NEW x, Yields(d, n, e, m, x), NEW s \in Sites,
           Claims(e, m, s)
    PROVE  Claims(d, n, s)
BY QueueAssumption DEF Yields, Claims, Linked

LEMMA ClaimantsFinite ==
    ASSUME NEW w, NEW s
    PROVE  /\ Claimants(w, s) \subseteq Engines /\ IsFiniteSet(Claimants(w, s))
           /\ Cardinality(Claimants(w, s)) \in Nat
<1>1. Claimants(w, s) \subseteq Engines
  BY OwnIn DEF Claimants
<1> QED
  BY <1>1, EnginesFinite

LEMMA FewerClaimants ==
    ASSUME NEW w, NEW s, NEW T \in SUBSET Engines, Claimants(w, s) \subseteq T
    PROVE  Cardinality(Claimants(w, s)) =< Cardinality(T)
<1>1. IsFiniteSet(T)
  BY EnginesFinite
<1> QED
  BY <1>1, FS_Subset

LEMMA RoomLess ==
    ASSUME NEW w, Room(w), NEW u, u.tab.site = w.tab.site, Listers(u),
           \A e \in Own, s \in Sites :
               Claims(u.q.data[e], u.net[e], s) => Claims(w.q.data[e], w.net[e], s)
    PROVE  Room(u)
<1>1. ASSUME NEW s \in Sites, Limit[s] # 0, u.tab.site # s
      PROVE  Cardinality(Claimants(u, s)) =< Limit[s]
  <2>1. Claimants(u, s) \subseteq Claimants(w, s)
    BY DEF Claimants
  <2>2. Cardinality(Claimants(w, s)) =< Limit[s]
    BY <1>1 DEF Room
  <2>3. Claimants(w, s) \in SUBSET Engines /\ Cardinality(Claimants(w, s)) \in Nat
        /\ Cardinality(Claimants(u, s)) \in Nat /\ Limit[s] \in Nat
    BY ClaimantsFinite, QueueAssumption
  <2>4. Cardinality(Claimants(u, s)) =< Cardinality(Claimants(w, s))
    BY <2>1, <2>3, FewerClaimants
  <2> QED
    BY <2>2, <2>3, <2>4
<1> QED
  BY <1>1 DEF Room

LEMMA RoomFrame ==
    ASSUME NEW w, Room(w), NEW u, u.tab.site = w.tab.site,
           \A e \in Own : Yields(w.q.data[e], w.net[e], u.q.data[e], u.net[e], w.tab.site)
    PROVE  Room(u)
<1>1. Listers(u)
  BY DEF Listers, Yields, Room
<1>2. \A e \in Own, s \in Sites :
          Claims(u.q.data[e], u.net[e], s) => Claims(w.q.data[e], w.net[e], s)
  BY YieldsClaims
<1> QED
  BY <1>1, <1>2, RoomLess

LEMMA YieldsSame ==
    ASSUME NEW d, NEW n, NEW e, NEW m, NEW s, e.item = d.item, e.site = d.site,
           e.state # "list" \/ e.state = d.state, m.server = n.server,
           m.cmd = n.cmd \/ n.cmd = "none"
    PROVE  Yields(d, n, e, m, s)
BY DEF Yields

LEMMA RoomSame ==
    ASSUME NEW w, Room(w), NEW u, u.q.data = w.q.data, u.net = w.net,
           u.tab.site = w.tab.site
    PROVE  Room(u)
<1>1. \A e \in Own : Yields(w.q.data[e], w.net[e], u.q.data[e], u.net[e], w.tab.site)
  BY DEF Yields
<1> QED
  BY <1>1, RoomFrame

LEMMA GrownRoom ==
    ASSUME NEW w, Book(w), NEW u, Grown(w, u), Room(w)
    PROVE  Room(u)
<1>1. Book(u) /\ u.net = w.net /\ u.tab = w.tab
  BY DEF Grown
<1>2. ASSUME NEW e \in Own
      PROVE  Yields(w.q.data[e], w.net[e], u.q.data[e], u.net[e], w.tab.site)
  <2>0. e \in Engines
    BY OwnIn
  <2>1. CASE HasData(w, e)
    <3>1. u.q.data[e] = w.q.data[e]
      BY <2>0, <2>1 DEF Grown
    <3> QED
      BY <1>1, <3>1 DEF Yields
  <2>2. CASE ~HasData(w, e) /\ HasData(u, e)
    <3>1. u.q.data[e] = NewData(NewState(e))
      BY <2>0, <2>2 DEF Grown
    <3>2. \A s : NewData(s).item = NoItem /\ ~NewData(s).active
      BY DEF NewData
    <3>3. GoodData(e, u.q.data[e])
      BY <1>1, <2>0 DEF Book, DataOK
    <3>4. u.q.data[e].state # "list" /\ u.q.data[e].item = NoItem
      BY <3>1, <3>2, <3>3 DEF GoodData
    <3> QED
      BY <1>1, <3>4 DEF Yields
  <2>3. CASE ~HasData(u, e)
    <3>1. u.q.data[e] = NewData("none")
      BY <1>1, <2>0, <2>3 DEF Book, DataOK
    <3>2. NewData("none").item = NoItem /\ NewData("none").state = "none"
      BY DEF NewData
    <3> QED
      BY <1>1, <3>1, <3>2 DEF Yields
  <2> QED
    BY <2>1, <2>2, <2>3
<1> QED
  BY <1>1, <1>2, RoomFrame

LEMMA SettledRoom ==
    ASSUME NEW w, Book(w), NEW u, Settled(w, u), Room(w)
    PROVE  Room(u)
<1>1. w \in Worlds
  BY DEF Book
<1>2. u.tab.site = w.tab.site
  <2>1. ReleaseEngine(w).tab = Released(w.tab)
    BY <1>1, ReleaseViews
  <2>2. Released(w.tab).site = w.tab.site
    <3>1. w.tab \in TabRec
      BY <1>1, WorldParts
    <3> QED
      BY <3>1 DEF Released, TabRec
  <2> QED
    BY <2>1, <2>2 DEF Settled
<1>3. ASSUME NEW e \in Own
      PROVE  Yields(w.q.data[e], w.net[e], u.q.data[e], u.net[e], w.tab.site)
  <2>1. w.q.data[e] \in DataRec /\ w.net[e] \in NetRec
    BY <1>1, OwnIn, DataType, NetType
  <2>2. CASE Unmoved(w, u, e)
    BY <2>2 DEF Unmoved, Alike, Yields
  <2>3. CASE Refreshing(w, u, e)
    <3>1. Listing(w.q.data[e]).item = w.q.data[e].item /\ Listing(w.q.data[e]).site = w.q.data[e].site
      BY <2>1, ListingType
    <3>2. u.q.data[e].item = w.q.data[e].item /\ u.q.data[e].site = w.tab.site
      BY <2>3, <3>1 DEF Refreshing, Alike
    <3>3. u.net[e].server = w.net[e].server /\ w.net[e].cmd = "none"
      BY <2>1, <2>3 DEF Refreshing, Executing, NetRec
    <3> QED
      BY <3>2, <3>3 DEF Yields
  <2> QED
    BY <2>2, <2>3 DEF Settled
<1> QED
  BY <1>2, <1>3, RoomFrame

LEMMA ClaimsByFile ==
    ASSUME NEW v, Book(v), Calm(v, NoEngine), Room(v), NEW e \in Own, NEW s \in Sites,
           v.tab.site # s, Claims(v.q.data[e], v.net[e], s),
           Idle(v, e, FALSE) => ~There(v, e, s)
    PROVE  e \in Having(v.q.data, FilesOf(s))
<1> DEFINE d == v.q.data[e]
           n == v.net[e]
<1>1. v \in Worlds /\ DataOK(v) /\ ItemsOK(v) /\ e \in Engines /\ e # NoEngine /\ e # TabEngine
  BY BookParts, OwnIn
<1>2. GoodData(e, d) /\ d.item \in Items \cup {NoItem} /\ n \in NetRec
      /\ (d.item # NoItem => d.site = SiteOf[d.item])
  BY <1>1, DataType, NetType DEF DataOK, ItemsOK, Files
<1>3. EngineCalm(d, n, HasData(v, e), e = NoEngine)
  BY CalmParts
<1>4. d.item # NoItem /\ SiteOf[d.item] = s => e \in Having(v.q.data, FilesOf(s))
  BY <1>1, <1>2 DEF Having, FilesOf
<1>5. CASE Linked(n, s)
  <2>1. n.server = s /\ n.cmd # "disconnect" /\ n.server # NoSite
    BY <1>5, QueueAssumption DEF Linked
  <2>2. d.state # "disconnect"
    <3>1. SUFFICES ASSUME d.state = "disconnect" PROVE FALSE
      OBVIOUS
    <3>2. d.active
      BY <1>2, <3>1 DEF GoodData
    <3>3. n.cmd # "none"
      BY <1>1, <1>3, <2>1, <3>1 DEF EngineCalm
    <3>4. Due(n, "disconnect", d.item)
      BY <1>1, <1>3, <3>1, <3>2 DEF EngineCalm
    <3> QED
      BY <2>1, <3>3, <3>4 DEF Due
  <2>3. d.site = s /\ HasData(v, e)
    BY <1>3, <2>1, <2>2 DEF EngineCalm
  <2>4. There(v, e, s)
    BY <2>1, <2>3 DEF There, IsConnected
  <2>5. d.active
    BY <1>1, <2>3, <2>4 DEF Idle
  <2>6. d.state # "list"
    BY <2>3 DEF Room, Listers
  <2> QED
    BY <1>2, <1>4, <2>3, <2>5, <2>6 DEF GoodData
<1> QED
  BY <1>4, <1>5 DEF Claims

LEMMA AssignRoom ==
    ASSUME NEW v, NEW i, NEW id, Starts(v, i, id), Calm(v, NoEngine), Still(v), Room(v)
    PROVE  Room(Assign(v, i, id))
<1> DEFINE u == Assign(v, i, id)
           d == Given(v, i, id)
           s == SiteOf[i]
<1> HIDE DEF s
<1>1. Book(v) /\ v \in Worlds /\ i \in Items /\ id \in Engines /\ HasData(v, id)
      /\ ~v.q.data[id].active
  BY DEF Starts, Book
<1>2. /\ u.q.data[id] = d /\ \A e \in Engines \ {id} : u.q.data[e] = v.q.data[e]
      /\ u.tab = v.tab /\ u.net = v.net
  <2>1. /\ u \in Worlds /\ Given(v, i, id) \in DataRec
        /\ u.q.data = [v.q.data EXCEPT ![id] = Given(v, i, id)]
        /\ u.q.data[id] = Given(v, i, id)
        /\ \A e \in Engines \ {id} : u.q.data[e] = v.q.data[e]
        /\ u.q.busy = [v.q.busy EXCEPT ![SiteOf[i]] = v.q.busy[SiteOf[i]] + 1]
        /\ u.q.count = v.q.count + 1
        /\ u.q.down = v.q.down + (IF Download(i) THEN 1 ELSE 0)
        /\ u.q.up = v.q.up + (IF Download(i) THEN 0 ELSE 1)
        /\ u.item = [v.item EXCEPT ![i] = [v.item[i] EXCEPT !.active = TRUE]]
        /\ u.q.sending = id /\ u.q.engines = v.q.engines /\ SameLists(v, u)
        /\ u.q.mode = v.q.mode /\ u.q.inside = v.q.inside /\ u.q.refused = v.q.refused
        /\ u.tab = v.tab /\ u.net = v.net
    BY <1>1, AssignViews, SMTT(40)
  <2> HIDE DEF u, d
  <2> QED
    BY <2>1 DEF d
<1>3. d.item = i /\ d.active
  BY <1>1, GivenFields
<1>4. d.state # "list"
  <2>1. Book(u)
    BY BookStarts
  <2>2. GoodData(id, d)
    BY <1>1, <1>2, <2>1 DEF Book, DataOK
  <2> QED
    BY <1>1, <1>3, <2>2, QueueAssumption DEF GoodData
<1> HIDE DEF u, d
<1>5. Listers(u)
  BY <1>2, <1>4, OwnIn DEF Listers, Room
<1>6. ASSUME NEW t \in Sites, Limit[t] # 0, v.tab.site # t
      PROVE  Cardinality(Claimants(u, t)) =< Limit[t]
  <2>1. Cardinality(Claimants(v, t)) =< Limit[t] /\ Limit[t] \in Nat
    BY <1>6, QueueAssumption DEF Room
  <2>2. \A e \in Own : e # id => (e \in Claimants(u, t) <=> e \in Claimants(v, t))
    BY <1>2, OwnIn DEF Claimants
  <2>3. Claimants(u, t) \subseteq Engines /\ Claimants(v, t) \subseteq Engines
        /\ Cardinality(Claimants(u, t)) \in Nat /\ Cardinality(Claimants(v, t)) \in Nat
    BY ClaimantsFinite
  <2>4. CASE id \in Claimants(u, t) => id \in Claimants(v, t)
    <3>1. Claimants(u, t) \subseteq Claimants(v, t)
      BY <2>2, <2>4 DEF Claimants
    <3>2. Cardinality(Claimants(u, t)) =< Cardinality(Claimants(v, t))
      BY <2>3, <3>1, FewerClaimants
    <3> QED
      BY <2>1, <2>3, <3>2
  <2>5. CASE id \in Claimants(u, t) /\ id \notin Claimants(v, t)
    <3>1. id \in Own /\ Claims(d, v.net[id], t) /\ ~Claims(v.q.data[id], v.net[id], t)
      BY <1>2, <2>5 DEF Claimants
    <3>2. t = s
      BY <1>3, <3>1 DEF Claims, s
    <3>3. ~There(v, id, s)
      <4>1. SUFFICES ASSUME There(v, id, s) PROVE FALSE
        OBVIOUS
      <4>2. Clean(v.net[id]) /\ EngineCalm(v.q.data[id], v.net[id], HasData(v, id), id = NoEngine)
        BY <1>1, <3>1, CalmParts DEF Still
      <4>3. v.q.data[id].state # "disconnect"
        BY <1>1 DEF Book, DataOK, GoodData
      <4>4. v.net[id].server = s
        BY <4>1, <4>2, <4>3 DEF EngineCalm, There, IsConnected
      <4>5. Linked(v.net[id], s)
        BY <4>2, <4>4 DEF Linked, Clean
      <4> QED
        BY <3>1, <3>2, <4>5 DEF Claims
    <3>4. /\ ~LimitReached(v, s)
          /\ \A e \in Own : Idle(v, e, FALSE) => ~There(v, e, s)
      BY <1>6, <3>1, <3>2, <3>3, OwnIn DEF Starts, s
    <3>5. Claimants(v, s) \subseteq Having(v.q.data, FilesOf(s))
      BY <1>1, <1>6, <3>2, <3>4, ClaimsByFile DEF Claimants
    <3>6. v.q.busy[s] = Cardinality(Having(v.q.data, FilesOf(s)))
      BY <1>1, <3>2 DEF Book, CountsOK
    <3> DEFINE H == Having(v.q.data, FilesOf(s))
    <3>7. H \subseteq Engines /\ IsFiniteSet(H) /\ Cardinality(H) \in Nat
      BY EnginesFinite DEF Having
    <3>8. Cardinality(H) < Limit[s]
      BY <1>6, <2>1, <3>2, <3>4, <3>6, <3>7 DEF LimitReached, Connections
    <3> HIDE DEF H
    <3>9. Cardinality(H \cup {id}) =< Cardinality(H) + 1
      BY <3>7, FS_AddElement
    <3>10. Claimants(u, t) \subseteq H \cup {id}
      BY <2>2, <3>2, <3>5 DEF Claimants, H
    <3>11. H \cup {id} \subseteq Engines
      BY <1>1, <3>7
    <3>12. Cardinality(H \cup {id}) \in Nat /\ H \cup {id} \in SUBSET Engines
      BY <3>11, EnginesFinite
    <3>13. Cardinality(Claimants(u, t)) =< Cardinality(H \cup {id})
      BY <3>10, <3>12, FewerClaimants
    <3> QED
      BY <2>1, <2>3, <3>2, <3>7, <3>8, <3>9, <3>12, <3>13
  <2> QED
    BY <2>4, <2>5
<1> QED
  BY <1>2, <1>5, <1>6 DEF Room, u

LEMMA RoomOne ==
    ASSUME NEW w, Room(w), NEW u, NEW id \in Engines, u.tab.site = w.tab.site,
           \A e \in Engines \ {id} : u.q.data[e] = w.q.data[e] /\ u.net[e] = w.net[e],
           id \in Own => Yields(w.q.data[id], w.net[id], u.q.data[id], u.net[id], w.tab.site)
    PROVE  Room(u)
<1>1. ASSUME NEW e \in Own
      PROVE  Yields(w.q.data[e], w.net[e], u.q.data[e], u.net[e], w.tab.site)
  <2>1. CASE e = id
    BY <2>1
  <2>2. CASE e # id
    <3>1. u.q.data[e] = w.q.data[e] /\ u.net[e] = w.net[e]
      BY <2>2, OwnIn
    <3> QED
      BY <3>1 DEF Yields
  <2> QED
    BY <2>1, <2>2
<1> QED
  BY <1>1, RoomFrame

LEMMA HaltedRoom ==
    ASSUME NEW w, Book(w), NEW u, Halted(w, u), Room(w)
    PROVE  Room(u)
<1>1. w \in Worlds /\ w.tab \in TabRec
  BY WorldParts DEF Book
<1>2. u.tab.site = w.tab.site
  BY <1>1, ReleasedTwice DEF Halted, SameTab, GivesBack
<1>3. ASSUME NEW e \in Own
      PROVE  Yields(w.q.data[e], w.net[e], u.q.data[e], u.net[e], w.tab.site)
  <2>1. w.net[e] \in NetRec /\ e \in Engines
    BY <1>1, OwnIn, NetType
  <2>2. Alike(w.q.data[e], u.q.data[e]) /\ Cancelled(w.net[e], u.net[e])
    BY <2>1 DEF Halted
  <2>3. u.net[e].server = w.net[e].server /\ u.net[e].cmd = w.net[e].cmd
    BY <2>1, <2>2 DEF Cancelled, NetRec
  <2> QED
    BY <2>2, <2>3, YieldsSame DEF Alike
<1> QED
  BY <1>2, <1>3, RoomFrame

LEMMA ReleasedRoom ==
    ASSUME NEW w, Book(w), Room(w)
    PROVE  LET u == ReleaseEngine(w) IN Room(u) /\ u.tab.site = w.tab.site
<1> DEFINE u == ReleaseEngine(w)
<1>1. w \in Worlds /\ w.tab \in TabRec
  BY WorldParts DEF Book
<1>2. u.net = w.net /\ u.q = w.q
  BY <1>1, ReleaseSet
<1>3. u.tab.site = w.tab.site
  BY <1>1, ReleaseViews, ReleasedTwice
<1> HIDE DEF u
<1>4. Room(u)
  BY <1>2, <1>3, RoomSame
<1> QED
  BY <1>3, <1>4 DEF u

LEMMA ResetRoom ==
    ASSUME NEW w, Book(w), NEW id \in Engines, NEW reason \in Reasons, Room(w)
    PROVE  Room(Reset(w, id, reason))
<1> DEFINE u == Reset(w, id, reason)
           d == w.q.data[id]
<1>1. w \in Worlds /\ w.q.data \in [Engines -> DataRec] /\ d \in DataRec
  BY WorldParts, DataType DEF Book
<1>2. FreedData(w, u, id)
  BY <1>1, ResetViews
<1> HIDE DEF u
<1>3. u.tab.site = w.tab.site
  BY <1>2, ReleasedRoom DEF FreedData
<1>4. u.net = w.net /\ u.q.data[id] = Freed(d)
      /\ \A e \in Engines \ {id} : u.q.data[e] = w.q.data[e]
  BY <1>1, <1>2 DEF FreedData
<1>5. Freed(d).item = NoItem /\ Freed(d).state # "list"
  BY <1>1, FreedType
<1>6. Yields(d, w.net[id], u.q.data[id], u.net[id], w.tab.site)
  <2> HIDE DEF d
  <2> QED
    BY <1>4, <1>5 DEF Yields
<1> QED
  BY <1>3, <1>4, <1>6, RoomOne DEF u

LEMMA AdvancedRoom ==
    ASSUME NEW w, Book(w), Room(w)
    PROVE  LET a == AdvanceQueue(w) IN Book(a) /\ Room(a)
<1> DEFINE a == AdvanceQueue(w)
<1>1. /\ Book(a) /\ a.item = w.item /\ a.tab = w.tab /\ a.net = w.net
      /\ a.q.mode = w.q.mode /\ a.q.sending = w.q.sending /\ a.q.refused = w.q.refused
      /\ a.q.inside /\ SameEngines(w, a) /\ SameCounts(w, a) /\ SameLists(w, a)
  BY AdvancedViews
<1> HIDE DEF a
<1>2. Room(a)
  BY <1>1, RoomSame DEF SameEngines
<1> QED
  BY <1>1, <1>2 DEF a

LEMMA DoneRoom ==
    ASSUME NEW v, NEW id \in Engines, BookDecided(v, id), Room(v.w)
    PROVE  Room(Done(v, id))
<1> DEFINE w == v.w
<1>1. Book(w) /\ w \in Worlds /\ v.next \in Nexts
  BY DEF BookDecided, Book
<1>2. PICK y \in Engines \cup {NoEngine} : y = IF v.next = "send" THEN id ELSE NoEngine
  OBVIOUS
<1> DEFINE u == [w EXCEPT !.q.sending = y]
<1>3. LET s == [w EXCEPT !.q.sending = y]
      IN  /\ s \in Worlds
          /\ s.q = [w.q EXCEPT !.sending = y]
          /\ s.item = w.item /\ s.tab = w.tab /\ s.net = w.net
          /\ s.q.mode = w.q.mode /\ s.q.inside = w.q.inside /\ s.q.refused = w.q.refused
          /\ s.q.refreshed = w.q.refreshed /\ s.q.servers = w.q.servers
          /\ s.q.sending = y /\ SameEngines(w, s) /\ SameCounts(w, s) /\ SameLists(w, s)
  BY <1>1, SendingSet
<1>4. Book(u)
  BY <1>1, BookSets
<1>5. u.q.data = w.q.data /\ u.net = w.net /\ u.tab = w.tab
  BY <1>3 DEF SameEngines
<1>6. Done(v, id) = IF v.next \in {"alone", "send"} THEN u ELSE ResetEngine(u, id, v.next)
  BY <1>2 DEF Done
<1> HIDE DEF u
<1>7. Room(u)
  BY <1>5, RoomSame
<1>8. CASE v.next \in {"alone", "send"} \/ ~u.q.data[id].active
  BY <1>6, <1>7, <1>8 DEF ResetEngine, Data
<1>9. CASE v.next \notin {"alone", "send"} /\ u.q.data[id].active
  <2>1. v.next \in Reasons
    BY <1>1, <1>9 DEF Nexts
  <2> DEFINE z == Reset(u, id, v.next)
  <2>2. Book(z) /\ Room(z)
    BY <1>4, <1>7, <1>9, <2>1, ResetRoom, BookReset
  <2>3. Done(v, id) = AdvanceQueue(z)
    BY <1>6, <1>9 DEF ResetEngine, Data
  <2> HIDE DEF z
  <2>4. Room(AdvanceQueue(z))
    BY <2>2, AdvancedRoom
  <2> QED
    BY <2>3, <2>4
<1> QED
  BY <1>8, <1>9

LEMMA StateRoom ==
    ASSUME NEW w, Book(w), NEW id \in Engines, NEW s \in States, s # "list", Room(w)
    PROVE  Room(SetState(w, id, s))
<1> DEFINE u == SetState(w, id, s)
           d == w.q.data[id]
<1>1. w \in Worlds /\ w.q.data \in [Engines -> DataRec] /\ d \in DataRec
  BY WorldParts, DataType DEF Book
<1>2. /\ u \in Worlds /\ u.item = w.item /\ u.tab = w.tab /\ u.net = w.net
      /\ u.q.data = [w.q.data EXCEPT ![id] = WithState(w.q.data[id], s)]
      /\ u.q.engines = w.q.engines
      /\ SameMode(w, u) /\ SameLists(w, u) /\ SameCounts(w, u)
  BY <1>1, StateViews
<1> HIDE DEF u
<1>3. u.q.data[id] = WithState(d, s) /\ \A e \in Engines \ {id} : u.q.data[e] = w.q.data[e]
  BY <1>1, <1>2
<1>4. u.q.data[id].item = d.item /\ u.q.data[id].site = d.site /\ u.q.data[id].state = s
  BY <1>1, <1>3 DEF WithState, DataRec
<1>5. u.net[id].server = w.net[id].server /\ u.net[id].cmd = w.net[id].cmd
  BY <1>2
<1>6. Yields(d, w.net[id], u.q.data[id], u.net[id], w.tab.site)
  <2> HIDE DEF d
  <2> QED
    BY <1>4, <1>5, YieldsSame
<1> QED
  BY <1>2, <1>3, <1>6, RoomOne DEF u

LEMMA ExecutedRoom ==
    ASSUME NEW w, Book(w), NEW id \in Engines, NEW cmd \in Commands, NEW to \in Aims,
           w.net[id].cmd = "none" \/ cmd = "disconnect", Room(w)
    PROVE  Room(Execute(w, id, cmd, to))
<1> DEFINE u == Execute(w, id, cmd, to)
           n == w.net[id]
<1>1. w \in Worlds /\ w.net \in [Engines -> NetRec] /\ n \in NetRec
  BY WorldParts, NetType DEF Book
<1>2. /\ u \in Worlds /\ u.item = w.item /\ u.tab = w.tab /\ u.q = w.q
      /\ u.net = [w.net EXCEPT ![id] = Executing(w.net[id], cmd, to)]
  BY <1>1, ExecutedViews
<1> HIDE DEF u
<1>3. u.net[id] = Executing(n, cmd, to) /\ \A e \in Engines \ {id} : u.net[e] = w.net[e]
  BY <1>1, <1>2
<1>4. u.net[id].server = n.server /\ u.net[id].cmd = cmd
  BY <1>1, <1>3 DEF Executing, NetRec
<1>5. Yields(w.q.data[id], n, u.q.data[id], u.net[id], w.tab.site)
  <2> HIDE DEF n
  <2>1. n.cmd = "none" \/ cmd = "disconnect"
    BY DEF n
  <2> QED
    BY <1>2, <1>4, <2>1 DEF Yields
<1> QED
  BY <1>2, <1>3, <1>5, RoomOne DEF u

LEMMA FaultedRoom ==
    ASSUME NEW w, Book(w), NEW i \in Items, Room(w)
    PROVE  Room(Faulted(w, i))
<1> DEFINE u == Faulted(w, i)
<1>1. u.q = w.q /\ u.tab = w.tab /\ u.net = w.net
  BY BookFaulted
<1> HIDE DEF u
<1>2. Room(u)
  BY <1>1, RoomSame
<1> QED
  BY <1>2 DEF u

LEMMA AnsweredRoom ==
    ASSUME NEW w, Book(w), NEW id \in Engines, NEW r, NEW v, Answered(w, id, r, v), Room(w)
    PROVE  Room(v.w)
<1> DEFINE d == w.q.data[id]
<1>1. d.state \in {"connect", "disconnect", "transfer", "mkdir"} => d.item \in Items
  <2>1. GoodData(id, d)
    BY DEF Book, DataOK
  <2>2. d.state \in {"connect", "disconnect", "transfer", "mkdir"} => d.active
    BY <2>1 DEF GoodData
  <2> QED
    BY <2>2, ActiveHas
<1>2. "connect" \in States \ {"list"} /\ Work(d.item) \in States \ {"list"}
  BY WorkType DEF States
<1>3. CASE v.w = Deactivate(w)
  <2>1. Halted(w, Deactivate(w))
    BY DeactivateViews
  <2> QED
    BY <1>3, <2>1, HaltedRoom
<1>4. CASE v.w = w
  BY <1>4
<1>5. CASE d.item \in Items /\ v.w = Faulted(w, d.item)
  BY <1>5, FaultedRoom
<1>6. CASE \E s \in States \ {"list"} : v.w = SetState(w, id, s)
  BY <1>6, StateRoom
<1>7. \/ v.w \in {Deactivate(w), w}
      \/ d.item \in Items /\ v.w = Faulted(w, d.item)
      \/ \E s \in States \ {"list"} : v.w = SetState(w, id, s)
  BY <1>1, <1>2 DEF Answered
<1> QED
  BY <1>3, <1>4, <1>5, <1>6, <1>7

LEMMA SentRoom ==
    ASSUME NEW w, Book(w), NEW id \in Engines, w.q.data[id].item # NoItem,
           NEW v, SentNext(w, id, v), Room(w)
    PROVE  Room(v.w)
<1> DEFINE d == w.q.data[id]
<1>1. w \in Worlds /\ d \in DataRec /\ (d.state # "list" => d.item \in Items) /\ d.active
      /\ GoodData(id, d)
  BY ActiveHas, DataType DEF Book, DataOK
<1>2. d.item \in Items /\ d.state \in Commands \cup {"waitprimary"}
  BY <1>1 DEF GoodData, DataRec, States, Commands
<1>3. CASE v.w = RequestExclusiveEngine(w)
  <2> DEFINE u == RequestExclusiveEngine(w)
  <2>1. u.net = w.net /\ u.q = w.q /\ u.tab.site = w.tab.site
    BY <1>1, RequestSet
  <2> HIDE DEF u
  <2>2. Room(u)
    BY <2>1, RoomSame
  <2> QED
    BY <1>3, <2>2 DEF u
<1>4. CASE d.state # "waitprimary" /\ w.net[id].cmd = "none"
           /\ v.w = Execute(w, id, d.state, d.item)
  <2>1. d.state \in Commands /\ d.item \in Aims
    BY <1>2, <1>4 DEF Aims, Files
  <2> QED
    BY <1>4, <2>1, ExecutedRoom
<1>5. CASE \E s \in {"connect", "disconnect"} : v.w = SetState(w, id, s)
  <2>1. \A s \in {"connect", "disconnect"} : s \in States /\ s # "list"
    BY DEF States
  <2> QED
    BY <1>5, <2>1, StateRoom
<1>6. CASE \E y : /\ y = w \/ y = [w EXCEPT !.q.refused = TRUE]
                  /\ v.w = Faulted(y, d.item) \/ v.w = y
  <2>1. PICK y : /\ y = w \/ y = [w EXCEPT !.q.refused = TRUE]
                 /\ v.w = Faulted(y, d.item) \/ v.w = y
    BY <1>6
  <2>2. Book(y) /\ y.q.data = w.q.data /\ y.tab = w.tab /\ y.net = w.net
    <3>1. CASE y = w
      BY <3>1
    <3>2. CASE y = [w EXCEPT !.q.refused = TRUE]
      BY <3>2, BookRefused
    <3> QED
      BY <2>1, <3>1, <3>2
  <2>3. Room(y)
    BY <2>2, RoomSame
  <2> QED
    BY <1>2, <2>1, <2>2, <2>3, FaultedRoom
<1> QED
  BY <1>3, <1>4, <1>5, <1>6 DEF SentNext

LEMMA GrantedRoom ==
    ASSUME NEW w, Book(w), Room(w)
    PROVE  Room(Granted(w).w)
<1> DEFINE v == Granted(w)
           d == w.q.data[TabEngine]
<1>1. TabEngine \in Engines
  BY OwnIn
<1>2. d = Data(w, TabEngine)
  BY DEF Data
<1>3. Work(d.item) \in States /\ Work(d.item) # "list"
  BY WorkType DEF States
<1>4. v.w \in {ReleaseEngine(w), w, SetState(w, TabEngine, Work(d.item))}
  BY <1>2 DEF Granted, Decide
<1>5. Room(ReleaseEngine(w)) /\ Room(SetState(w, TabEngine, Work(d.item)))
  BY <1>1, <1>3, ReleasedRoom, StateRoom
<1> QED
  BY <1>4, <1>5

-----------------------------------------------------------------------------
(* The tab stays where it is.                                              *)
Fixed == Undisturbed /\ "tab" \notin env
RoomInv == Fixed => \E w \in {World} : Room(w)

LEMMA RoomWorld ==
    ASSUME RoomInv, Fixed
    PROVE  Room(World)
BY DEF RoomInv

LEMMA RoomBecomes ==
    ASSUME NEW w, Book(w), Becomes(w), UNCHANGED env, Fixed => Room(w)
    PROVE  RoomInv'
<1>1. World' = w
  BY Becoming DEF Book
<1> QED
  BY <1>1 DEF RoomInv, Fixed, Undisturbed

LEMMA SendNextCommandRoom ==
    ASSUME BookInv, RoomInv, SendNextCommand
    PROVE  RoomInv'
<1> DEFINE w == World
           id == w.q.sending
           v == SendRound(w, id)
<1>1. Book(w) /\ SendingOK(w) /\ w \in Worlds /\ w.q = q
  BY InvWorld
<1>2. id # NoEngine /\ Becomes(Done(v, id)) /\ UNCHANGED env
  BY <1>1 DEF SendNextCommand
<1>3. id \in Engines /\ w.q.data[id].item # NoItem
  BY <1>1, <1>2, QueueType DEF SendingOK
<1>4. Fixed => Room(w)
  BY RoomWorld
<1> HIDE DEF w, id
<1>5. SentNext(w, id, v)
  BY <1>1, <1>3, RoundSent
<1> HIDE DEF v
<1>6. BookDecided(v, id) /\ (Fixed => Room(v.w))
  BY <1>1, <1>3, <1>4, <1>5, BookSent, SentRoom
<1>7. Book(Done(v, id)) /\ (Fixed => Room(Done(v, id)))
  BY <1>3, <1>6, BookDone, DoneRoom
<1> QED
  BY <1>2, <1>7, RoomBecomes

LEMMA StartNextTransferRoom ==
    ASSUME BookInv, CalmInv, RoomInv, StartNextTransfer
    PROVE  RoomInv'
<1> DEFINE w == World
           t == TryStartNextTransfer(w)
<1>1. Book(w) /\ w.q = q
  BY InvWorld
<1>2. w.q.sending = NoEngine /\ w.q.inside /\ UNCHANGED env
      /\ Becomes(IF t.ok THEN t.w ELSE AdvanceQueueEnds(t.w))
  BY <1>1 DEF StartNextTransfer
<1>3. Fixed => Room(w) /\ Calm(w, NoEngine) /\ Still(w)
  BY <1>2, RoomWorld, CalmWorld DEF Peace, Fixed
<1> HIDE DEF w
<1>4. /\ t.ok \in BOOLEAN
      /\ ~t.ok => Grown(w, t.w)
      /\ t.ok => /\ w.q.mode # 0
                 /\ \E v, i, id : Grown(w, v) /\ Starts(v, i, id) /\ t.w = Assign(v, i, id)
  BY <1>1, TryStart
<1> HIDE DEF t
<1>5. CASE t.ok
  <2>1. PICK v, i, id : Grown(w, v) /\ Starts(v, i, id) /\ t.w = Assign(v, i, id)
    BY <1>4, <1>5
  <2>2. Fixed => Room(v) /\ Calm(v, NoEngine) /\ Still(v)
    BY <1>1, <1>3, <2>1, GrownRoom, GrownCalm
  <2> DEFINE u == Assign(v, i, id)
  <2>3. Book(u) /\ (Fixed => Room(u))
    BY <2>1, <2>2, AssignSends, AssignRoom
  <2>4. Becomes(u)
    BY <1>2, <1>5, <2>1
  <2> HIDE DEF u
  <2> QED
    BY <1>2, <2>3, <2>4, RoomBecomes
<1>6. CASE ~t.ok
  <2> DEFINE x == t.w
             u == AdvanceQueueEnds(x)
  <2>1. Grown(w, x)
    BY <1>4, <1>6
  <2>2. Becomes(u)
    BY <1>2, <1>6
  <2> HIDE DEF x
  <2>3. Book(x) /\ (Fixed => Room(x))
    BY <1>1, <1>3, <2>1, GrownRoom DEF Grown
  <2>4. Settled(x, u)
    BY <2>3, EndsViews
  <2> HIDE DEF u
  <2>5. Book(u) /\ (Fixed => Room(u))
    BY <2>3, <2>4, SettledRoom DEF Settled
  <2> QED
    BY <1>2, <2>2, <2>5, RoomBecomes
<1> QED
  BY <1>4, <1>5, <1>6

(* A reply is taken from its engine.                                       *)
LEMMA EmptiedRoom ==
    ASSUME NEW w \in Worlds, NEW id \in Engines, w.net[id].inbox # <<>>, Room(w),
           NEW u, u.q.data = w.q.data, u.tab.site = w.tab.site,
           u.net = [w.net EXCEPT ![id] = Emptier(w.net[id])]
    PROVE  Room(u)
<1> DEFINE n == w.net[id]
<1>1. n \in NetRec /\ u.net[id] = Emptier(n) /\ \A e \in Engines \ {id} : u.net[e] = w.net[e]
  BY WorldParts, NetType
<1>2. u.net[id].server = n.server /\ u.net[id].cmd = n.cmd
  BY <1>1, EmptierType
<1>3. Yields(w.q.data[id], n, u.q.data[id], u.net[id], w.tab.site)
  <2> HIDE DEF n
  <2> QED
    BY <1>2, YieldsSame
<1> QED
  BY <1>1, <1>3, RoomOne

LEMMA OnEngineEventRoom ==
    ASSUME BookInv, RoomInv, NEW id \in Engines, OnEngineEvent(id)
    PROVE  RoomInv'
<1> DEFINE w == World
           u == Received(w, id)
           r == Head(net[id].inbox)
           v == ProcessReply(u, id, r)
           lent == id = TabEngine /\ ~(HasData(w, id) /\ Data(w, id).active)
<1>1. Book(w) /\ w \in Worlds /\ w.net = net
  BY InvWorld
<1>2. /\ w.net[id].inbox # <<>> /\ UNCHANGED env
      /\ Becomes(IF lent THEN u ELSE Done(v, id))
  BY <1>1 DEF OnEngineEvent, HasReply
<1>3. Fixed => Room(w)
  BY RoomWorld
<1> HIDE DEF w, r, lent
<1>4. /\ Book(u) /\ u.q = w.q /\ u.item = w.item /\ u.tab = w.tab
      /\ u.net = [w.net EXCEPT ![id] = Emptier(w.net[id])]
  BY <1>1, <1>2, BookReceived
<1> HIDE DEF u
<1>5. Fixed => Room(u)
  BY <1>1, <1>2, <1>3, <1>4, EmptiedRoom
<1>6. CASE lent
  BY <1>2, <1>4, <1>5, <1>6, RoomBecomes
<1>7. CASE ~lent
  <2>1. Answered(u, id, r, v)
    BY <1>4, ReplyAnswered
  <2> HIDE DEF v
  <2>2. BookDecided(v, id) /\ (Fixed => Room(v.w))
    BY <1>4, <1>5, <2>1, BookAnswered, AnsweredRoom
  <2>3. Book(Done(v, id)) /\ (Fixed => Room(Done(v, id)))
    BY <2>2, BookDone, DoneRoom
  <2> QED
    BY <1>2, <1>7, <2>3, RoomBecomes
<1> QED
  BY <1>6, <1>7

LEMMA FinishRoom ==
    ASSUME BookInv, RoomInv, Finish
    PROVE  RoomInv'
<1> DEFINE w == World
           u == TabEnds(w)
           z == IF tab.wants THEN GrantExclusiveEngineRequest(u) ELSE u
<1>1. Book(w) /\ w \in Worlds /\ w.net = net /\ w.tab = tab /\ w.tab \in TabRec
  BY InvWorld, WorldParts
<1>2. w.net[TabEngine].inbox # <<>> /\ Becomes(z) /\ UNCHANGED env
  BY <1>1 DEF Finish, HasReply
<1>3. Fixed => Room(w)
  BY RoomWorld
<1> HIDE DEF w
<1>4. /\ Book(u) /\ u.item = w.item /\ u.q.data = w.q.data /\ u.q.engines = w.q.engines
      /\ u.q.sending = w.q.sending /\ u.q.inside = w.q.inside /\ u.q.mode = w.q.mode
      /\ u.q.refused = w.q.refused
      /\ u.tab = TabAfter(w.tab, Head(w.net[TabEngine].inbox))
      /\ u.net = [w.net EXCEPT ![TabEngine] = Emptier(w.net[TabEngine])]
      /\ u.q.busy = w.q.busy
  BY <1>1, <1>2, BookTabEnds
<1> HIDE DEF u
<1>5. u.tab.site = w.tab.site
  BY <1>1, <1>4, TabAfterType
<1>6. Fixed => Room(u)
  BY <1>1, <1>2, <1>3, <1>4, <1>5, EmptiedRoom, OwnIn
<1>7. Book(z) /\ z.q = u.q /\ z.net = u.net /\ z.tab.site = u.tab.site
  <2> DEFINE g == GrantExclusiveEngineRequest(u)
  <2>1. u \in Worlds /\ u.tab \in TabRec /\ Book(g)
    BY <1>4, BookRelease, WorldParts DEF Book
  <2>2. g.tab.site = u.tab.site /\ g.q = u.q /\ g.net = u.net
    BY <2>1, GrantSet DEF TabRec
  <2> HIDE DEF g
  <2> QED
    BY <1>4, <2>1, <2>2 DEF g
<1> HIDE DEF z
<1>8. Fixed => Room(z)
  BY <1>6, <1>7, RoomSame
<1> QED
  BY <1>2, <1>7, <1>8, RoomBecomes

LEMMA OnExclusiveEngineRequestGrantedRoom ==
    ASSUME BookInv, RoomInv, OnExclusiveEngineRequestGranted
    PROVE  RoomInv'
<1> DEFINE t == Popped(tab)
           w == [World EXCEPT !.tab = t]
           v == Granted(w)
           to == tab.lock /\ Head(tab.grants) = tab.id
<1>1. Book(World) /\ World \in Worlds /\ World.tab = tab
  BY InvWorld
<1>2. [World EXCEPT !.tab.grants = Tail(tab.grants)] = w
  BY <1>1 DEF Popped, Worlds
<1>3. tab.grants # <<>> /\ UNCHANGED env
      /\ Becomes(IF to THEN Done(v, TabEngine) ELSE w)
  <2> HIDE DEF w
  <2> QED
    BY <1>2 DEF OnExclusiveEngineRequestGranted
<1>4. tab \in TabRec
  BY <1>1, WorldParts
<1>5. /\ t \in TabRec /\ t.site = tab.site /\ t.cmd = tab.cmd
      /\ t.lock = tab.lock /\ t.wants = tab.wants
      /\ t.listing = tab.listing /\ t.id = tab.id
  BY <1>3, <1>4, PoppedType
<1> HIDE DEF t, to
<1>6. Book(w) /\ w.q = World.q /\ w.item = World.item /\ w.net = World.net /\ w.tab = t
  BY <1>1, <1>5, BookTab
<1> HIDE DEF w
<1>7. Fixed => Room(w)
  BY <1>1, <1>5, <1>6, RoomWorld, RoomSame
<1>8. CASE to
  <2>1. BookDecided(v, TabEngine) /\ (Fixed => Room(v.w))
    BY <1>6, <1>7, BookGranted, GrantedRoom
  <2> HIDE DEF v
  <2>2. Book(Done(v, TabEngine)) /\ (Fixed => Room(Done(v, TabEngine)))
    BY <2>1, BookDone, DoneRoom, OwnIn
  <2> QED
    BY <1>3, <1>8, <2>2, RoomBecomes
<1>9. CASE ~to
  BY <1>3, <1>6, <1>7, <1>9, RoomBecomes
<1> QED
  BY <1>8, <1>9

LEMMA QueueFileRoom ==
    ASSUME BookInv, RoomInv, QueueFile
    PROVE  RoomInv'
<1>1. Book(World) /\ World \in Worlds
  BY InvWorld
<1>2. PICK i \in Items, queueOnly \in BOOLEAN :
         \E w \in {Queued(World, i, queueOnly)} :
            item[i].where = "out" /\ Becomes(IF w.q.mode # 0 THEN AdvanceQueue(w) ELSE w)
  BY DEF QueueFile
<1> DEFINE w == Queued(World, i, queueOnly)
<1>3. UNCHANGED env /\ item[i].where = "out" /\ (Becomes(w) \/ Becomes(AdvanceQueue(w)))
  BY <1>2 DEF QueueFile
<1>4. Book(w)
  BY <1>1, <1>3, BookQueued, InvWorld
<1>5. /\ w \in Worlds /\ SameEngines(World, w) /\ SameCounts(World, w)
      /\ w.tab = World.tab /\ w.net = World.net
      /\ w.item[i] = [World.item[i] EXCEPT !.where = "queue"]
      /\ \A j \in Items \ {i} : w.item[j] = World.item[j]
      /\ \A s \in Sites, j \in Items :
           Listed(w, s, j) <=> Listed(World, s, j) \/ (s = SiteOf[i] /\ j = i)
      /\ w.q.sending = World.q.sending /\ w.q.inside = World.q.inside
      /\ w.q.refused = World.q.refused
      /\ w.q.mode = World.q.mode \/ w.q.mode = 1
  BY <1>1, QueuedViews
<1> HIDE DEF w
<1>6. Fixed => Room(w)
  BY <1>5, RoomWorld, RoomSame DEF SameEngines
<1>7. Book(AdvanceQueue(w)) /\ (Fixed => Room(AdvanceQueue(w)))
  BY <1>4, <1>6, AdvancedRoom, AdvancedHalt
<1> QED
  BY <1>3, <1>4, <1>6, <1>7, RoomBecomes

LEMMA SetActiveRoom ==
    ASSUME BookInv, RoomInv, SetActive
    PROVE  RoomInv'
<1>1. Book(World) /\ World \in Worlds
  BY InvWorld
<1>2. PICK mode \in 0 .. 2 : mode = 2
  OBVIOUS
<1> DEFINE w == [World EXCEPT !.q.mode = mode]
<1>3. UNCHANGED env /\ Becomes(AdvanceQueue(w))
  BY <1>2 DEF SetActive, Event
<1>4. Book(w)
  BY <1>1, BookSets
<1>5. /\ w \in Worlds
      /\ w.q = [World.q EXCEPT !.mode = mode]
      /\ w.item = World.item /\ w.tab = World.tab /\ w.net = World.net
      /\ w.q.inside = World.q.inside /\ w.q.sending = World.q.sending /\ w.q.refused = World.q.refused
      /\ w.q.refreshed = World.q.refreshed /\ w.q.servers = World.q.servers
      /\ w.q.mode = mode /\ SameEngines(World, w) /\ SameCounts(World, w) /\ SameLists(World, w)
  BY <1>1, ModeSet, Zenon
<1> HIDE DEF w
<1>6. Fixed => Room(w)
  BY <1>5, RoomWorld, RoomSame DEF SameEngines
<1>7. Book(AdvanceQueue(w)) /\ (Fixed => Room(AdvanceQueue(w)))
  BY <1>4, <1>6, AdvancedRoom, AdvancedHalt
<1> QED
  BY <1>3, <1>7, RoomBecomes

LEMMA StopRoom ==
    ASSUME BookInv, RoomInv, Stop
    PROVE  RoomInv'
<1> DEFINE w == World
           u == Deactivate(w)
<1>1. Book(w) /\ UNCHANGED env /\ Becomes(u)
  BY InvWorld DEF Stop, Event
<1>2. Fixed => Room(w)
  BY RoomWorld
<1> HIDE DEF w
<1>3. Halted(w, u)
  BY <1>1, DeactivateViews
<1> HIDE DEF u
<1>4. Book(u) /\ (Fixed => Room(u))
  BY <1>1, <1>2, <1>3, HaltedRoom DEF Halted
<1> QED
  BY <1>1, <1>4, RoomBecomes

LEMMA RemoveAllRoom ==
    ASSUME BookInv, RoomInv, RemoveAll
    PROVE  RoomInv'
<1> DEFINE w == World
           x == Emptied(w)
           u == CheckQueueState(x)
<1>1. Book(w) /\ w \in Worlds
  BY InvWorld
<1>2. UNCHANGED env /\ Becomes(u)
  BY DEF RemoveAll, Event
<1>3. Fixed => Room(w)
  BY RoomWorld
<1> HIDE DEF w
<1>4. Book(x)
  BY <1>1, BookEmptied
<1>5. /\ x \in Worlds /\ SameRest(w, x)
      /\ x.item = [i \in Items |-> LeftIn(w, i)]
      /\ \A s \in Sites, j \in Items : Listed(x, s, j) <=> Listed(w, s, j) /\ j \in Kept(w)
  BY <1>1, EmptiedViews
<1> HIDE DEF x
<1>6. x.q.data = w.q.data /\ x.net = w.net /\ x.tab.site = w.tab.site
  BY <1>5 DEF SameRest, SameEngines
<1>7. Fixed => Room(x)
  BY <1>3, <1>6, RoomSame
<1>8. Settled(x, u)
  BY <1>4, CheckViews
<1> HIDE DEF u
<1>9. Book(u) /\ (Fixed => Room(u))
  BY <1>4, <1>7, <1>8, SettledRoom DEF Settled
<1> QED
  BY <1>2, <1>9, RoomBecomes

LEMMA StopItemRoom ==
    ASSUME NEW w, Book(w), Room(w), NEW i \in Items, w.item[i].active, w.q.sending = NoEngine
    PROVE  LET u == StopItem(ToBeRemoved(w, i), i) IN Book(u) /\ Room(u)
<1> DEFINE x == ToBeRemoved(w, i)
           id == CHOOSE k \in Engines : Data(x, k).item = i
           v == QueueImmediateFile(x, i)
           u == StopItem(x, i)
<1>1. /\ Book(x) /\ x.q = w.q /\ x.tab = w.tab /\ x.net = w.net
      /\ \A j \in Items : /\ x.item[j].active = w.item[j].active
                          /\ x.item[j].where = w.item[j].where
                          /\ x.item[j].sent = w.item[j].sent
  BY BookToBeRemoved
<1> HIDE DEF x
<1>2. id \in Engines
  <2>1. \E k \in Engines : x.q.data[k].item = i
    BY <1>1, ActiveQueued
  <2> QED
    BY <2>1 DEF Data
<1>3. Book(u)
  BY <1>1, BookStopItem
<1>4. u = ResetEngine(v, id, "remove") \/ u = CancelEngine(v, id)
  BY DEF StopItem
<1> HIDE DEF id, u
<1>5. Book(v) /\ v.item = x.item /\ SameRest(x, v)
  BY <1>1, BookPutBack
<1> HIDE DEF v
<1>6. v.q.data = w.q.data /\ v.net = w.net /\ v.tab.site = w.tab.site
  BY <1>1, <1>5 DEF SameRest, SameEngines
<1>7. Room(v)
  BY <1>6, RoomSame
<1>8. CASE u = CancelEngine(v, id)
  <2>1. /\ Book(u) /\ u.q = v.q /\ u.item = v.item /\ u.tab = v.tab
        /\ \A e \in Engines : Cancelled(v.net[e], u.net[e])
    BY <1>2, <1>5, <1>8, BookCancel
  <2>2. ASSUME NEW e \in Own
        PROVE  Yields(v.q.data[e], v.net[e], u.q.data[e], u.net[e], v.tab.site)
    <3>1. v.net[e] \in NetRec /\ Cancelled(v.net[e], u.net[e])
      BY <1>5, <2>1, OwnIn, NetType DEF Book
    <3>2. u.net[e].server = v.net[e].server /\ u.net[e].cmd = v.net[e].cmd
      BY <3>1 DEF Cancelled, NetRec
    <3> QED
      BY <2>1, <3>2, YieldsSame
  <2>3. Room(u)
    BY <1>7, <2>1, <2>2, RoomFrame
  <2> QED
    BY <1>3, <2>3 DEF u, x
<1>9. CASE u = ResetEngine(v, id, "remove")
  <2>1. PICK reason \in Reasons : reason = "remove"
    BY DEF Reasons
  <2>2. CASE ~v.q.data[id].active
    <3>1. u = v
      BY <1>9, <2>2 DEF ResetEngine, Data
    <3> QED
      BY <1>3, <1>7, <3>1 DEF u, x
  <2>3. CASE v.q.data[id].active
    <3> DEFINE z == Reset(v, id, reason)
    <3>1. Room(z) /\ Book(z)
      BY <1>2, <1>5, <1>7, <2>3, ResetRoom, BookReset
    <3>2. u = AdvanceQueue(z)
      BY <1>9, <2>1, <2>3 DEF ResetEngine, Data
    <3> HIDE DEF z
    <3>3. Room(u)
      BY <3>1, <3>2, AdvancedRoom
    <3> QED
      BY <1>3, <3>3 DEF u, x
  <2> QED
    BY <2>2, <2>3
<1> QED
  BY <1>4, <1>8, <1>9

LEMMA OnRemoveSelectedRoom ==
    ASSUME BookInv, RoomInv, OnRemoveSelected
    PROVE  RoomInv'
<1> DEFINE w == World
<1>1. Book(w) /\ w.q = q /\ w.item = item
  BY InvWorld
<1>2. UNCHANGED env /\ w.q.sending = NoEngine
  BY <1>1, HandlerQuiet DEF OnRemoveSelected, Event
<1>3. PICK i \in Items :
         Becomes(IF w.item[i].active THEN StopItem(ToBeRemoved(w, i), i)
                 ELSE RemoveItem(w, i, "gone"))
  BY <1>1 DEF OnRemoveSelected
<1>4. CASE ~Fixed
  BY <1>2, <1>4 DEF RoomInv, Fixed, Undisturbed
<1>5. CASE Fixed
  <2>1. Room(w)
    BY <1>5, RoomWorld
  <2> HIDE DEF w
  <2>2. PICK u : u = IF w.item[i].active THEN StopItem(ToBeRemoved(w, i), i)
                     ELSE RemoveItem(w, i, "gone")
    OBVIOUS
  <2>3. Book(u) /\ Room(u)
    <3>1. CASE w.item[i].active
      BY <1>1, <1>2, <2>1, <2>2, <3>1, StopItemRoom
    <3>2. CASE ~w.item[i].active
      <4>1. PICK p \in Places : p = "gone"
        BY DEF Places
      <4>2. Book(u) /\ SameRest(w, u)
        BY <1>1, <2>2, <3>2, <4>1, BookRemoved
      <4>3. Room(u)
        BY <2>1, <4>2, RoomSame DEF SameRest, SameEngines
      <4> QED
        BY <4>2, <4>3
    <3> QED
      BY <3>1, <3>2
  <2>4. Becomes(u)
    BY <1>3, <2>2
  <2> QED
    BY <1>2, <2>3, <2>4, RoomBecomes
<1> QED
  BY <1>4, <1>5

LEMMA OnTimerRoom ==
    ASSUME BookInv, RoomInv, OnTimer
    PROVE  RoomInv'
<1> DEFINE w == World
<1>1. Book(w) /\ w \in Worlds /\ w.q = q /\ w.net = net
  BY InvWorld
<1>2. UNCHANGED env
  BY DEF OnTimer, Event
<1>3. PICK id \in Engines :
         \E x \in {WithData(w, id, [q.data[id] EXCEPT !.timer = FALSE])} :
            /\ q.data[id].timer
            /\ "race" \in env \/ net[id].inbox = <<>>
            /\ Becomes(IF IsConnected(x, id) /\ Precondition(x, id, "disconnect") # "busy"
                       THEN Execute(x, id, "disconnect", NoItem) ELSE x)
  BY DEF OnTimer
<1> DEFINE x == WithData(w, id, Untimed(w.q.data[id]))
           u == Execute(x, id, "disconnect", NoItem)
<1>4. w.q.data[id].timer /\ (Becomes(u) \/ Becomes(x))
  BY <1>1, <1>3 DEF Untimed
<1>5. Fixed => Room(w)
  BY RoomWorld
<1>6. w.q.data \in [Engines -> DataRec] /\ w.q.data[id] \in DataRec
  BY <1>1, WorldParts, DataType
<1> HIDE DEF w
<1>7. /\ Book(x) /\ x.item = w.item /\ x.tab = w.tab /\ x.net = w.net
      /\ x.q.data = [w.q.data EXCEPT ![id] = Untimed(w.q.data[id])]
      /\ x.q.engines = w.q.engines
      /\ x.q.sending = w.q.sending /\ x.q.mode = w.q.mode /\ x.q.inside = w.q.inside
      /\ x.q.refused = w.q.refused
  BY <1>1, <1>4, BookUntimed
<1> HIDE DEF x
<1>8. Fixed => Room(x)
  <2>1. x.q.data[id] = Untimed(w.q.data[id])
        /\ \A e \in Engines \ {id} : x.q.data[e] = w.q.data[e]
    BY <1>6, <1>7
  <2>2. x.q.data[id].item = w.q.data[id].item /\ x.q.data[id].site = w.q.data[id].site
        /\ x.q.data[id].state = w.q.data[id].state
    BY <1>6, <2>1, UntimedType
  <2>3. Yields(w.q.data[id], w.net[id], x.q.data[id], x.net[id], w.tab.site)
    BY <1>7, <2>2, YieldsSame
  <2> QED
    BY <1>5, <1>7, <2>1, <2>3, RoomOne
<1>9. CASE Becomes(x)
  BY <1>2, <1>7, <1>8, <1>9, RoomBecomes
<1>10. CASE Becomes(u)
  <2>1. PICK cmd \in Commands, to \in Aims : cmd = "disconnect" /\ to = NoItem
    BY DEF Commands, Aims, Files
  <2>2. u = Execute(x, id, cmd, to)
    BY <2>1
  <2> HIDE DEF u
  <2>3. Book(u) /\ (Fixed => Room(u))
    BY <1>7, <1>8, <2>1, <2>2, BookExecute, ExecutedRoom
  <2> QED
    BY <1>2, <1>10, <2>3, RoomBecomes
<1> QED
  BY <1>4, <1>9, <1>10

LEMMA TabCommandRoom ==
    ASSUME TabCommand
    PROVE  RoomInv'
<1>1. "tab" \in env /\ UNCHANGED env
  BY DEF TabCommand, Event
<1> QED
  BY <1>1 DEF RoomInv, Fixed

(* An engine connects to the site of its file only.                        *)
LEMMA MovesRoom ==
    ASSUME BookInv, CalmInv, RoomInv, NEW id \in Engines, NEW m, EngineMoves(id, net[id], m)
    PROVE  RoomInv'
<1> SUFFICES ASSUME Fixed', NEW u, u = World' PROVE Room(u)
  BY DEF RoomInv
<1> DEFINE w == World
           d == w.q.data[id]
           n == w.net[id]
           h == w.q.sending
<1>1. Book(w) /\ w \in Worlds /\ w.q = q /\ w.tab = tab /\ w.net = net
  BY InvWorld
<1>2. Fixed /\ Undisturbed
  BY DEF EngineMoves, Undisturbed, Fixed
<1>3. Calm(w, h) /\ Room(w)
  BY <1>2, CalmWorld, RoomWorld DEF Peace
<1>4. n \in NetRec /\ w.net \in [Engines -> NetRec]
  BY <1>1, NetType, WorldParts
<1>5. u.q = w.q /\ u.tab = w.tab /\ u.net = [w.net EXCEPT ![id] = m]
  BY <1>1 DEF World, EngineMoves, Change
<1>6. Begins(n, m, Target(id)) \/ Ends(n, m)
  BY <1>1 DEF EngineMoves
<1>7. u.net[id] = m /\ \A e \in Engines \ {id} : u.net[e] = w.net[e]
  BY <1>4, <1>5
<1>8. Listers(u)
  BY <1>3, <1>5 DEF Room, Listers
<1>9. ASSUME id \in Own, n.cmd = "connect"
      PROVE  d.item # NoItem /\ Target(id) = SiteOf[d.item]
  <2>1. id # TabEngine /\ n.to \in Items
    BY <1>1, <1>9, NetOf DEF Own
  <2>2. EngineCalm(d, n, HasData(w, id), id = h)
    BY <1>3, <1>9, CalmParts
  <2>3. n.to = d.item
    BY <1>9, <2>2 DEF EngineCalm, Clean, Due
  <2>4. Target(id) = SiteOf[n.to]
    BY <1>1, <2>1 DEF Target
  <2> QED
    BY <2>1, <2>3, <2>4, QueueAssumption
<1> HIDE DEF w
<1>10. ASSUME NEW s \in Sites, id \in Own, Claims(d, m, s)
       PROVE  Claims(d, n, s)
  <2> HIDE DEF d, n
  <2>1. CASE Linked(m, s) /\ Begins(n, m, Target(id))
    BY <1>9, <1>10, <2>1 DEF Claims, Linked, Begins
  <2>2. CASE Linked(m, s) /\ Ends(n, m)
    BY <2>2, QueueAssumption DEF Claims, Linked, Ends
  <2>3. CASE ~Linked(m, s)
    BY <1>10, <2>3 DEF Claims
  <2> QED
    BY <1>6, <2>1, <2>2, <2>3
<1>11. ASSUME NEW e \in Own, NEW s \in Sites, Claims(u.q.data[e], u.net[e], s)
       PROVE  Claims(w.q.data[e], w.net[e], s)
  <2>1. CASE e = id
    <3>1. Claims(d, m, s)
      BY <1>5, <1>7, <1>11, <2>1
    <3> QED
      BY <1>10, <2>1, <3>1
  <2>2. CASE e # id
    <3>1. u.net[e] = w.net[e]
      BY <1>7, <2>2, OwnIn
    <3> QED
      BY <1>5, <1>11, <3>1
  <2> QED
    BY <2>1, <2>2
<1> QED
  BY <1>3, <1>5, <1>8, <1>11, RoomLess

LEMMA EngineStepsRoom ==
    ASSUME BookInv, CalmInv, RoomInv, NEW id \in Engines, EngineSteps(id)
    PROVE  RoomInv'
<1>1. CASE Undisturbed
  BY <1>1, EngineStepsMove, MovesRoom
<1>2. CASE ~Undisturbed
  <2>1. UNCHANGED env
    BY DEF EngineSteps, EngineBegins, EngineSucceeds, EngineFails, EngineCancels, EngineCancelsLate
  <2> QED
    BY <1>2, <2>1 DEF RoomInv, Fixed, Undisturbed
<1> QED
  BY <1>1, <1>2

LEMMA InitRoom ==
    ASSUME Init
    PROVE  RoomInv
<1> DEFINE w == World
           d == NewData("none")
<1>1. w.q = q /\ w.net = net /\ q.data = [id \in Engines |-> d]
  BY DEF Init, World
<1>2. \A id \in Engines : net[id].server = IF id = TabEngine THEN tab.site ELSE NoSite
  BY DEF Init
<1>3. d.state = "none" /\ d.item = NoItem
  BY DEF NewData
<1> HIDE DEF w, d
<1>4. \A e \in Own : w.q.data[e] = d /\ w.net[e].server = NoSite
  BY <1>1, <1>2, OwnIn
<1>5. Listers(w)
  BY <1>3, <1>4 DEF Listers
<1>6. ASSUME NEW s \in Sites
      PROVE  Cardinality(Claimants(w, s)) =< Limit[s]
  <2>1. Claimants(w, s) = {}
    BY <1>3, <1>4, QueueAssumption DEF Claimants, Claims, Linked
  <2>2. Cardinality({}) = 0
    BY FS_EmptySet
  <2> QED
    BY <2>1, <2>2, QueueAssumption
<1>7. Room(w)
  BY <1>5, <1>6 DEF Room
<1> QED
  BY <1>7 DEF RoomInv, w

LEMMA NextRoom ==
    ASSUME BookInv, CalmInv, RoomInv, [Next]_vars
    PROVE  RoomInv'
<1>1. ASSUME Interface PROVE RoomInv'
  BY <1>1, SendNextCommandRoom, StartNextTransferRoom, FinishRoom,
     OnExclusiveEngineRequestGrantedRoom, OnEngineEventRoom DEF Interface
<1>2. ASSUME UNCHANGED vars PROVE RoomInv'
  BY <1>2 DEF vars, RoomInv, Fixed, Undisturbed, World
<1> QED
  BY <1>1, <1>2, EngineStepsRoom, QueueFileRoom, SetActiveRoom, StopRoom, OnRemoveSelectedRoom,
     RemoveAllRoom, OnTimerRoom, TabCommandRoom DEF Next

(* Undisturbed, while the tab stays at its site, the engines of the queue  *)
(* never have more connections to another site than it allows, those left  *)
(* over from earlier transfers included: the code counts the files of a    *)
(* site that have an engine, not the connections, and gives a file to an   *)
(* engine without a connection to its site only when no idle one has it.   *)
THEOREM WithinLimit == Spec => [](Undisturbed => LimitKept)
<1>1. Init => BookInv /\ CalmInv /\ RoomInv
  BY InitBook, InitCalm, InitRoom
<1>2. BookInv /\ CalmInv /\ RoomInv /\ [Next]_vars => (BookInv /\ CalmInv /\ RoomInv)'
  BY NextBook, NextCalm, NextRoom
<1>3. BookInv /\ RoomInv => (Undisturbed => LimitKept)
  <2> SUFFICES ASSUME BookInv, RoomInv, Undisturbed, NEW s \in Sites, Limit[s] # 0,
                      "tab" \notin env, tab.site # s
               PROVE  Cardinality({id \in Engines \ {TabEngine} :
                                     net[id].server = s /\ net[id].cmd # "disconnect"}) =< Limit[s]
    BY DEF LimitKept
  <2> DEFINE w == World
             there == {id \in Engines \ {TabEngine} :
                          net[id].server = s /\ net[id].cmd # "disconnect"}
  <2>1. w.net = net /\ w.tab = tab /\ Room(w)
    BY InvWorld, RoomWorld DEF Fixed
  <2> HIDE DEF w
  <2>2. there \subseteq Claimants(w, s)
    BY <2>1 DEF Claimants, Claims, Linked, Own
  <2>3. Cardinality(Claimants(w, s)) =< Limit[s]
    BY <2>1 DEF Room
  <2>4. IsFiniteSet(Claimants(w, s)) /\ Cardinality(Claimants(w, s)) \in Nat
    BY ClaimantsFinite
  <2>5. there \in SUBSET Engines
    OBVIOUS
  <2>6. Cardinality(there) \in Nat
    BY <2>5, EnginesFinite
  <2> HIDE DEF there
  <2>7. Cardinality(there) =< Cardinality(Claimants(w, s))
    BY <2>2, <2>4, FS_Subset
  <2>8. Cardinality(there) =< Limit[s]
    BY <2>3, <2>4, <2>6, <2>7, QueueAssumption
  <2> QED
    BY <2>8 DEF there
<1> QED
  BY <1>1, <1>2, <1>3, PTL DEF Spec
=============================================================================
