------------------------------ MODULE TabProofs ------------------------------
(***************************************************************************)
(* Proofs about Tab: a reply is for the command at the head of the queue,  *)
(* and a recursive operation deletes nothing but what was chosen.          *)
(*                                                                         *)
(* The second rests on the first.  A recursive operation takes a listing   *)
(* for that of the directory it visits next, without comparing the two,    *)
(* so what it goes on to delete was chosen only if the listing is that of  *)
(* the list command at the head of the queue.  Steps says so: the engine   *)
(* runs the head of the queue or the transfer queue's command, and at most *)
(* one reply, with the listing it belongs to, is under way.  Types says    *)
(* that every command that deletes, every directory to visit while         *)
(* deleting and, for links, everywhere they lead was chosen.  Links found  *)
(* while deleting are not entered, so only chosen ones lead elsewhere.     *)
(*                                                                         *)
(* The operators of the recursive operation and of the queue come first,   *)
(* each with a lemma that it keeps a tab good (GoodTab) and what it leaves *)
(* alone (Kept, Looped, Free); then one lemma for every action.            *)
(***************************************************************************)
EXTENDS Tab, FiniteSetTheorems, SequenceTheorems, TLAPS

Ids == {"list", "rmd", "del", "connect", "disconnect"}

Command == [id : Ids, origin : {"normal", "recursive"}, dir : Paths,
            files : SUBSET Paths, link : BOOLEAN, retried : BOOLEAN]

ToVisit == [dir : Paths, link : 0 .. 2, recurse : BOOLEAN, start_dir : SUBSET Paths,
            visit : BOOLEAN, retry : BOOLEAN]

TabState == [list : Seq(Command), inside : BOOLEAN, lock : BOOLEAN, site : BOOLEAN,
             shown : BOOLEAN, success : BOOLEAN, mode : {"none", "delete", "transfer"},
             start : Paths, todo : Seq(ToVisit), visited : SUBSET Paths,
             handled : SUBSET Paths]

TransferCmd == Cmd("transfer", "queue", <<>>, {})

Engine == [cmd : Command \cup {NoCmd, TransferCmd}, socket : BOOLEAN, cancel : BOOLEAN,
           late : BOOLEAN]

Codes == {"ok", "error", "critical", "disconnected", "canceled", "linknotdir"}
Replies == [kind : {"reply"}, id : Ids \cup {"transfer"}, code : Codes, path : {<<>>}]
Listings == [kind : {"listing"}, id : {"list"}, code : {"ok"}, path : Paths]

(* A path that was chosen, and where it leads if it is a link.             *)
GoodPath(n, ever) ==
    /\ Chosen(n, ever)
    /\ n \in Tree /\ Last(n) \in LinkNames => \A q \in Targets[n] : Chosen(q, ever)

(* Commands and directories to visit are about what was chosen, as far as  *)
(* they delete or list in order to delete.                                 *)
GoodCmds(mode, ever) ==
    {c \in Command :
        /\ c.id = "rmd" => Chosen(c.dir, ever)
        /\ c.id = "del" => \A f \in c.files : Chosen(f, ever)
        /\ c.id = "list" /\ c.origin = "recursive" /\ mode = "delete"
              => GoodPath(c.dir, ever)}

GoodVisits(mode, ever) ==
    {d \in ToVisit : mode = "delete" => GoodPath(d.dir, ever)}

GoodTab(t, ever) ==
    /\ t \in TabState
    /\ t.list \in Seq(GoodCmds(t.mode, ever))
    /\ t.todo \in Seq(GoodVisits(t.mode, ever))

Types ==
    /\ GoodTab(tab, chosen.ever)
    /\ engine \in Engine
    /\ queue \in {"none", "waits", "granted", "uses"}
    /\ chosen = [to |-> chosen.to, nodes |-> chosen.nodes, ever |-> chosen.ever]
    /\ chosen.ever \subseteq Paths
    /\ tree \subseteq Tree

(* The engine has been given the command at the head of the queue.         *)
Heads(c) == tab.list # <<>> /\ Head(tab.list) = c

Leads(c, p) ==
    \/ p = c.dir
    \/ c.dir \in Tree /\ Last(c.dir) \in LinkNames /\ p \in Targets[c.dir]

(* The reply r is for the command at the head, or for the transfer queue's.*)
ReplyFits(r) ==
    IF tab.lock THEN queue = "uses" /\ r.id = "transfer"
    ELSE tab.list # <<>> /\ Head(tab.list).id = r.id

ListingFits(l, r) ==
    ~tab.lock /\ tab.list # <<>> /\ r.id = "list" /\ Leads(Head(tab.list), l.path)

(* The engine posts a reply, and a listing only together with its reply.   *)
Announced ==
    \/ inbox = <<>>
    \/ /\ Len(inbox) = 1 /\ inbox = <<inbox[1]>>
       /\ inbox[1] \in Replies /\ ReplyFits(inbox[1])
    \/ /\ Len(inbox) = 2 /\ inbox = <<inbox[1], inbox[2]>>
       /\ inbox[1] \in Listings /\ inbox[2] \in Replies
       /\ ReplyFits(inbox[2]) /\ ListingFits(inbox[1], inbox[2])

Steps ==
    /\ Announced
    /\ engine.late => engine.cmd # NoCmd
    /\ engine.cmd # NoCmd =>
          /\ inbox = <<>>
          /\ IF tab.lock THEN queue = "uses" /\ engine.cmd = TransferCmd
             ELSE Heads(engine.cmd)
    /\ tab.inside => engine.cmd = NoCmd /\ inbox = <<>> /\ ~tab.lock
    /\ tab.lock <=> queue \in {"granted", "uses"}

Inv == InStep => Types /\ Steps /\ DeletesOnlyChosen

-----------------------------------------------------------------------------
(* Sets and sequences.                                                     *)
LEMMA HasMin ==
    ASSUME NEW T, T \subseteq Nat, T # {}
    PROVE  Min(T) \in T /\ \A y \in T : Min(T) =< y
<1> DEFINE R == {ss \in Nat \X Nat : ss[1] < ss[2]}
<1>1. IsWellFoundedOn(R, Nat)
  BY NatLessThanWellFounded DEF OpToRel
<1>2. PICK x \in T : \A y \in T : ~ (<<y, x>> \in R)
  <2> HIDE DEF R
  <2> QED
    BY <1>1, WFMin
<1>3. ASSUME NEW y \in T
      PROVE  x =< y
  <2>1. <<y, x>> \in Nat \X Nat /\ <<y, x>>[1] = y /\ <<y, x>>[2] = x
    OBVIOUS
  <2> QED
    BY <1>2, <2>1
<1> QED
  BY <1>3 DEF Min

LEMMA HasMax ==
    ASSUME NEW n \in Nat, NEW T, T \subseteq 0 .. n, T # {}
    PROVE  Max(T) \in T
<1> DEFINE D == {n - x : x \in T}
<1>1. D \subseteq Nat /\ D # {}
  <2>1. PICK x \in T : TRUE
    OBVIOUS
  <2>2. n - x \in D
    BY <2>1
  <2>3. ASSUME NEW y \in T
        PROVE  n - y \in Nat
    OBVIOUS
  <2> QED
    BY <2>2, <2>3
<1> DEFINE R == {ss \in Nat \X Nat : ss[1] < ss[2]}
<1>2. IsWellFoundedOn(R, Nat)
  BY NatLessThanWellFounded DEF OpToRel
<1>3. PICK d \in D : \A y \in D : ~ (<<y, d>> \in R)
  <2> HIDE DEF R, D
  <2> QED
    BY <1>1, <1>2, WFMin
<1>4. PICK x \in T : d = n - x
  OBVIOUS
<1>5. ASSUME NEW y \in T
      PROVE  x >= y
  <2>1. <<n - y, d>> \in Nat \X Nat /\ <<n - y, d>>[1] = n - y /\ <<n - y, d>>[2] = d
    BY <1>1
  <2>2. ~(n - y < d)
    BY <1>3, <2>1
  <2> QED
    BY <1>4, <2>2
<1> QED
  BY <1>5 DEF Max

LEMMA SeqOfSet ==
    ASSUME NEW S, IsFiniteSet(S)
    PROVE  SetToSeq(S) \in Seq(S)
<1> DEFINE n == Cardinality(S)
<1>1. n \in Nat /\ ExistsBijection(1 .. n, S)
  BY FS_CardinalityType
<1>2. PICK f \in [1 .. n -> S] : IsInjective(f)
  BY <1>1 DEF ExistsBijection, Bijection, Injection
<1>3. SetToSeq(S) \in [1 .. n -> S]
  BY <1>2 DEF SetToSeq
<1> QED
  BY <1>1, <1>3

LEMMA LargerSeq ==
    ASSUME NEW A, NEW B, A \subseteq B, NEW s \in Seq(A)
    PROVE  s \in Seq(B)
  OBVIOUS

LEMMA PartsOfSeq ==
    ASSUME NEW A, NEW s \in Seq(A), s # <<>>
    PROVE  /\ Head(s) \in A /\ Tail(s) \in Seq(A)
           /\ \A x \in A : <<x>> \o Tail(s) \in Seq(A) /\ <<x>> \o s \in Seq(A)
           /\ \A x \in A : \A y \in A : <<x, y>> \o Tail(s) \in Seq(A)
  OBVIOUS

LEMMA AppendKeepsHead ==
    ASSUME NEW A, NEW s \in Seq(A), s # <<>>, NEW t \in Seq(A)
    PROVE  s \o t \in Seq(A) /\ s \o t # <<>> /\ Head(s \o t) = Head(s)
  OBVIOUS

LEMMA FrontIsPath ==
    ASSUME NEW p \in Paths
    PROVE  Front(p) \in Paths
<1>1. CASE p = <<>>
  BY <1>1 DEF Front, Paths
<1>2. CASE p # <<>>
  BY <1>2 DEF Front, Paths
<1> QED
  BY <1>1, <1>2

-----------------------------------------------------------------------------
(* What was chosen.                                                        *)
LEMMA ChosenBelow ==
    ASSUME NEW ever \in SUBSET Paths, NEW p \in Paths, Chosen(p, ever), NEW n \in Names
    PROVE  Append(p, n) \in Paths /\ Chosen(Append(p, n), ever)
<1>1. PICK c \in ever : IsPrefix(c, p)
  BY DEF Chosen
<1>2. c \in Seq(Names) /\ p \in Seq(Names)
  BY DEF Paths
<1>3. Append(p, n) \in Seq(Names) /\ Len(Append(p, n)) = Len(p) + 1
  BY <1>2
<1>4. Len(c) <= Len(p) /\ SubSeq(c, 1, Len(c)) = SubSeq(p, 1, Len(c))
  BY <1>1 DEF IsPrefix
<1>5. SubSeq(Append(p, n), 1, Len(c)) = SubSeq(p, 1, Len(c))
  BY <1>2, <1>4
<1>6. IsPrefix(c, Append(p, n))
  BY <1>2, <1>3, <1>4, <1>5 DEF IsPrefix
<1> QED
  BY <1>3, <1>6 DEF Chosen, Paths

LEMMA ChosenSelf ==
    ASSUME NEW ever \in SUBSET Paths, NEW p \in ever
    PROVE  Chosen(p, ever)
  BY DEF Chosen, IsPrefix, Paths

LEMMA ChosenMore ==
    ASSUME NEW ever, NEW more, ever \subseteq more, NEW p, Chosen(p, ever)
    PROVE  Chosen(p, more)
  BY DEF Chosen

LEMMA GoodMore ==
    ASSUME NEW ever, NEW more, ever \subseteq more, NEW mode
    PROVE  /\ GoodCmds(mode, ever) \subseteq GoodCmds(mode, more)
           /\ GoodVisits(mode, ever) \subseteq GoodVisits(mode, more)
  BY ChosenMore DEF GoodCmds, GoodVisits, GoodPath

(* An operation that stops leaves its commands behind.                     *)
LEMMA GoodLess ==
    ASSUME NEW ever, NEW mode
    PROVE  /\ GoodCmds(mode, ever) \subseteq GoodCmds("none", ever)
           /\ GoodCmds(mode, ever) \subseteq Command
           /\ GoodVisits(mode, ever) \subseteq ToVisit
  BY DEF GoodCmds, GoodVisits

-----------------------------------------------------------------------------
(* The recursive operation.  It appends commands and leaves the rest of    *)
(* the tab alone.                                                          *)
Kept(s, t) ==
    /\ t.inside = s.inside /\ t.lock = s.lock /\ t.site = s.site
    /\ t.mode \in {s.mode, "none"}
    /\ s.list # <<>> => t.list # <<>> /\ Head(t.list) = Head(s.list)

LEMMA KeptTwice ==
    ASSUME NEW s, NEW t, NEW u, Kept(s, t), Kept(t, u)
    PROVE  Kept(s, u)
  BY DEF Kept

LEMMA KeptSelf ==
    ASSUME NEW s
    PROVE  Kept(s, s)
  BY DEF Kept

LEMMA NewCmd ==
    ASSUME NEW id \in Ids, NEW origin \in {"normal", "recursive"}, NEW dir \in Paths,
           NEW files \in SUBSET Paths
    PROVE  LET c == Cmd(id, origin, dir, files)
           IN  c \in Command /\ c.id = id /\ c.origin = origin /\ c.dir = dir /\ c.files = files
  BY DEF Cmd, Command

LEMMA EmptyPath == <<>> \in Paths /\ {} \in SUBSET Paths
  BY DEF Paths

(* Setting the fields that the operation sets.                             *)
WithCmds(s, l) == [s EXCEPT !.list = @ \o l]
WithTodo(s, d) == [s EXCEPT !.todo = d]
WithVisit(s, d, v, h) == [s EXCEPT !.todo = d, !.visited = v, !.handled = h]

LEMMA Appended ==
    ASSUME NEW ever, NEW s, GoodTab(s, ever), NEW l \in Seq(GoodCmds(s.mode, ever))
    PROVE  LET t == WithCmds(s, l)
           IN  GoodTab(t, ever) /\ Kept(s, t) /\ t.mode = s.mode /\ t.todo = s.todo
               /\ t.visited = s.visited /\ t.handled = s.handled /\ t.start = s.start
<1> DEFINE t == WithCmds(s, l)
<1>1. s \in TabState /\ s.list \in Seq(GoodCmds(s.mode, ever))
  BY DEF GoodTab
<1>2. s.list \o l \in Seq(GoodCmds(s.mode, ever))
      /\ (s.list # <<>> => s.list \o l # <<>> /\ Head(s.list \o l) = Head(s.list))
  BY <1>1
<1>3. s.list \o l \in Seq(Command)
  BY <1>2, GoodLess, LargerSeq
<1>4. t \in TabState /\ t.list = s.list \o l /\ t.mode = s.mode /\ t.todo = s.todo
      /\ t.inside = s.inside /\ t.lock = s.lock /\ t.site = s.site
      /\ t.visited = s.visited /\ t.handled = s.handled /\ t.start = s.start
  BY <1>1, <1>3 DEF TabState, WithCmds
<1> HIDE DEF t
<1> QED
  BY <1>2, <1>4 DEF GoodTab, Kept, t

LEMMA ProcessCommandGood ==
    ASSUME NEW ever, NEW s, GoodTab(s, ever), NEW c \in GoodCmds(s.mode, ever)
    PROVE  LET t == ProcessCommand(s, c)
           IN  GoodTab(t, ever) /\ Kept(s, t) /\ t.mode = s.mode /\ t.todo = s.todo
               /\ t.visited = s.visited /\ t.handled = s.handled /\ t.start = s.start
<1>1. <<c>> \in Seq(GoodCmds(s.mode, ever))
  OBVIOUS
<1>2. s.list \in Seq(GoodCmds(s.mode, ever))
  BY DEF GoodTab
<1>3. Append(s.list, c) = s.list \o <<c>>
  BY <1>2
<1>4. ProcessCommand(s, c) = WithCmds(s, <<c>>)
  BY <1>3 DEF ProcessCommand, WithCmds
<1>5. PICK l : l = <<c>>
  OBVIOUS
<1>6. l \in Seq(GoodCmds(s.mode, ever)) /\ ProcessCommand(s, c) = WithCmds(s, l)
  BY <1>1, <1>4, <1>5
<1> QED
  BY <1>6, Appended

LEMMA Advanced ==
    ASSUME NEW ever, NEW s, GoodTab(s, ever), NEW d \in Seq(GoodVisits(s.mode, ever)),
           NEW v \in SUBSET Paths, NEW h \in SUBSET Paths
    PROVE  LET t == WithVisit(s, d, v, h)
           IN  GoodTab(t, ever) /\ Kept(s, t) /\ t.mode = s.mode /\ t.todo = d
               /\ t.list = s.list /\ t.visited = v /\ t.handled = h /\ t.start = s.start
<1> DEFINE t == WithVisit(s, d, v, h)
<1>1. s \in TabState /\ s.list \in Seq(GoodCmds(s.mode, ever))
  BY DEF GoodTab
<1>2. d \in Seq(ToVisit)
  BY GoodLess, LargerSeq
<1>3. t \in TabState /\ t.list = s.list /\ t.mode = s.mode /\ t.todo = d
      /\ t.inside = s.inside /\ t.lock = s.lock /\ t.site = s.site
      /\ t.visited = v /\ t.handled = h /\ t.start = s.start
  BY <1>1, <1>2 DEF TabState, WithVisit
<1> HIDE DEF t
<1> QED
  BY <1>1, <1>3 DEF GoodTab, Kept, t

(* A directory that is done with, and marking one in front.                *)
LEMMA TodoGood ==
    ASSUME NEW ever, NEW s, GoodTab(s, ever), NEW d \in Seq(GoodVisits(s.mode, ever))
    PROVE  LET t == WithTodo(s, d)
           IN  GoodTab(t, ever) /\ Kept(s, t) /\ t.mode = s.mode /\ t.todo = d
               /\ t.list = s.list /\ t.visited = s.visited /\ t.handled = s.handled
               /\ t.start = s.start
<1> DEFINE t == WithTodo(s, d)
<1>1. s \in TabState /\ s.list \in Seq(GoodCmds(s.mode, ever))
  BY DEF GoodTab
<1>2. d \in Seq(ToVisit)
  BY GoodLess, LargerSeq
<1>3. t \in TabState /\ t.list = s.list /\ t.mode = s.mode /\ t.todo = d
      /\ t.inside = s.inside /\ t.lock = s.lock /\ t.site = s.site
      /\ t.visited = s.visited /\ t.handled = s.handled /\ t.start = s.start
  BY <1>1, <1>2 DEF TabState, WithTodo
<1> HIDE DEF t
<1> QED
  BY <1>1, <1>3 DEF GoodTab, Kept, t

LEMMA StopGood ==
    ASSUME NEW ever, NEW s, GoodTab(s, ever)
    PROVE  LET t == StopRecursiveOperation(s)
           IN  GoodTab(t, ever) /\ Kept(s, t) /\ t.mode = "none" /\ t.list = s.list
<1> DEFINE t == StopRecursiveOperation(s)
<1>1. s \in TabState /\ s.list \in Seq(GoodCmds(s.mode, ever))
  BY DEF GoodTab
<1>2. t \in TabState /\ t.list = s.list /\ t.mode = "none" /\ t.todo = <<>>
      /\ t.inside = s.inside /\ t.lock = s.lock /\ t.site = s.site
  <2>1. PICK m \in {"none", "delete", "transfer"} : m = "none"
    OBVIOUS
  <2>2. PICK d \in Seq(ToVisit) : d = <<>>
    <3>1. <<>> \in Seq(ToVisit)
      OBVIOUS
    <3> QED
      BY <3>1
  <2>3. PICK v \in SUBSET Paths : v = {}
    BY EmptyPath
  <2>4. t = [s EXCEPT !.mode = m, !.todo = d, !.visited = v]
    BY <2>1, <2>2, <2>3 DEF StopRecursiveOperation
  <2> HIDE DEF t
  <2>5. t \in TabState /\ t.list = s.list /\ t.mode = m /\ t.todo = d
      /\ t.inside = s.inside /\ t.lock = s.lock /\ t.site = s.site
    BY <1>1, <2>4 DEF TabState
  <2> QED
    BY <2>1, <2>2, <2>5
<1>3. s.list \in Seq(GoodCmds("none", ever))
  BY <1>1, GoodLess, LargerSeq
<1>4. <<>> \in Seq(GoodVisits("none", ever))
  OBVIOUS
<1> HIDE DEF t
<1> QED
  BY <1>2, <1>3, <1>4 DEF GoodTab, Kept, t

LEMMA OperationFinishedGood ==
    ASSUME NEW ever, NEW s, GoodTab(s, ever)
    PROVE  GoodTab(OperationFinished(s), ever) /\ Kept(s, OperationFinished(s))
<1> DEFINE c == Cmd("list", "normal", <<>>, {})
<1>1. c \in GoodCmds(s.mode, ever)
  BY NewCmd, EmptyPath DEF GoodCmds, Ids
<1>2. OperationFinished(s) = s \/ OperationFinished(s) = ProcessCommand(s, c)
  BY DEF OperationFinished
<1> HIDE DEF c
<1> QED
  BY <1>1, <1>2, ProcessCommandGood, KeptSelf


(* NextOperation.  It removes the directories in front that are done, as   *)
(* many as there are.                                                      *)
LEMMA NextOperationGood ==
    ASSUME NEW ever, NEW s, GoodTab(s, ever)
    PROVE  GoodTab(NextOperation(s), ever) /\ Kept(s, NextOperation(s))
<1>1. CASE s.mode = "none"
  BY <1>1, KeptSelf DEF NextOperation
<1>2. CASE s.mode # "none"
  <2> DEFINE done(i) == s.mode = "delete" /\ ~s.todo[i].visit /\ s.todo[i].recurse
             N == {n \in 0 .. Len(s.todo) : \A i \in 1 .. n : done(i)}
             k == DirsDone(s)
             rmds == [i \in 1 .. k |-> Cmd("rmd", "recursive", s.todo[i].dir, {})]
             t == RemoveDirs(s, k)
  <2>1. s.todo \in Seq(GoodVisits(s.mode, ever)) /\ Len(s.todo) \in Nat
        /\ DOMAIN s.todo = 1 .. Len(s.todo)
    BY DEF GoodTab
  <2>2. k \in 0 .. Len(s.todo) /\ \A i \in 1 .. k : done(i)
    <3>1. 0 \in N /\ N \subseteq 0 .. Len(s.todo)
      BY <2>1
    <3> HIDE DEF N
    <3>2. Max(N) \in N
      BY <2>1, <3>1, HasMax
    <3>3. k = Max(N)
      BY DEF DirsDone, N
    <3> QED
      BY <3>2, <3>3 DEF N
  <2> HIDE DEF k
  <2>3. ASSUME NEW i \in 1 .. k
        PROVE  Cmd("rmd", "recursive", s.todo[i].dir, {}) \in GoodCmds(s.mode, ever)
    <3>1. s.todo[i] \in GoodVisits(s.mode, ever) /\ done(i)
      BY <2>1, <2>2
    <3>2. s.todo[i].dir \in Paths /\ GoodPath(s.todo[i].dir, ever)
      BY <3>1 DEF GoodVisits, ToVisit
    <3>3. PICK p \in Paths : p = s.todo[i].dir
      BY <3>2
    <3> QED
      BY <3>2, <3>3, NewCmd, EmptyPath DEF GoodCmds, Ids, GoodPath
  <2>4. rmds \in Seq(GoodCmds(s.mode, ever))
    BY <2>2, <2>3
  <2>5. SubSeq(s.todo, k + 1, Len(s.todo)) \in Seq(GoodVisits(s.mode, ever))
    BY <2>1, <2>2
  <2>6. GoodTab(t, ever) /\ Kept(s, t) /\ t.mode = s.mode
        /\ t.todo = SubSeq(s.todo, k + 1, Len(s.todo))
    <3>1. PICK r \in Seq(GoodCmds(s.mode, ever)) : r = rmds
      BY <2>4
    <3>2. PICK q \in Seq(GoodVisits(s.mode, ever)) : q = SubSeq(s.todo, k + 1, Len(s.todo))
      BY <2>5
    <3>3. PICK u : u = WithCmds(s, r)
      OBVIOUS
    <3>4. GoodTab(u, ever) /\ Kept(s, u) /\ u.mode = s.mode /\ u.todo = s.todo
      BY <3>3, Appended
    <3>5. s \in TabState
      BY DEF GoodTab
    <3>6. t = WithTodo(u, q)
      BY <3>1, <3>2, <3>3, <3>5 DEF TabState, RemoveDirs, WithCmds, WithTodo
    <3> HIDE DEF t
    <3>7. GoodTab(t, ever) /\ Kept(u, t) /\ t.mode = u.mode /\ t.todo = q
      BY <3>4, <3>6, TodoGood
    <3> QED
      BY <3>2, <3>4, <3>7, KeptTwice
  <2>7. CASE t.todo = <<>>
    <3>1. NextOperation(s) = OperationFinished(StopRecursiveOperation(t))
      BY <1>2, <2>7 DEF NextOperation, k
    <3> HIDE DEF t
    <3>2. PICK u : u = StopRecursiveOperation(t)
      OBVIOUS
    <3>3. GoodTab(u, ever) /\ Kept(t, u)
      BY <2>6, <3>2, StopGood
    <3>4. GoodTab(OperationFinished(u), ever) /\ Kept(u, OperationFinished(u))
      BY <3>3, OperationFinishedGood
    <3> QED
      BY <2>6, <3>1, <3>2, <3>3, <3>4, KeptTwice
  <2>8. CASE t.todo # <<>>
    <3>1. NextOperation(s) = ProcessCommand(t, ListCmd(Head(t.todo)))
      BY <1>2, <2>8 DEF NextOperation, k
    <3>2. t.todo \in Seq(GoodVisits(s.mode, ever))
      BY <2>6 DEF GoodTab
    <3>3. PICK d \in GoodVisits(s.mode, ever) : d = Head(t.todo)
      BY <2>8, <3>2
    <3>4. d.dir \in Paths /\ (s.mode = "delete" => GoodPath(d.dir, ever))
      BY DEF GoodVisits, ToVisit
    <3>5. PICK c \in Command : c = Cmd("list", "recursive", d.dir, {})
                               /\ c.id = "list" /\ c.dir = d.dir
      BY <3>4, NewCmd, EmptyPath DEF Ids
    <3>6. ListCmd(d) \in Command /\ ListCmd(d).id = c.id /\ ListCmd(d).dir = c.dir
      <4>1. PICK b \in BOOLEAN : b = (d.link # 0)
        OBVIOUS
      <4>2. ListCmd(d) = [c EXCEPT !.link = b]
        BY <3>5, <4>1 DEF ListCmd
      <4> QED
        BY <4>2 DEF Command
    <3>7. ListCmd(d) \in GoodCmds(s.mode, ever)
      BY <3>4, <3>5, <3>6 DEF GoodCmds
    <3> HIDE DEF t
    <3>8. PICK e \in GoodCmds(t.mode, ever) : e = ListCmd(d)
      BY <2>6, <3>7
    <3>9. GoodTab(ProcessCommand(t, e), ever) /\ Kept(t, ProcessCommand(t, e))
      BY <2>6, ProcessCommandGood
    <3> QED
      BY <2>6, <3>1, <3>3, <3>8, <3>9, KeptTwice
  <2> QED
    BY <2>7, <2>8
<1> QED
  BY <1>1, <1>2

LEMMA NewDirGood ==
    ASSUME NEW ever, NEW mode, NEW dir \in Paths, NEW link \in 0 .. 2, NEW recurse \in BOOLEAN,
           NEW from \in SUBSET Paths, mode = "delete" => GoodPath(dir, ever)
    PROVE  NewDir(dir, link, recurse, from) \in GoodVisits(mode, ever)
<1> DEFINE e == NewDir(dir, link, recurse, from)
<1>1. e \in ToVisit /\ e.dir = dir
  BY DEF NewDir, ToVisit
<1> HIDE DEF e
<1> QED
  BY <1>1 DEF GoodVisits, e

(* Entries of a chosen directory.                                          *)
LEMMA EntryGood ==
    ASSUME NEW ever \in SUBSET Paths, NEW p \in Paths, Chosen(p, ever), NEW n \in Names
    PROVE  /\ Append(p, n) \in Paths /\ Chosen(Append(p, n), ever)
           /\ Entered("delete", n) => GoodPath(Append(p, n), ever)
<1>1. Append(p, n) \in Paths /\ Chosen(Append(p, n), ever)
  BY ChosenBelow
<1>2. Last(Append(p, n)) = n
  BY DEF Last, Paths
<1>3. Entered("delete", n) => n \notin LinkNames
  BY TabAssumption DEF Entered
<1> QED
  BY <1>1, <1>2, <1>3 DEF GoodPath

LEMMA NewDirsGood ==
    ASSUME NEW ever \in SUBSET Paths, NEW mode, NEW d \in ToVisit, NEW p \in Paths,
           NEW names \in SUBSET Names, IsFiniteSet(names), mode = "delete" => Chosen(p, ever)
    PROVE  NewDirs(mode, d, p, names) \in Seq(GoodVisits(mode, ever))
<1> DEFINE S == {n \in names : Entered(mode, n) /\ d.recurse}
           dirs == SetToSeq(S)
           entry(i) == NewDir(Append(p, dirs[i]), IF dirs[i] \in LinkNames THEN 1 ELSE 0,
                              dirs[i] \notin LinkNames, d.start_dir)
<1>1. S \subseteq names
  OBVIOUS
<1>2. IsFiniteSet(S)
  BY <1>1, FS_Subset
<1>3. dirs \in Seq(S)
  BY <1>2, SeqOfSet
<1>4. ASSUME NEW n \in S, NEW k \in 0 .. 2, NEW b \in BOOLEAN
      PROVE  NewDir(Append(p, n), k, b, d.start_dir) \in GoodVisits(mode, ever)
  <2>1. n \in Names /\ Entered(mode, n)
    BY <1>1
  <2>2. Append(p, n) \in Paths
    BY <2>1 DEF Paths
  <2>3. mode = "delete" => GoodPath(Append(p, n), ever)
    BY <2>1, EntryGood
  <2>4. d.start_dir \in SUBSET Paths
    BY DEF ToVisit
  <2> QED
    BY <2>2, <2>3, <2>4, NewDirGood
<1>5. ASSUME NEW i \in DOMAIN dirs
      PROVE  entry(i) \in GoodVisits(mode, ever)
  <2>1. dirs[i] \in S
    BY <1>3
  <2>2. PICK k \in 0 .. 2 : k = IF dirs[i] \in LinkNames THEN 1 ELSE 0
    OBVIOUS
  <2>3. PICK b \in BOOLEAN : b = (dirs[i] \notin LinkNames)
    OBVIOUS
  <2> HIDE DEF dirs, S
  <2> QED
    BY <1>4, <2>1, <2>2, <2>3
<1>6. Len(dirs) \in Nat /\ DOMAIN dirs = 1 .. Len(dirs)
  BY <1>3
<1>7. NewDirs(mode, d, p, names) = [i \in DOMAIN dirs |-> entry(i)]
  BY DEF NewDirs
<1> HIDE DEF dirs, entry
<1> QED
  BY <1>5, <1>6, <1>7

LEMMA FilesGood ==
    ASSUME NEW ever \in SUBSET Paths, NEW mode, NEW p \in Paths, NEW names \in SUBSET Names,
           mode = "delete" => Chosen(p, ever)
    PROVE  /\ FilesOf(mode, p, names) \in SUBSET Paths
           /\ mode = "delete" => \A f \in FilesOf(mode, p, names) : Chosen(f, ever)
<1>1. ASSUME NEW f \in FilesOf(mode, p, names)
      PROVE  f \in Paths /\ (mode = "delete" => Chosen(f, ever))
  <2>1. PICK n \in names : f = Append(p, n)
    BY DEF FilesOf
  <2>2. n \in Names
    OBVIOUS
  <2> QED
    BY <2>1, <2>2, EntryGood DEF Paths
<1> QED
  BY <1>1

LEMMA ProcessEntriesGood ==
    ASSUME NEW ever \in SUBSET Paths, NEW s, GoodTab(s, ever), NEW d \in ToVisit,
           NEW p \in Paths, NEW names \in SUBSET Names, IsFiniteSet(names),
           s.mode = "delete" => Chosen(p, ever)
    PROVE  /\ GoodTab(ProcessEntries(s, d, p, names), ever)
           /\ Kept(s, ProcessEntries(s, d, p, names))
<1>1. PICK files \in SUBSET Paths : files = FilesOf(s.mode, p, names)
  BY FilesGood
<1>2. PICK new \in Seq(GoodVisits(s.mode, ever)) : new = NewDirs(s.mode, d, p, names)
  BY NewDirsGood
<1>3. s \in TabState /\ s.todo \in Seq(GoodVisits(s.mode, ever))
      /\ s.visited \in SUBSET Paths /\ s.handled \in SUBSET Paths
  BY DEF GoodTab, TabState
<1>4. PICK todo \in Seq(GoodVisits(s.mode, ever)) : todo = new \o s.todo
  <2>1. new \o s.todo \in Seq(GoodVisits(s.mode, ever))
    BY <1>2, <1>3
  <2> QED
    BY <2>1
<1>5. PICK h \in SUBSET Paths : h = s.handled \cup files
  BY <1>3
<1>6. PICK v \in SUBSET Paths : v = s.visited
  BY <1>3
<1>7. PICK t : t = WithVisit(s, todo, v, h)
  OBVIOUS
<1>8. [s EXCEPT !.todo = NewDirs(s.mode, d, p, names) \o @,
               !.handled = @ \cup FilesOf(s.mode, p, names)] = t
  BY <1>1, <1>2, <1>3, <1>4, <1>5, <1>6, <1>7 DEF WithVisit, TabState
<1>9. GoodTab(t, ever) /\ Kept(s, t) /\ t.mode = s.mode
  BY <1>7, Advanced
<1>10. CASE s.mode = "delete" /\ files # {}
  <2>1. PICK c \in Command : c = Cmd("del", "recursive", p, files) /\ c.id = "del"
                             /\ c.files = files
    BY NewCmd DEF Ids
  <2>2. c \in GoodCmds(t.mode, ever)
    BY <1>1, <1>10, <2>1, FilesGood DEF GoodCmds
  <2>3. ProcessEntries(s, d, p, names) = ProcessCommand(t, c)
    BY <1>1, <1>8, <1>10, <2>1 DEF ProcessEntries
  <2>4. GoodTab(ProcessCommand(t, c), ever) /\ Kept(t, ProcessCommand(t, c))
    BY <1>9, <2>2, ProcessCommandGood
  <2> QED
    BY <1>9, <2>3, <2>4, KeptTwice
<1>11. CASE ~(s.mode = "delete" /\ files # {})
  <2>1. ProcessEntries(s, d, p, names) = t
    BY <1>1, <1>8, <1>11 DEF ProcessEntries
  <2> QED
    BY <1>9, <2>1
<1> QED
  BY <1>10, <1>11

LEMMA PopGood ==
    ASSUME NEW ever, NEW s, GoodTab(s, ever), s.todo # <<>>
    PROVE  /\ GoodTab(Pop(s), ever) /\ Kept(s, Pop(s)) /\ Pop(s).mode = s.mode
           /\ Pop(s).list = s.list /\ Pop(s).start = s.start
           /\ Head(s.todo) \in GoodVisits(s.mode, ever)
<1>1. s.todo \in Seq(GoodVisits(s.mode, ever))
  BY DEF GoodTab
<1>2. Head(s.todo) \in GoodVisits(s.mode, ever) /\ Tail(s.todo) \in Seq(GoodVisits(s.mode, ever))
  BY <1>1, PartsOfSeq
<1>3. PICK d \in Seq(GoodVisits(s.mode, ever)) : d = Tail(s.todo)
  BY <1>2
<1>4. Pop(s) = WithTodo(s, d)
  BY <1>3 DEF Pop, WithTodo
<1> QED
  BY <1>2, <1>4, TodoGood

LEMMA PushRemovalGood ==
    ASSUME NEW ever, NEW s, GoodTab(s, ever), NEW d \in GoodVisits(s.mode, ever)
    PROVE  /\ GoodTab(PushRemoval(s, d), ever) /\ Kept(s, PushRemoval(s, d))
           /\ PushRemoval(s, d).mode = s.mode /\ PushRemoval(s, d).list = s.list
<1>1. CASE s.mode = "delete" /\ d.visit /\ d.recurse
  <2>1. PICK no \in BOOLEAN : no = FALSE
    OBVIOUS
  <2>2. PICK e : e = [d EXCEPT !.visit = no]
    OBVIOUS
  <2>3. e \in GoodVisits(s.mode, ever)
    BY <2>2 DEF GoodVisits, ToVisit
  <2>4. s.todo \in Seq(GoodVisits(s.mode, ever))
    BY DEF GoodTab
  <2>5. <<e>> \o s.todo \in Seq(GoodVisits(s.mode, ever))
    BY <2>3, <2>4
  <2>6. PICK q \in Seq(GoodVisits(s.mode, ever)) : q = <<e>> \o s.todo
    BY <2>5
  <2>7. PushRemoval(s, d) = WithTodo(s, q)
    BY <1>1, <2>1, <2>2, <2>6 DEF PushRemoval, WithTodo
  <2> QED
    BY <2>7, TodoGood
<1>2. CASE ~(s.mode = "delete" /\ d.visit /\ d.recurse)
  BY <1>2, KeptSelf DEF PushRemoval
<1> QED
  BY <1>1, <1>2

LEMMA FoundGood ==
    ASSUME NEW ever, NEW s, NEW d \in GoodVisits(s.mode, ever), NEW p \in Paths,
           NEW e \in BelowRecursionRoot(s, d, p)
    PROVE  e \in GoodVisits(s.mode, ever)
<1>1. PICK f \in SUBSET Paths : f = {p}
  OBVIOUS
<1>2. e = d \/ e = [d EXCEPT !.start_dir = f]
  BY <1>1 DEF BelowRecursionRoot
<1> QED
  BY <1>2 DEF GoodVisits, ToVisit

(* A listing of a directory that was chosen, if it is to be deleted.       *)
LEMMA ProcessDirectoryListingGood ==
    ASSUME NEW ever \in SUBSET Paths, NEW s, GoodTab(s, ever), NEW p \in Paths,
           NEW names \in SUBSET Names, IsFiniteSet(names), NEW available,
           s.mode = "delete" => Chosen(p, ever)
    PROVE  /\ GoodTab(ProcessDirectoryListing(s, p, names, available), ever)
           /\ Kept(s, ProcessDirectoryListing(s, p, names, available))
<1> DEFINE r == ProcessDirectoryListing(s, p, names, available)
           found == BelowRecursionRoot(s, Head(s.todo), p)
           d == CHOOSE e \in found : TRUE
           t == PushRemoval(Pop(s), d)
<1>1. CASE s.mode = "none" \/ ~available
  <2>1. r = s
    BY <1>1 DEF ProcessDirectoryListing
  <2> QED
    BY <2>1, KeptSelf
<1>2. CASE ~(s.mode = "none" \/ ~available) /\ s.todo = <<>>
  <2>1. r = StopRecursiveOperation(s)
    BY <1>2 DEF ProcessDirectoryListing
  <2> QED
    BY <2>1, StopGood
<1>3. CASE ~(s.mode = "none" \/ ~available) /\ s.todo # <<>>
  <2>1. /\ GoodTab(Pop(s), ever) /\ Kept(s, Pop(s)) /\ Pop(s).mode = s.mode
        /\ Head(s.todo) \in GoodVisits(s.mode, ever)
    BY <1>3, PopGood
  <2>2. CASE found = {}
    <3>1. r = NextOperation(Pop(s))
      BY <1>3, <2>2 DEF ProcessDirectoryListing
    <3>2. GoodTab(NextOperation(Pop(s)), ever) /\ Kept(Pop(s), NextOperation(Pop(s)))
      BY <2>1, NextOperationGood
    <3> QED
      BY <2>1, <3>1, <3>2, KeptTwice
  <2>3. CASE found # {}
    <3>1. d \in found
      BY <2>3
    <3>2. d \in GoodVisits(s.mode, ever)
      <4> HIDE DEF d
      <4> QED
        BY <2>1, <3>1, FoundGood
    <3>3. d \in ToVisit
      BY <3>2, GoodLess
    <3> HIDE DEF d
    <3>4. GoodTab(t, ever) /\ Kept(Pop(s), t) /\ t.mode = s.mode
      BY <2>1, <3>2, PushRemovalGood
    <3>5. CASE (d.link # 0 /\ ~d.recurse) \/ p \in t.visited
      <4>1. r = NextOperation(t)
        BY <1>3, <2>3, <3>5 DEF ProcessDirectoryListing, d
      <4> HIDE DEF t
      <4>2. GoodTab(NextOperation(t), ever) /\ Kept(t, NextOperation(t))
        BY <3>4, NextOperationGood
      <4> QED
        BY <2>1, <3>4, <4>1, <4>2, KeptTwice
    <3>6. CASE ~((d.link # 0 /\ ~d.recurse) \/ p \in t.visited)
      <4>1. r = NextOperation(ProcessEntries([t EXCEPT !.visited = @ \cup {p}], d, p, names))
        BY <1>3, <2>3, <3>6 DEF ProcessDirectoryListing, d
      <4> HIDE DEF t, r, found
      <4>2. t \in TabState /\ t.todo \in Seq(GoodVisits(t.mode, ever))
            /\ t.visited \in SUBSET Paths /\ t.handled \in SUBSET Paths
        BY <3>4 DEF GoodTab, TabState
      <4>3. PICK v \in SUBSET Paths : v = t.visited \cup {p}
        BY <4>2
      <4>4. PICK todo \in Seq(GoodVisits(t.mode, ever)) : todo = t.todo
        BY <4>2
      <4>5. PICK h \in SUBSET Paths : h = t.handled
        BY <4>2
      <4>6. PICK u : u = WithVisit(t, todo, v, h)
        OBVIOUS
      <4>7. [t EXCEPT !.visited = @ \cup {p}] = u
        BY <4>2, <4>3, <4>4, <4>5, <4>6 DEF WithVisit, TabState
      <4>8. GoodTab(u, ever) /\ Kept(t, u) /\ u.mode = t.mode
        BY <3>4, <4>6, Advanced
      <4>9. PICK w : w = ProcessEntries(u, d, p, names)
        OBVIOUS
      <4>10. GoodTab(w, ever) /\ Kept(u, w)
        BY <3>3, <3>4, <4>8, <4>9, ProcessEntriesGood
      <4>11. GoodTab(NextOperation(w), ever) /\ Kept(w, NextOperation(w))
        BY <4>10, NextOperationGood
      <4>12. r = NextOperation(w)
        BY <4>1, <4>7, <4>9
      <4>13. Kept(s, u) /\ Kept(u, r)
        BY <2>1, <3>4, <4>8, <4>10, <4>11, <4>12, KeptTwice
      <4> QED
        BY <4>11, <4>12, <4>13, KeptTwice DEF r
    <3> QED
      BY <3>5, <3>6
  <2> QED
    BY <2>2, <2>3
<1> QED
  BY <1>1, <1>2, <1>3

LEMMA ListingFailedGood ==
    ASSUME NEW ever, NEW s, GoodTab(s, ever), NEW error
    PROVE  GoodTab(ListingFailed(s, error), ever) /\ Kept(s, ListingFailed(s, error))
<1> DEFINE r == ListingFailed(s, error)
           d == Head(s.todo)
<1>1. CASE s.mode = "none"
  <2>1. r = s
    BY <1>1 DEF ListingFailed
  <2> QED
    BY <2>1, KeptSelf
<1>2. CASE s.mode # "none" /\ (error = "canceled" \/ s.todo = <<>>)
  <2>1. r = StopRecursiveOperation(s)
    BY <1>2 DEF ListingFailed
  <2> QED
    BY <2>1, StopGood
<1>3. CASE s.mode # "none" /\ ~(error = "canceled" \/ s.todo = <<>>)
  <2>1. s.todo \in Seq(GoodVisits(s.mode, ever)) /\ s.todo # <<>>
        /\ 1 \in DOMAIN s.todo /\ s.todo[1] \in GoodVisits(s.mode, ever) /\ s \in TabState
    <3>1. s.todo \in Seq(GoodVisits(s.mode, ever)) /\ s.todo # <<>> /\ s \in TabState
      BY <1>3 DEF GoodTab
    <3> QED
      BY <3>1
  <2>2. CASE error # "critical" /\ ~d.retry
    <3>1. r = NextOperation([s EXCEPT !.todo[1].retry = TRUE])
      BY <1>3, <2>2 DEF ListingFailed
    <3>2. PICK yes \in BOOLEAN : yes = TRUE
      OBVIOUS
    <3>3. PICK e : e = [s.todo[1] EXCEPT !.retry = yes]
      OBVIOUS
    <3>4. e \in GoodVisits(s.mode, ever)
      BY <2>1, <3>3 DEF GoodVisits, ToVisit
    <3>5. [s.todo EXCEPT ![1] = e] \in Seq(GoodVisits(s.mode, ever))
      BY <2>1, <3>4
    <3>6. PICK q \in Seq(GoodVisits(s.mode, ever)) : q = [s.todo EXCEPT ![1] = e]
      BY <3>5
    <3>7. [s EXCEPT !.todo[1].retry = TRUE] = WithTodo(s, q)
      BY <2>1, <3>2, <3>3, <3>6 DEF WithTodo, TabState
    <3>8. PICK u : u = WithTodo(s, q)
      OBVIOUS
    <3>9. GoodTab(u, ever) /\ Kept(s, u)
      BY <3>8, TodoGood
    <3>10. GoodTab(NextOperation(u), ever) /\ Kept(u, NextOperation(u))
      BY <3>9, NextOperationGood
    <3>11. r = NextOperation(u)
      BY <3>1, <3>7, <3>8
    <3> QED
      BY <3>9, <3>10, <3>11, KeptTwice
  <2>3. CASE ~(error # "critical" /\ ~d.retry)
    <3>1. r = NextOperation(PushRemoval(Pop(s), d))
      BY <1>3, <2>3 DEF ListingFailed
    <3>2. GoodTab(Pop(s), ever) /\ Kept(s, Pop(s)) /\ Pop(s).mode = s.mode
          /\ d \in GoodVisits(s.mode, ever)
      BY <2>1, PopGood
    <3>3. PICK u : u = PushRemoval(Pop(s), d)
      OBVIOUS
    <3>4. GoodTab(u, ever) /\ Kept(Pop(s), u)
      BY <3>2, <3>3, PushRemovalGood
    <3>5. GoodTab(NextOperation(u), ever) /\ Kept(u, NextOperation(u))
      BY <3>4, NextOperationGood
    <3> QED
      BY <3>1, <3>2, <3>3, <3>4, <3>5, KeptTwice
  <2> QED
    BY <2>2, <2>3
<1> QED
  BY <1>1, <1>2, <1>3

LEMMA LinkIsNotDirGood ==
    ASSUME NEW ever, NEW s, GoodTab(s, ever), NEW site
    PROVE  GoodTab(LinkIsNotDir(s, site), ever) /\ Kept(s, LinkIsNotDir(s, site))
<1> DEFINE r == LinkIsNotDir(s, site)
           d == Head(s.todo)
           t == [Pop(s) EXCEPT !.handled = @ \cup {d.dir}]
           del == Cmd("del", "recursive", Front(d.dir), {d.dir})
<1>1. CASE s.mode = "none"
  <2>1. r = s
    BY <1>1 DEF LinkIsNotDir
  <2> QED
    BY <2>1, KeptSelf
<1>2. CASE s.mode # "none" /\ s.todo = <<>>
  <2>1. r = StopRecursiveOperation(s)
    BY <1>2 DEF LinkIsNotDir
  <2> QED
    BY <2>1, StopGood
<1>3. CASE s.mode # "none" /\ s.todo # <<>>
  <2>1. /\ GoodTab(Pop(s), ever) /\ Kept(s, Pop(s)) /\ Pop(s).mode = s.mode
        /\ d \in GoodVisits(s.mode, ever)
    BY <1>3, PopGood
  <2>2. CASE ~site
    <3>1. r = NextOperation(Pop(s))
      BY <1>3, <2>2 DEF LinkIsNotDir
    <3>2. GoodTab(NextOperation(Pop(s)), ever) /\ Kept(Pop(s), NextOperation(Pop(s)))
      BY <2>1, NextOperationGood
    <3> QED
      BY <2>1, <3>1, <3>2, KeptTwice
  <2>3. CASE site
    <3>1. r = NextOperation(IF s.mode = "delete" THEN ProcessCommand(t, del) ELSE t)
      BY <1>3, <2>3 DEF LinkIsNotDir
    <3>2. d.dir \in Paths /\ (s.mode = "delete" => Chosen(d.dir, ever))
      BY <2>1 DEF GoodVisits, ToVisit, GoodPath
    <3>3. PICK u : u = Pop(s)
      OBVIOUS
    <3>4. u \in TabState /\ u.todo \in Seq(GoodVisits(u.mode, ever))
          /\ u.visited \in SUBSET Paths /\ u.handled \in SUBSET Paths
      BY <2>1, <3>3 DEF GoodTab, TabState
    <3>5. PICK h \in SUBSET Paths : h = u.handled \cup {d.dir}
      BY <3>2, <3>4
    <3>6. PICK todo \in Seq(GoodVisits(u.mode, ever)) : todo = u.todo
      BY <3>4
    <3>7. PICK v \in SUBSET Paths : v = u.visited
      BY <3>4
    <3>8. t = WithVisit(u, todo, v, h)
      BY <3>3, <3>4, <3>5, <3>6, <3>7 DEF WithVisit, TabState
    <3> HIDE DEF t
    <3>9. GoodTab(t, ever) /\ Kept(u, t) /\ t.mode = u.mode
      BY <2>1, <3>3, <3>8, Advanced
    <3>10. CASE s.mode = "delete"
      <4>1. PICK c \in Command : c = del /\ c.id = "del" /\ c.files = {d.dir}
        <5>1. PICK p \in Paths : p = Front(d.dir)
          BY <3>2, FrontIsPath
        <5>2. PICK f \in SUBSET Paths : f = {d.dir}
          BY <3>2
        <5> QED
          BY <5>1, <5>2, NewCmd DEF Ids
      <4>2. c \in GoodCmds(t.mode, ever)
        BY <3>2, <3>10, <4>1 DEF GoodCmds
      <4>3. GoodTab(ProcessCommand(t, c), ever) /\ Kept(t, ProcessCommand(t, c))
        BY <3>9, <4>2, ProcessCommandGood
      <4>4. PICK w : w = ProcessCommand(t, c)
        OBVIOUS
      <4>5. GoodTab(NextOperation(w), ever) /\ Kept(w, NextOperation(w))
        BY <4>3, <4>4, NextOperationGood
      <4>6. r = NextOperation(w)
        BY <3>1, <3>10, <4>1, <4>4
      <4>7. Kept(s, t)
        BY <2>1, <3>3, <3>9, KeptTwice
      <4>8. Kept(t, r)
        BY <4>3, <4>4, <4>5, <4>6, KeptTwice
      <4> QED
        BY <4>5, <4>6, <4>7, <4>8, KeptTwice
    <3>11. CASE s.mode # "delete"
      <4>1. r = NextOperation(t)
        BY <3>1, <3>11
      <4>2. GoodTab(NextOperation(t), ever) /\ Kept(t, NextOperation(t))
        BY <3>9, NextOperationGood
      <4> QED
        BY <2>1, <3>3, <3>9, <4>1, <4>2, KeptTwice
    <3> QED
      BY <3>10, <3>11
  <2> QED
    BY <2>2, <2>3
<1> QED
  BY <1>1, <1>2, <1>3

-----------------------------------------------------------------------------
(* The command queue.  It starts its loop only where the engine is free.   *)
Looped(t, u) ==
    /\ u.lock = t.lock
    /\ t.list # <<>> => u.list # <<>> /\ Head(u.list) = Head(t.list)
    /\ u.inside => t.inside \/ (~t.lock /\ engine.cmd = NoCmd)

WithList(t, l) == [t EXCEPT !.list = l]

LEMMA WithListGood ==
    ASSUME NEW ever, NEW t, GoodTab(t, ever), NEW l \in Seq(GoodCmds(t.mode, ever))
    PROVE  LET u == WithList(t, l)
           IN  GoodTab(u, ever) /\ u.list = l /\ u.lock = t.lock /\ u.inside = t.inside
               /\ u.mode = t.mode /\ u.site = t.site
<1> DEFINE u == WithList(t, l)
<1>1. t \in TabState /\ t.todo \in Seq(GoodVisits(t.mode, ever))
  BY DEF GoodTab
<1>2. l \in Seq(Command)
  BY GoodLess, LargerSeq
<1>3. u \in TabState /\ u.list = l /\ u.lock = t.lock /\ u.inside = t.inside
      /\ u.mode = t.mode /\ u.site = t.site /\ u.todo = t.todo
  BY <1>1, <1>2 DEF TabState, WithList
<1> HIDE DEF u
<1> QED
  BY <1>1, <1>3 DEF GoodTab, u

LEMMA ProcessNextCommandGood ==
    ASSUME NEW ever, NEW t, GoodTab(t, ever)
    PROVE  GoodTab(ProcessNextCommand(t), ever) /\ Looped(t, ProcessNextCommand(t))
<1>1. CASE t.inside \/ t.lock \/ engine.cmd # NoCmd
  <2>1. ProcessNextCommand(t) = t
    BY <1>1 DEF ProcessNextCommand
  <2> QED
    BY <2>1 DEF Looped
<1>2. CASE ~(t.inside \/ t.lock \/ engine.cmd # NoCmd)
  <2>1. PICK yes \in BOOLEAN : yes = TRUE
    OBVIOUS
  <2>2. PICK x : x = IF t.list = <<>> THEN NextOperation(t) ELSE t
    OBVIOUS
  <2>3. GoodTab(x, ever) /\ Kept(t, x)
    BY <2>2, NextOperationGood, KeptSelf
  <2>4. PICK u : u = [x EXCEPT !.inside = yes]
    OBVIOUS
  <2>5. ProcessNextCommand(t) = u
    BY <1>2, <2>1, <2>2, <2>4 DEF ProcessNextCommand
  <2>6. x \in TabState
    BY <2>3 DEF GoodTab
  <2>7. u \in TabState /\ u.list = x.list /\ u.lock = x.lock /\ u.mode = x.mode
        /\ u.todo = x.todo
    BY <2>4, <2>6 DEF TabState
  <2> QED
    BY <1>2, <2>3, <2>5, <2>7 DEF GoodTab, Kept, Looped
<1> QED
  BY <1>1, <1>2

LEMMA QueueGood ==
    ASSUME NEW ever, NEW t, GoodTab(t, ever), NEW c \in Seq(GoodCmds(t.mode, ever))
    PROVE  /\ GoodTab(Queue(t, c), ever) /\ Looped(t, Queue(t, c))
           /\ Queue(t, c).inside /\ ~t.inside => t.list = <<>>
<1>1. PICK u : u = WithCmds(t, c)
  OBVIOUS
<1>2. GoodTab(u, ever) /\ Kept(t, u)
  BY <1>1, Appended
<1>3. Queue(t, c) = IF t.list = <<>> THEN ProcessNextCommand(u) ELSE u
  BY <1>1 DEF Queue, WithCmds
<1>4. GoodTab(ProcessNextCommand(u), ever) /\ Looped(u, ProcessNextCommand(u))
  BY <1>2, ProcessNextCommandGood
<1> QED
  BY <1>2, <1>3, <1>4 DEF Kept, Looped

LEMMA SetSiteGood ==
    ASSUME NEW ever, NEW t, GoodTab(t, ever), NEW site \in BOOLEAN, NEW other \in BOOLEAN
    PROVE  LET u == SetSite(t, site, other)
           IN  GoodTab(u, ever) /\ u.list = t.list /\ u.lock = t.lock /\ u.inside = t.inside
               /\ u.mode = t.mode
<1> DEFINE u == SetSite(t, site, other)
<1>1. t \in TabState
  BY DEF GoodTab
<1>2. PICK a \in BOOLEAN : a = (t.success /\ (site /\ t.site /\ ~other))
  BY <1>1 DEF TabState
<1>3. PICK b \in BOOLEAN : b = (t.shown /\ (site /\ t.site /\ ~other))
  BY <1>1 DEF TabState
<1>4. u = [t EXCEPT !.site = site, !.success = a, !.shown = b]
  BY <1>2, <1>3 DEF SetSite
<1> HIDE DEF u
<1>5. u \in TabState /\ u.list = t.list /\ u.lock = t.lock /\ u.inside = t.inside
      /\ u.mode = t.mode /\ u.todo = t.todo
  BY <1>1, <1>4 DEF TabState
<1> QED
  BY <1>5 DEF GoodTab, u

LEMMA ConnectCmds ==
    ASSUME NEW ever, NEW mode
    PROVE  /\ ConnectCmd \in GoodCmds(mode, ever) /\ DisconnectCmd \in GoodCmds(mode, ever)
           /\ Cmd("list", "normal", <<>>, {}) \in GoodCmds(mode, ever)
<1>1. ConnectCmd \in GoodCmds(mode, ever)
  BY NewCmd, EmptyPath DEF GoodCmds, Ids, ConnectCmd
<1>2. DisconnectCmd \in GoodCmds(mode, ever)
  BY NewCmd, EmptyPath DEF GoodCmds, Ids, DisconnectCmd
<1>3. Cmd("list", "normal", <<>>, {}) \in GoodCmds(mode, ever)
  BY NewCmd, EmptyPath DEF GoodCmds, Ids
<1> QED
  BY <1>1, <1>2, <1>3

LEMMA WithoutFailedConnectGood ==
    ASSUME NEW A, NEW l \in Seq(A)
    PROVE  WithoutFailedConnect(l) \in Seq(A)
<1> DEFINE later == {i \in 2 .. Len(l) : l[i].id = "connect"}
<1>1. CASE later = {}
  BY <1>1 DEF WithoutFailedConnect
<1>2. CASE later # {}
  <2>1. later \subseteq Nat
    OBVIOUS
  <2>2. Min(later) \in later
    <3> HIDE DEF later
    <3> QED
      BY <1>2, <2>1, HasMin
  <2>3. PICK k \in 2 .. Len(l) : k = Min(later)
    BY <2>2
  <2>4. WithoutFailedConnect(l) = SubSeq(l, k, Len(l))
    BY <1>2, <2>3 DEF WithoutFailedConnect
  <2> QED
    BY <2>4
<1> QED
  BY <1>1, <1>2

LEMMA ListFailedGood ==
    ASSUME NEW ever, NEW t, GoodTab(t, ever), NEW c, NEW code
    PROVE  GoodTab(ListFailed(t, c, code), ever) /\ Kept(t, ListFailed(t, c, code))
  BY LinkIsNotDirGood, ListingFailedGood, KeptSelf DEF ListFailed

(* The lock is not touched, and the loop runs only if it may.              *)
Free(t, u) == u.lock = t.lock /\ (u.inside => t.inside \/ (~t.lock /\ engine.cmd = NoCmd))

LEMMA OuterGood ==
    ASSUME NEW ever, NEW t, NEW u, GoodTab(u, ever), u.lock = t.lock, u.inside = t.inside
    PROVE  GoodTab(ProcessNextCommand(u), ever) /\ Free(t, ProcessNextCommand(u))
  BY ProcessNextCommandGood DEF Free, Looped

LEMMA ProcessReplyGood ==
    ASSUME NEW ever, NEW t, GoodTab(t, ever), NEW code, NEW id
    PROVE  GoodTab(ProcessReply(t, code, id), ever) /\ Free(t, ProcessReply(t, code, id))
<1> DEFINE r == ProcessReply(t, code, id)
           c == Head(t.list)
           A == GoodCmds(t.mode, ever)
<1>1. CASE t.list = <<>>
  BY <1>1 DEF ProcessReply, Free
<1>2. CASE t.list # <<>>
  <2>1. t.list \in Seq(A) /\ c \in A /\ Tail(t.list) \in Seq(A) /\ t \in TabState
    <3>1. t.list \in Seq(A) /\ t \in TabState
      BY DEF GoodTab
    <3> QED
      BY <1>2, <3>1, PartsOfSeq
  <2>2. SUFFICES \E u : /\ r = ProcessNextCommand(u) /\ GoodTab(u, ever)
                        /\ u.lock = t.lock /\ u.inside = t.inside
    BY OuterGood
  <2>3. CASE Reconnects(t, code, id)
    <3>1. PICK yes \in BOOLEAN : yes = TRUE
      OBVIOUS
    <3>2. PICK e : e = [c EXCEPT !.retried = yes]
      OBVIOUS
    <3>3. e \in A
      BY <2>1, <3>2 DEF GoodCmds, Command
    <3>4. ConnectCmd \in A
      BY ConnectCmds
    <3>5. <<ConnectCmd, e>> \o Tail(t.list) \in Seq(A)
      BY <2>1, <3>3, <3>4
    <3>6. PICK l \in Seq(A) : l = <<ConnectCmd, e>> \o Tail(t.list)
      BY <3>5
    <3>7. r = ProcessNextCommand(WithList(t, l))
      BY <1>2, <2>3, <3>1, <3>2, <3>6 DEF ProcessReply, WithList
    <3> QED
      BY <3>7, WithListGood
  <2>4. CASE ~Reconnects(t, code, id) /\ c.id = "list" /\ code # "ok"
    <3>1. PICK u : u = ListFailed(t, c, code)
      OBVIOUS
    <3>2. GoodTab(u, ever) /\ Kept(t, u)
      BY <3>1, ListFailedGood
    <3>3. u.list \in Seq(GoodCmds(u.mode, ever)) /\ u.list # <<>>
      BY <1>2, <3>2 DEF GoodTab, Kept
    <3>4. PICK l \in Seq(GoodCmds(u.mode, ever)) : l = Tail(u.list)
      BY <3>3, PartsOfSeq
    <3>5. r = ProcessNextCommand(WithList(u, l))
      BY <1>2, <2>4, <3>1, <3>4 DEF ProcessReply, WithList
    <3> QED
      BY <3>2, <3>5, WithListGood DEF Kept
  <2>5. CASE /\ ~Reconnects(t, code, id) /\ ~(c.id = "list" /\ code # "ok")
             /\ code = "alreadyconnected" /\ c.id = "connect"
    <3>1. DisconnectCmd \in A
      BY ConnectCmds
    <3>2. <<DisconnectCmd>> \o t.list \in Seq(A)
      BY <1>2, <2>1, <3>1, PartsOfSeq
    <3>3. PICK l \in Seq(A) : l = <<DisconnectCmd>> \o t.list
      BY <3>2
    <3>4. r = ProcessNextCommand(WithList(t, l))
      BY <1>2, <2>5, <3>3 DEF ProcessReply, WithList
    <3> QED
      BY <3>4, WithListGood
  <2>6. CASE /\ ~Reconnects(t, code, id) /\ ~(c.id = "list" /\ code # "ok")
             /\ ~(code = "alreadyconnected" /\ c.id = "connect")
             /\ c.id = "connect" /\ code # "ok"
    <3>1. PICK l \in Seq(A) : l = WithoutFailedConnect(t.list)
      BY <2>1, WithoutFailedConnectGood
    <3>2. PICK u : u = WithList(t, l)
      OBVIOUS
    <3>3. GoodTab(u, ever) /\ u.lock = t.lock /\ u.inside = t.inside
      BY <3>2, WithListGood
    <3>4. r = ProcessNextCommand(StopRecursiveOperation(u))
      BY <1>2, <2>6, <3>1, <3>2 DEF ProcessReply, WithList
    <3> QED
      BY <3>3, <3>4, StopGood DEF Kept
  <2>7. CASE /\ ~Reconnects(t, code, id) /\ ~(c.id = "list" /\ code # "ok")
             /\ c.id = "connect" /\ code = "ok"
    <3>1. PICK yes \in BOOLEAN : yes = TRUE
      OBVIOUS
    <3>2. PICK u : u = [t EXCEPT !.success = yes]
      OBVIOUS
    <3>3. u \in TabState /\ u.list = t.list /\ u.lock = t.lock /\ u.inside = t.inside
          /\ u.mode = t.mode /\ u.todo = t.todo
      BY <2>1, <3>2 DEF TabState
    <3>4. GoodTab(u, ever)
      BY <3>3 DEF GoodTab
    <3>5. PICK l \in Seq(GoodCmds(u.mode, ever)) : l = Tail(u.list)
      BY <2>1, <3>3
    <3>6. r = ProcessNextCommand(WithList(u, l))
      BY <1>2, <2>7, <3>1, <3>2, <3>5 DEF ProcessReply, WithList
    <3> QED
      BY <3>3, <3>4, <3>6, WithListGood
  <2>8. CASE /\ ~Reconnects(t, code, id) /\ ~(c.id = "list" /\ code # "ok")
             /\ c.id # "connect"
    <3>1. PICK l \in Seq(A) : l = Tail(t.list)
      BY <2>1
    <3>2. r = ProcessNextCommand(WithList(t, l))
      BY <1>2, <2>8, <3>1 DEF ProcessReply, WithList
    <3> QED
      BY <3>2, WithListGood
  <2> QED
    BY <2>3, <2>4, <2>5, <2>6, <2>7, <2>8
<1> QED
  BY <1>1, <1>2

(* Cancelling keeps the command that runs.                                 *)
LEMMA CancelledGood ==
    ASSUME NEW ever, NEW t, GoodTab(t, ever)
    PROVE  LET u == Cancelled(t)
           IN  /\ GoodTab(u, ever) /\ u.lock = t.lock /\ u.inside = t.inside
               /\ t.lock => u.list = t.list
               /\ engine.cmd # NoCmd /\ t.list # <<>> =>
                     u.list # <<>> /\ Head(u.list) = Head(t.list)
               /\ t.list = <<>> => u.list = <<>>
<1> DEFINE u == Cancelled(t)
           A == GoodCmds(t.mode, ever)
<1>1. CASE t.lock \/ t.list = <<>>
  <2>1. u = t
    BY <1>1 DEF Cancelled
  <2> QED
    BY <2>1
<1>2. CASE ~(t.lock \/ t.list = <<>>)
  <2>1. t.list \in Seq(A) /\ t.list # <<>>
    BY <1>2 DEF GoodTab
  <2>2. <<>> \in Seq(A) /\ Head(t.list) \in A
    BY <2>1, PartsOfSeq
  <2>3. <<Head(t.list)>> \in Seq(A) /\ <<Head(t.list)>> # <<>>
        /\ Head(<<Head(t.list)>>) = Head(t.list)
    BY <2>2
  <2>4. PICK l \in Seq(A) : l = IF engine.cmd = NoCmd THEN <<>> ELSE <<Head(t.list)>>
    BY <2>2, <2>3
  <2>5. u = WithList(t, l)
    BY <1>2, <2>4 DEF Cancelled, WithList
  <2> HIDE DEF u
  <2>6. GoodTab(u, ever) /\ u.list = l /\ u.lock = t.lock /\ u.inside = t.inside
    BY <2>5, WithListGood
  <2> QED
    BY <1>2, <2>3, <2>4, <2>6 DEF u
<1> QED
  BY <1>1, <1>2

-----------------------------------------------------------------------------
(* Every action keeps the tab, the engine and the inbox in step.           *)
Good == InStep /\ Types /\ Steps /\ DeletesOnlyChosen

LEMMA Distinct == NoCmd \notin Command /\ TransferCmd \notin Command /\ TransferCmd # NoCmd
                  /\ NoCmd.id = "none" /\ TransferCmd.id = "transfer"
<1>1. NoCmd.id = "none" /\ TransferCmd.id = "transfer"
  BY DEF NoCmd, TransferCmd, Cmd
<1>2. \A c \in Command : c.id \in Ids
  BY DEF Command
<1> QED
  BY <1>1, <1>2 DEF Ids

(* What is in the queue.                                                   *)
LEMMA HeadIsGood ==
    ASSUME Types, tab.list # <<>>
    PROVE  /\ tab.list \in Seq(GoodCmds(tab.mode, chosen.ever))
           /\ Head(tab.list) \in GoodCmds(tab.mode, chosen.ever)
           /\ Head(tab.list) \in Command /\ Head(tab.list) = tab.list[1]
<1>1. tab.list \in Seq(GoodCmds(tab.mode, chosen.ever))
  BY DEF Types, GoodTab
<1>2. Head(tab.list) \in GoodCmds(tab.mode, chosen.ever) /\ Head(tab.list) = tab.list[1]
  BY <1>1
<1> QED
  BY <1>1, <1>2, GoodLess

LEMMA SameDeletes ==
    ASSUME Good, UNCHANGED <<tree, env>>, chosen.ever \subseteq chosen'.ever
    PROVE  DeletesOnlyChosen' /\ InStep'
  BY ChosenMore DEF Good, DeletesOnlyChosen, InStep

LEMMA SameTypes ==
    ASSUME Types, UNCHANGED chosen, GoodTab(tab', chosen.ever), engine' \in Engine,
           queue' \in {"none", "waits", "granted", "uses"}, tree' \subseteq Tree
    PROVE  Types'
  BY DEF Types

(* Nothing is under way if the queue is empty, the loop runs or no reply   *)
(* has been posted while the engine is idle.                               *)
LEMMA NothingUnderWay ==
    ASSUME Steps, ~tab.lock, tab.list = <<>>
    PROVE  engine.cmd = NoCmd /\ inbox = <<>> /\ ~engine.late
  BY DEF Steps, Announced, ReplyFits, Heads

LEMMA NoReply ==
    ASSUME Good, InTime
    PROVE  inbox = <<>>
<1>1. \A i \in DOMAIN inbox : inbox[i].kind # "reply"
  BY DEF Good, InStep, InTime
<1>2. \A r \in Replies : r.kind = "reply"
  BY DEF Replies
<1>3. ASSUME Len(inbox) = 1, inbox = <<inbox[1]>>, inbox[1] \in Replies
      PROVE  FALSE
  <2>1. 1 \in DOMAIN inbox
    BY <1>3
  <2> QED
    BY <1>1, <1>2, <1>3, <2>1
<1>4. ASSUME Len(inbox) = 2, inbox = <<inbox[1], inbox[2]>>, inbox[2] \in Replies
      PROVE  FALSE
  <2>1. 2 \in DOMAIN inbox
    BY <1>4
  <2> QED
    BY <1>1, <1>2, <1>4, <2>1
<1> QED
  BY <1>3, <1>4 DEF Good, Steps, Announced

LEMMA QuietSteps ==
    ASSUME engine'.cmd = NoCmd, ~engine'.late, inbox' = <<>>, tab'.inside => ~tab'.lock,
           tab'.lock <=> queue' \in {"granted", "uses"}
    PROVE  Steps'
  BY DEF Steps, Announced

(* The queue may grow while something is under way.                        *)
LEMMA StepsKept ==
    ASSUME Steps, tab'.lock = tab.lock, queue' = queue, inbox' = inbox,
           engine'.cmd = engine.cmd, engine'.late = engine.late,
           (~tab.lock /\ tab.list # <<>> /\ (engine.cmd # NoCmd \/ inbox # <<>>)) =>
               tab'.list # <<>> /\ Head(tab'.list) = Head(tab.list),
           tab'.inside => engine.cmd = NoCmd /\ inbox = <<>> /\ ~tab.lock
    PROVE  Steps'
<1>1. Announced'
  <2>1. ASSUME NEW r, ReplyFits(r), inbox # <<>>
        PROVE  ReplyFits(r)'
    BY <2>1 DEF ReplyFits
  <2>2. ASSUME NEW l, NEW r, ListingFits(l, r), inbox # <<>>
        PROVE  ListingFits(l, r)'
    BY <2>2 DEF ListingFits, Leads
  <2>3. (Len(inbox) = 1 /\ inbox = <<inbox[1]>>) \/ (Len(inbox) = 2 /\ inbox = <<inbox[1], inbox[2]>>)
        => inbox # <<>>
    OBVIOUS
  <2> QED
    BY <2>1, <2>2, <2>3 DEF Steps, Announced
<1> QED
  BY <1>1 DEF Steps, Heads

(* The engine ends its command and posts the reply.                        *)
LEMMA ReplyPosted ==
    ASSUME Good, engine.cmd # NoCmd, engine'.cmd = NoCmd, ~engine'.late, NEW code \in Codes,
           inbox' = <<Reply(code)>>, UNCHANGED <<tab, queue>>
    PROVE  Steps'
<1>1. engine.cmd \in Command \cup {TransferCmd}
  BY DEF Good, Types, Engine
<1>2. engine.cmd.id \in Ids \cup {"transfer"}
  BY <1>1, Distinct DEF Command
<1>3. PICK r \in Replies : r = Reply(code) /\ r.id = engine.cmd.id
  <2>1. Reply(code) \in Replies /\ Reply(code).id = engine.cmd.id
    BY <1>2 DEF Reply, Replies
  <2> QED
    BY <2>1
<1>4. ReplyFits(r)'
  BY <1>3, Distinct DEF Good, Steps, ReplyFits, Heads
<1>5. inbox' = <<r>>
  BY <1>3
<1>6. Announced'
  BY <1>4, <1>5 DEF Announced
<1> QED
  BY <1>6 DEF Good, Steps

-----------------------------------------------------------------------------
(* The interface.                                                          *)
WithInside(t, b, c) == [t EXCEPT !.inside = b, !.lock = c]

LEMMA WithInsideGood ==
    ASSUME NEW ever, NEW t, GoodTab(t, ever), NEW b \in BOOLEAN, NEW c \in BOOLEAN
    PROVE  LET u == WithInside(t, b, c)
           IN  GoodTab(u, ever) /\ u.inside = b /\ u.lock = c /\ u.list = t.list
<1> DEFINE u == WithInside(t, b, c)
<1>1. t \in TabState
  BY DEF GoodTab
<1>2. u \in TabState /\ u.inside = b /\ u.lock = c /\ u.list = t.list /\ u.mode = t.mode
      /\ u.todo = t.todo
  BY <1>1 DEF TabState, WithInside
<1> HIDE DEF u
<1> QED
  BY <1>2 DEF GoodTab, u

LEMMA ExecuteNextGood ==
    ASSUME Good, ExecuteNext
    PROVE  Good'
<1>1. tab.inside /\ tab.list # <<>> /\ engine' = Executes(Head(tab.list))
      /\ tab' = [tab EXCEPT !.inside = FALSE]
  BY DEF ExecuteNext
<1>2. UNCHANGED <<inbox, queue, tree, chosen, env>>
  BY DEF ExecuteNext
<1>3. engine.cmd = NoCmd /\ inbox = <<>> /\ ~tab.lock /\ engine \in Engine
      /\ tab \in TabState /\ GoodTab(tab, chosen.ever)
  BY <1>1 DEF Good, Steps, Types, GoodTab
<1>4. PICK c \in Command : c = Head(tab.list)
  BY <1>1, HeadIsGood DEF Good
<1>5. engine.cancel \in BOOLEAN
  BY <1>3 DEF Engine
<1>6. PICK no \in BOOLEAN : no = FALSE
  OBVIOUS
<1>7. PICK late \in BOOLEAN : late = engine.cancel
  BY <1>5
<1>8. engine' = [engine EXCEPT !.cmd = c, !.late = late, !.cancel = no]
  BY <1>1, <1>4, <1>6, <1>7 DEF Executes
<1>9. engine' \in Engine /\ engine'.cmd = c
  BY <1>3, <1>8 DEF Engine
<1>10. tab' = [tab EXCEPT !.inside = no]
  BY <1>1, <1>6
<1>11. tab' \in TabState /\ tab'.list = tab.list /\ tab'.lock = tab.lock /\ tab'.inside = no
       /\ tab'.mode = tab.mode /\ tab'.todo = tab.todo
  BY <1>3, <1>10 DEF TabState
<1>12. GoodTab(tab', chosen.ever)
  BY <1>3, <1>11 DEF GoodTab
<1>13. Types'
  BY <1>2, <1>9, <1>12, SameTypes DEF Good, Types
<1>14. Steps'
  BY <1>1, <1>2, <1>3, <1>4, <1>6, <1>9, <1>11, Distinct DEF Good, Steps, Announced, Heads
<1> QED
  BY <1>2, <1>13, <1>14, SameDeletes DEF Good

LEMMA ExecuteFailsGood ==
    ASSUME Good, ExecuteFails
    PROVE  Good'
<1>1. PICK code : tab' = ProcessReply(tab, code, Head(tab.list).id)
  BY DEF ExecuteFails
<1>2. tab.inside /\ UNCHANGED <<engine, inbox, queue, tree, chosen, env>>
  BY DEF ExecuteFails
<1>3. GoodTab(tab', chosen.ever) /\ Free(tab, tab')
  BY <1>1, ProcessReplyGood DEF Good, Types
<1>4. engine.cmd = NoCmd /\ inbox = <<>> /\ ~tab.lock /\ ~engine.late
      /\ (tab.lock <=> queue \in {"granted", "uses"})
  BY <1>2 DEF Good, Steps
<1>5. Types'
  BY <1>2, <1>3, SameTypes DEF Good, Types
<1>6. Steps'
  BY <1>2, <1>3, <1>4, QuietSteps DEF Free
<1> QED
  BY <1>2, <1>5, <1>6, SameDeletes DEF Good

LEMMA LoopEndsGood ==
    ASSUME Good, LoopEnds
    PROVE  Good'
<1>1. /\ tab.inside /\ tab.list = <<>>
      /\ queue' = (IF queue = "waits" THEN "granted" ELSE queue)
      /\ UNCHANGED <<engine, inbox, tree, chosen, env>>
  BY DEF LoopEnds
<1>2. engine.cmd = NoCmd /\ inbox = <<>> /\ ~tab.lock /\ ~engine.late
      /\ queue \in {"none", "waits"} /\ GoodTab(tab, chosen.ever)
  BY <1>1 DEF Good, Steps, Types
<1>3. PICK no \in BOOLEAN : no = FALSE
  OBVIOUS
<1>4. PICK yes \in BOOLEAN : yes = TRUE
  OBVIOUS
<1>5. PICK w \in BOOLEAN : w = (queue = "waits")
  OBVIOUS
<1>6. PICK t : t = WithInside(tab, no, w)
  OBVIOUS
<1>7. tab' = (IF t.success THEN t ELSE SetSite(t, no, yes))
  BY <1>3, <1>4, <1>5, <1>6 DEF LoopEnds, WithInside
<1>8. PICK ever : ever = chosen.ever
  OBVIOUS
<1>9. GoodTab(t, ever) /\ t.inside = no /\ t.lock = w
  <2>1. GoodTab(tab, ever)
    BY <1>2, <1>8
  <2>2. GoodTab(t, ever)
    BY <1>6, <2>1, WithInsideGood
  <2>3. t.inside = no /\ t.lock = w
    BY <1>6, <2>1 DEF WithInside, GoodTab, TabState
  <2> QED
    BY <2>2, <2>3
<1>10. PICK u : u = SetSite(t, no, yes)
  OBVIOUS
<1>11. GoodTab(u, ever) /\ u.inside = no /\ u.lock = w
  <2>1. GoodTab(u, ever)
    BY <1>9, <1>10, SetSiteGood
  <2>2. u.inside = t.inside /\ u.lock = t.lock
    BY <1>9, <1>10 DEF SetSite, GoodTab, TabState
  <2> QED
    BY <1>9, <2>1, <2>2
<1>12. tab' = t \/ tab' = u
  BY <1>7, <1>10
<1>13. GoodTab(tab', ever) /\ tab'.inside = no /\ tab'.lock = w
  BY <1>9, <1>11, <1>12
<1>14. Types'
  BY <1>1, <1>2, <1>8, <1>13, SameTypes DEF Good, Types
<1>15. Steps'
  BY <1>1, <1>2, <1>3, <1>5, <1>13, QuietSteps
<1> QED
  BY <1>1, <1>14, <1>15, SameDeletes DEF Good

LEMMA FinishGood ==
    ASSUME Good, Finish
    PROVE  Good'
<1>1. /\ ~tab.inside /\ inbox # <<>> /\ Head(inbox).kind = "reply" /\ inbox' = Tail(inbox)
      /\ UNCHANGED <<engine, tree, chosen, env>>
  BY DEF Finish
<1>2. inbox' = <<>> /\ ReplyFits(inbox[1])
  <2>1. ASSUME Len(inbox) = 2, inbox = <<inbox[1], inbox[2]>>, inbox[1] \in Listings
        PROVE  FALSE
    BY <1>1, <2>1 DEF Listings
  <2>2. ASSUME Len(inbox) = 1, inbox = <<inbox[1]>>
        PROVE  Tail(inbox) = <<>>
    <3>1. PICK x : x = inbox[1]
      OBVIOUS
    <3>2. inbox = <<x>>
      BY <2>2, <3>1
    <3> QED
      BY <3>2
  <2> QED
    BY <1>1, <2>1, <2>2 DEF Good, Steps, Announced
<1>3. engine.cmd = NoCmd /\ ~engine.late /\ (tab.lock <=> queue \in {"granted", "uses"})
  BY <1>1 DEF Good, Steps
<1>4. CASE tab.lock
  <2>1. tab' = tab /\ queue' = "granted"
    BY <1>2, <1>4 DEF Finish, ReplyFits
  <2>2. Types'
    BY <1>1, <2>1, SameTypes DEF Good, Types
  <2>3. Steps'
    BY <1>1, <1>2, <1>3, <1>4, <2>1, QuietSteps
  <2> QED
    BY <1>1, <2>2, <2>3, SameDeletes DEF Good
<1>5. CASE ~tab.lock
  <2>1. queue' = queue /\ \E code, id : tab' = ProcessReply(tab, code, id)
    BY <1>5 DEF Finish
  <2>2. GoodTab(tab', chosen.ever) /\ Free(tab, tab')
    BY <2>1, ProcessReplyGood DEF Good, Types
  <2>3. Types'
    BY <1>1, <2>1, <2>2, SameTypes DEF Good, Types
  <2>4. Steps'
    BY <1>1, <1>2, <1>3, <1>5, <2>1, <2>2, QuietSteps DEF Free
  <2> QED
    BY <1>1, <2>3, <2>4, SameDeletes DEF Good
<1> QED
  BY <1>4, <1>5

(* A directory has finitely many entries.                                  *)
LEMMA ChildrenAreNames ==
    ASSUME Types, NEW p
    PROVE  Children(p) \in SUBSET Names /\ IsFiniteSet(Children(p))
<1> DEFINE S == {m \in tree : Front(m) = p}
<1>1. S \subseteq Tree
  BY DEF Types
<1>2. IsFiniteSet(S)
  BY <1>1, TabAssumption, FS_Subset
<1>3. Children(p) = {Last(n) : n \in S}
  BY DEF Children
<1>4. ASSUME NEW n \in S
      PROVE  Last(n) \in Names
  <2>1. n \in Seq(Names) /\ n # <<>>
    BY <1>1, TabAssumption DEF Paths
  <2> QED
    BY <2>1 DEF Last
<1> HIDE DEF S
<1>5. IsFiniteSet({Last(n) : n \in S})
  <2> DEFINE f == [n \in S |-> Last(n)]
  <2>1. f \in Surjection(S, {Last(n) : n \in S})
    BY DEF Surjection
  <2> HIDE DEF f
  <2> QED
    BY <1>2, <2>1, FS_Surjection
<1> QED
  BY <1>3, <1>4, <1>5

(* A listing of the recursive operation is that of the directory at the    *)
(* head of the queue.                                                      *)
LEMMA RecursiveHead ==
    ASSUME NEW A, NEW list \in Seq(A), list # <<>>, Head(list).id = "list", IsRecursive(list)
    PROVE  Head(list).origin = "recursive"
<1> DEFINE lists == {i \in DOMAIN list : list[i].id = "list"}
<1>1. 1 \in lists /\ lists \subseteq Nat /\ list[1] = Head(list)
  OBVIOUS
<1>2. list[Min(lists)].origin = "recursive"
  BY DEF IsRecursive
<1> HIDE DEF lists
<1>3. Min(lists) \in lists /\ Min(lists) =< 1
  BY <1>1, HasMin
<1>4. \A i \in lists : i >= 1
  BY DEF lists
<1>5. Min(lists) = 1
  <2>1. PICK m \in lists : m = Min(lists)
    BY <1>3
  <2>2. m \in Nat /\ m >= 1 /\ m =< 1
    BY <1>1, <1>3, <1>4, <2>1
  <2> QED
    BY <2>1, <2>2
<1> QED
  BY <1>1, <1>2, <1>5

LEMMA ListedIsChosen ==
    ASSUME Types, tab.list # <<>>, Head(tab.list).id = "list",
           Head(tab.list).origin = "recursive", tab.mode = "delete",
           NEW p, Leads(Head(tab.list), p)
    PROVE  Chosen(p, chosen.ever)
<1>1. PICK c \in GoodCmds(tab.mode, chosen.ever) : c = Head(tab.list)
  BY HeadIsGood
<1>2. GoodPath(c.dir, chosen.ever)
  BY <1>1 DEF GoodCmds
<1>3. Leads(c, p)
  BY <1>1
<1> QED
  BY <1>2, <1>3 DEF GoodPath, Leads

LEMMA ListingGood ==
    ASSUME Good, Listing
    PROVE  Good'
<1>1. /\ ~tab.inside /\ inbox # <<>> /\ Head(inbox).kind = "listing" /\ inbox' = Tail(inbox)
      /\ UNCHANGED <<engine, queue, tree, chosen, env>>
  BY DEF Listing
<1>2. PICK l \in Listings, r \in Replies :
         inbox = <<l, r>> /\ ReplyFits(r) /\ ListingFits(l, r)
  <2>1. ASSUME Len(inbox) = 1, inbox = <<inbox[1]>>, inbox[1] \in Replies
        PROVE  FALSE
    BY <1>1, <2>1 DEF Replies
  <2> QED
    BY <1>1, <2>1 DEF Good, Steps, Announced
<1>3. inbox' = <<r>> /\ Head(inbox) = l
  BY <1>1, <1>2
<1>4. ~tab.lock /\ tab.list # <<>> /\ Head(tab.list).id = "list" /\ r.id = "list"
      /\ Leads(Head(tab.list), l.path) /\ l.path \in Paths
  BY <1>2 DEF ListingFits, ReplyFits, Listings
<1>5. engine.cmd = NoCmd /\ ~engine.late /\ (tab.lock <=> queue \in {"granted", "uses"})
  BY <1>1 DEF Good, Steps
<1>6. GoodTab(tab, chosen.ever) /\ chosen.ever \in SUBSET Paths
  BY DEF Good, Types
<1>7. IsRecursive(tab.list) /\ tab.mode = "delete" => Chosen(l.path, chosen.ever)
  <2>1. tab.list \in Seq(GoodCmds(tab.mode, chosen.ever))
    BY <1>6 DEF GoodTab
  <2> QED
    BY <1>4, <2>1, RecursiveHead, ListedIsChosen DEF Good
<1>8. GoodTab(tab', chosen.ever) /\ Kept(tab, tab')
  <2>1. PICK available \in BOOLEAN :
           tab' = IF ~IsRecursive(tab.list) THEN [tab EXCEPT !.shown = TRUE]
                  ELSE IF ~tab.site THEN StopRecursiveOperation(tab)
                  ELSE ProcessDirectoryListing(tab, l.path, Children(l.path), available)
    BY <1>3 DEF Listing
  <2>2. CASE ~IsRecursive(tab.list)
    <3>1. PICK yes \in BOOLEAN : yes = TRUE
      OBVIOUS
    <3>2. tab' = [tab EXCEPT !.shown = yes]
      BY <2>1, <2>2, <3>1
    <3>3. tab \in TabState
      BY <1>6 DEF GoodTab
    <3>4. tab' \in TabState /\ tab'.list = tab.list /\ tab'.lock = tab.lock
          /\ tab'.inside = tab.inside /\ tab'.mode = tab.mode /\ tab'.todo = tab.todo
          /\ tab'.site = tab.site
      BY <3>2, <3>3 DEF TabState
    <3> QED
      BY <1>6, <3>4 DEF GoodTab, Kept
  <2>3. CASE IsRecursive(tab.list) /\ ~tab.site
    <3>1. tab' = StopRecursiveOperation(tab)
      BY <2>1, <2>3
    <3> QED
      BY <1>6, <3>1, StopGood
  <2>4. CASE IsRecursive(tab.list) /\ tab.site
    <3>1. PICK p \in Paths : p = l.path
      BY <1>4
    <3>2. PICK names \in SUBSET Names : names = Children(p) /\ IsFiniteSet(names)
      BY ChildrenAreNames DEF Good
    <3>3. tab' = ProcessDirectoryListing(tab, p, names, available)
      BY <2>1, <2>4, <3>1, <3>2
    <3>4. tab.mode = "delete" => Chosen(p, chosen.ever)
      BY <1>7, <2>4, <3>1
    <3> QED
      BY <1>6, <3>2, <3>3, <3>4, ProcessDirectoryListingGood
  <2> QED
    BY <2>2, <2>3, <2>4
<1>9. Types'
  BY <1>1, <1>8, SameTypes DEF Good, Types
<1>10. ReplyFits(r)'
  BY <1>1, <1>2, <1>4, <1>8 DEF ReplyFits, Kept
<1>11. Announced'
  BY <1>3, <1>10 DEF Announced
<1>12. Steps'
  BY <1>1, <1>5, <1>8, <1>11 DEF Steps, Kept
<1> QED
  BY <1>1, <1>9, <1>12, SameDeletes DEF Good

-----------------------------------------------------------------------------
(* The user.  Commands are queued behind what is under way.                *)
LEMMA QueuedGood ==
    ASSUME Good, UNCHANGED <<inbox, queue, tree, chosen, env>>,
           engine' \in Engine, engine'.cmd = engine.cmd, engine'.late = engine.late,
           ~tab.inside, NEW t, GoodTab(t, chosen.ever), t.lock = tab.lock, ~t.inside,
           tab.list = <<>> => t.list = <<>>,
           inbox # <<>> => t.list = tab.list,
           engine.cmd # NoCmd /\ tab.list # <<>> /\ ~tab.lock =>
               t.list # <<>> /\ Head(t.list) = Head(tab.list),
           NEW c \in Seq(GoodCmds(t.mode, chosen.ever)),
           tab' = Queue(t, c)
    PROVE  Good'
<1>1. PICK u : u = Queue(t, c)
  OBVIOUS
<1>2. GoodTab(u, chosen.ever) /\ Looped(t, u)
  BY <1>1, QueueGood
<1>3. u.inside => t.list = <<>>
  BY <1>1, QueueGood
<1>4. tab' = u
  BY <1>1
<1>5. Types'
  BY <1>2, <1>4, SameTypes DEF Good, Types
<1>6. tab'.lock = tab.lock
  BY <1>2, <1>4 DEF Looped
<1>7. ~tab.lock /\ tab.list # <<>> /\ (engine.cmd # NoCmd \/ inbox # <<>>) =>
         tab'.list # <<>> /\ Head(tab'.list) = Head(tab.list)
  BY <1>2, <1>4 DEF Looped
<1>8. tab'.inside => engine.cmd = NoCmd /\ inbox = <<>> /\ ~tab.lock
  <2>1. tab'.inside => engine.cmd = NoCmd /\ ~tab.lock /\ t.list = <<>>
    BY <1>2, <1>3, <1>4 DEF Looped
  <2>2. ~tab.lock /\ tab.list = <<>> => inbox = <<>>
    BY NothingUnderWay DEF Good
  <2> QED
    BY <2>1, <2>2
<1>9. Steps'
  BY <1>6, <1>7, <1>8, StepsKept DEF Good
<1> QED
  BY <1>5, <1>9, SameDeletes DEF Good

LEMMA BrowseGood ==
    ASSUME Good, Browse
    PROVE  Good'
<1>1. ~tab.inside /\ UNCHANGED <<engine, inbox, queue, tree, chosen, env>>
  BY DEF Browse, User
<1>2. PICK n \in {<<>>} \cup {m \in tree : Last(m) \in DirNames \cup LinkNames} :
         tab' = Queue(tab, <<[Cmd("list", "normal", n, {}) EXCEPT
                                !.link = (n # <<>> /\ Last(n) \in LinkNames)]>>)
  BY DEF Browse
<1>3. n \in Paths
  BY TabAssumption, EmptyPath DEF Good, Types
<1>4. PICK link \in BOOLEAN : link = (n # <<>> /\ Last(n) \in LinkNames)
  OBVIOUS
<1>5. PICK d \in Command : d = Cmd("list", "normal", n, {}) /\ d.id = "list" /\ d.origin = "normal"
  BY <1>3, NewCmd, EmptyPath DEF Ids
<1>6. PICK c : c = [d EXCEPT !.link = link]
  OBVIOUS
<1>7. c \in Command /\ c.id = "list" /\ c.origin = "normal"
  BY <1>5, <1>6 DEF Command
<1>8. c \in GoodCmds(tab.mode, chosen.ever)
  BY <1>7 DEF GoodCmds
<1>9. <<c>> \in Seq(GoodCmds(tab.mode, chosen.ever))
  BY <1>8
<1>10. PICK l \in Seq(GoodCmds(tab.mode, chosen.ever)) : l = <<c>>
  BY <1>9
<1>11. tab' = Queue(tab, l)
  BY <1>2, <1>4, <1>5, <1>6, <1>10
<1>12. PICK t : t = tab
  OBVIOUS
<1>13. l \in Seq(GoodCmds(t.mode, chosen.ever)) /\ tab' = Queue(t, l)
  BY <1>11, <1>12
<1>14. GoodTab(t, chosen.ever) /\ engine' \in Engine
  BY <1>1, <1>12 DEF Good, Types
<1> QED
  BY <1>1, <1>12, <1>13, <1>14, QueuedGood

LEMMA DisconnectGood ==
    ASSUME Good, Disconnect
    PROVE  Good'
<1>1. ~tab.inside /\ ~tab.lock /\ tab.list = <<>>
      /\ UNCHANGED <<engine, inbox, queue, tree, chosen, env>>
      /\ tab' = Queue(SetSite(tab, FALSE, TRUE), <<DisconnectCmd>>)
  BY DEF Disconnect, User, Idle
<1>2. PICK no \in BOOLEAN : no = FALSE
  OBVIOUS
<1>3. PICK yes \in BOOLEAN : yes = TRUE
  OBVIOUS
<1>4. PICK t : t = SetSite(tab, no, yes)
  OBVIOUS
<1>5. GoodTab(tab, chosen.ever)
  BY DEF Good, Types
<1>6. GoodTab(t, chosen.ever)
  BY <1>4, <1>5, SetSiteGood
<1>7. t.list = tab.list /\ t.lock = tab.lock /\ t.inside = tab.inside
  BY <1>4, <1>5 DEF SetSite, GoodTab, TabState
<1>8. DisconnectCmd \in GoodCmds(t.mode, chosen.ever)
  BY ConnectCmds
<1>9. <<DisconnectCmd>> \in Seq(GoodCmds(t.mode, chosen.ever))
  BY <1>8
<1>10. PICK l \in Seq(GoodCmds(t.mode, chosen.ever)) : l = <<DisconnectCmd>>
  BY <1>9
<1>11. tab' = Queue(t, l) /\ engine' \in Engine
  BY <1>1, <1>2, <1>3, <1>4, <1>10 DEF Good, Types
<1>12. engine.cmd = NoCmd /\ inbox = <<>>
  BY <1>1, NothingUnderWay DEF Good
<1> QED
  BY <1>1, <1>6, <1>7, <1>11, <1>12, QueuedGood

LEMMA CancelEngineGood ==
    ASSUME Good, CancelEngine(tab)
    PROVE  engine' \in Engine /\ engine'.cmd = engine.cmd /\ engine'.late = engine.late
<1>1. engine \in Engine
  BY DEF Good, Types
<1>2. PICK b \in BOOLEAN :
         b = (engine.cancel \/ (~tab.lock /\ tab.list # <<>> /\ engine.cmd # NoCmd))
  BY <1>1 DEF Engine
<1>3. engine' = [engine EXCEPT !.cancel = b]
  BY <1>2 DEF CancelEngine
<1> QED
  BY <1>1, <1>3 DEF Engine

(* The tab without what can be cancelled.                                  *)
LEMMA StoppedGood ==
    ASSUME Good, ~tab.inside, NEW t, t = StopRecursiveOperation(Cancelled(tab))
    PROVE  /\ GoodTab(t, chosen.ever) /\ t.lock = tab.lock /\ ~t.inside
           /\ tab.list = <<>> => t.list = <<>>
           /\ engine.cmd # NoCmd /\ tab.list # <<>> =>
                 t.list # <<>> /\ Head(t.list) = Head(tab.list)
<1>1. GoodTab(tab, chosen.ever)
  BY DEF Good, Types
<1>2. PICK u : u = Cancelled(tab)
  OBVIOUS
<1>3. GoodTab(u, chosen.ever) /\ u.lock = tab.lock /\ u.inside = tab.inside
      /\ (engine.cmd # NoCmd /\ tab.list # <<>> =>
             u.list # <<>> /\ Head(u.list) = Head(tab.list))
      /\ (tab.list = <<>> => u.list = <<>>)
  BY <1>1, <1>2, CancelledGood
<1>4. t = StopRecursiveOperation(u)
  BY <1>2
<1>5. GoodTab(t, chosen.ever) /\ Kept(u, t) /\ t.list = u.list
  BY <1>3, <1>4, StopGood
<1> QED
  BY <1>3, <1>5 DEF Kept

LEMMA OnCancelGood ==
    ASSUME Good, OnCancel
    PROVE  Good'
<1>1. ~tab.inside /\ UNCHANGED <<inbox, queue, tree, chosen, env>> /\ inbox = <<>>
  BY NoReply DEF OnCancel, User
<1>2. engine' \in Engine /\ engine'.cmd = engine.cmd /\ engine'.late = engine.late
  BY CancelEngineGood DEF OnCancel
<1>3. PICK t : t = StopRecursiveOperation(Cancelled(tab)) /\ tab' = t
  BY DEF OnCancel
<1>4. GoodTab(t, chosen.ever) /\ t.lock = tab.lock /\ ~t.inside
      /\ (engine.cmd # NoCmd /\ tab.list # <<>> =>
             t.list # <<>> /\ Head(t.list) = Head(tab.list))
  BY <1>1, <1>3, StoppedGood
<1>5. Types'
  BY <1>1, <1>2, <1>3, <1>4, SameTypes DEF Good, Types
<1>6. Steps'
  BY <1>1, <1>2, <1>3, <1>4, StepsKept DEF Good
<1> QED
  BY <1>1, <1>5, <1>6, SameDeletes DEF Good

LEMMA ConnectGood ==
    ASSUME Good, Connect
    PROVE  Good'
<1>1. ~tab.inside /\ UNCHANGED <<inbox, queue, tree, chosen, env>> /\ inbox = <<>>
  BY NoReply DEF Connect, User
<1>2. engine' \in Engine /\ engine'.cmd = engine.cmd /\ engine'.late = engine.late
  BY CancelEngineGood DEF Connect
<1>3. PICK s : s = StopRecursiveOperation(Cancelled(tab))
  OBVIOUS
<1>4. GoodTab(s, chosen.ever) /\ s.lock = tab.lock /\ ~s.inside
      /\ (tab.list = <<>> => s.list = <<>>)
      /\ (engine.cmd # NoCmd /\ tab.list # <<>> =>
             s.list # <<>> /\ Head(s.list) = Head(tab.list))
  BY <1>1, <1>3, StoppedGood
<1>5. PICK yes \in BOOLEAN : yes = TRUE
  OBVIOUS
<1>6. PICK other \in BOOLEAN :
         tab' = Queue(SetSite(s, yes, other), <<ConnectCmd, Cmd("list", "normal", <<>>, {})>>)
  BY <1>3, <1>5 DEF Connect
<1>7. PICK t : t = SetSite(s, yes, other)
  OBVIOUS
<1>8. GoodTab(t, chosen.ever)
  BY <1>4, <1>7, SetSiteGood
<1>9. t.list = s.list /\ t.lock = s.lock /\ t.inside = s.inside
  BY <1>4, <1>7 DEF SetSite, GoodTab, TabState
<1>10. ConnectCmd \in GoodCmds(t.mode, chosen.ever)
       /\ Cmd("list", "normal", <<>>, {}) \in GoodCmds(t.mode, chosen.ever)
  BY ConnectCmds
<1>11. PICK c \in GoodCmds(t.mode, chosen.ever), d \in GoodCmds(t.mode, chosen.ever) :
          c = ConnectCmd /\ d = Cmd("list", "normal", <<>>, {})
  BY <1>10
<1>12. <<c, d>> \in Seq(GoodCmds(t.mode, chosen.ever))
  OBVIOUS
<1>13. PICK l \in Seq(GoodCmds(t.mode, chosen.ever)) : l = <<c, d>>
  BY <1>12
<1>14. tab' = Queue(t, l)
  BY <1>6, <1>7, <1>11, <1>13
<1> QED
  BY <1>1, <1>2, <1>4, <1>8, <1>9, <1>14, QueuedGood

(* What is chosen is good to be visited.                                   *)
LEMMA StartRecursiveOperationGood ==
    ASSUME Good, StartRecursiveOperation
    PROVE  Good'
<1>1. ~tab.inside /\ ~tab.lock /\ tab.list = <<>>
      /\ UNCHANGED <<engine, inbox, queue, tree, env>>
  BY DEF StartRecursiveOperation, User, Idle
<1>2. engine.cmd = NoCmd /\ inbox = <<>> /\ ~engine.late
      /\ (tab.lock <=> queue \in {"granted", "uses"})
  BY <1>1, NothingUnderWay DEF Good, Steps
<1>3. PICK n \in tree, mode \in {"delete", "transfer"}, link \in {0, 2} :
         LET all == {n} \cup (IF Last(n) \in LinkNames THEN Targets[n] ELSE {})
             t == [tab EXCEPT !.mode = mode, !.start = <<>>, !.visited = {},
                              !.todo = <<NewDir(n, link, TRUE, {})>>, !.handled = {}]
         IN  /\ tab' = ProcessNextCommand(NextOperation(t))
             /\ chosen' = [to |-> mode,
                           nodes |-> {m \in tree : Chosen(m, all) /\ ~LeadsOn(m)},
                           ever |-> chosen.ever \cup (IF mode = "delete" THEN all ELSE {})]
  BY DEF StartRecursiveOperation
<1>all. PICK all : all = {n} \cup (IF Last(n) \in LinkNames THEN Targets[n] ELSE {})
  OBVIOUS
<1>tab. PICK t : t = [tab EXCEPT !.mode = mode, !.start = <<>>, !.visited = {},
                              !.todo = <<NewDir(n, link, TRUE, {})>>, !.handled = {}]
  OBVIOUS
<1>picked. tab' = ProcessNextCommand(NextOperation(t))
           /\ chosen' = [to |-> mode,
                         nodes |-> {m \in tree : Chosen(m, all) /\ ~LeadsOn(m)},
                         ever |-> chosen.ever \cup (IF mode = "delete" THEN all ELSE {})]
  BY <1>3, <1>all, <1>tab
<1>4. PICK ever : ever = chosen.ever \cup (IF mode = "delete" THEN all ELSE {})
  OBVIOUS
<1>5. n \in Tree /\ n \in Paths /\ all \subseteq Paths
  BY <1>picked, <1>all, <1>tab, TabAssumption DEF Good, Types
<1>6. ever \subseteq Paths /\ chosen.ever \subseteq ever
  BY <1>4, <1>5 DEF Good, Types
<1>7. mode = "delete" => GoodPath(n, ever)
  <2>1. ASSUME mode = "delete"
        PROVE  all \subseteq ever
    BY <1>4, <2>1
  <2> QED
    BY <1>picked, <1>all, <1>tab, <1>6, <2>1, ChosenSelf DEF GoodPath
<1>8. PICK d : d = NewDir(n, link, TRUE, {})
  OBVIOUS
<1>9. d \in GoodVisits(mode, ever)
  <2>1. PICK yes \in BOOLEAN : yes = TRUE
    OBVIOUS
  <2>2. d = NewDir(n, link, yes, {})
    BY <1>8, <2>1
  <2>3. link \in 0 .. 2
    OBVIOUS
  <2> QED
    BY <1>5, <1>7, <2>2, <2>3, NewDirGood, EmptyPath
<1>10. <<d>> \in Seq(GoodVisits(mode, ever)) /\ <<d>> \in Seq(ToVisit)
  BY <1>9, GoodLess
<1>11. PICK todo : todo = <<d>>
  OBVIOUS
<1>12. GoodTab(t, ever)
  <2>1. tab \in TabState
    BY DEF Good, Types, GoodTab
  <2>2. t = [tab EXCEPT !.mode = mode, !.start = <<>>, !.visited = {},
                        !.todo = todo, !.handled = {}]
    BY <1>picked, <1>all, <1>tab, <1>8, <1>11
  <2>3. t \in TabState /\ t.list = tab.list /\ t.todo = todo /\ t.mode = mode
    BY <1>10, <1>11, <2>1, <2>2, EmptyPath DEF TabState
  <2>4. t.list \in Seq(GoodCmds(t.mode, ever))
    BY <1>1, <2>3
  <2> QED
    BY <1>10, <1>11, <2>3, <2>4 DEF GoodTab
<1>13. t.lock = tab.lock /\ t.inside = tab.inside
  <2>1. tab \in TabState
    BY DEF Good, Types, GoodTab
  <2> QED
    BY <1>picked, <1>all, <1>tab, <2>1 DEF TabState
<1>14. PICK s : s = NextOperation(t)
  OBVIOUS
<1>15. GoodTab(s, ever) /\ Kept(t, s)
  BY <1>12, <1>14, NextOperationGood
<1>16. PICK u : u = ProcessNextCommand(s)
  OBVIOUS
<1>17. GoodTab(u, ever) /\ Looped(s, u)
  BY <1>15, <1>16, ProcessNextCommandGood
<1>18. tab' = u /\ chosen'.ever = ever
       /\ chosen' = [to |-> chosen'.to, nodes |-> chosen'.nodes, ever |-> chosen'.ever]
  BY <1>picked, <1>all, <1>tab, <1>4, <1>14, <1>16
<1>19. Types'
  BY <1>1, <1>6, <1>17, <1>18 DEF Good, Types
<1>20. tab'.lock = tab.lock
  BY <1>13, <1>15, <1>17, <1>18 DEF Kept, Looped
<1>21. Steps'
  BY <1>1, <1>2, <1>20, QuietSteps
<1> QED
  BY <1>1, <1>6, <1>18, <1>19, <1>21, SameDeletes DEF Good

-----------------------------------------------------------------------------
(* The transfer queue.                                                     *)
LEMMA RequestGood ==
    ASSUME Good, RequestExclusiveEngine
    PROVE  Good'
<1>1. ~tab.inside /\ queue = "none" /\ UNCHANGED <<engine, inbox, tree, chosen, env>>
  BY DEF RequestExclusiveEngine
<1>2. ~tab.lock /\ GoodTab(tab, chosen.ever)
  BY <1>1 DEF Good, Steps, Types
<1>3. PICK b \in BOOLEAN : b = (tab.list = <<>>)
  OBVIOUS
<1>4. tab' = [tab EXCEPT !.lock = b]
  BY <1>2, <1>3 DEF RequestExclusiveEngine
<1>5. queue' = IF b THEN "granted" ELSE "waits"
  BY <1>2, <1>3 DEF RequestExclusiveEngine
<1>6. tab \in TabState
  BY <1>2 DEF GoodTab
<1>7. tab' \in TabState /\ tab'.list = tab.list /\ tab'.lock = b /\ tab'.inside = tab.inside
      /\ tab'.mode = tab.mode /\ tab'.todo = tab.todo
  BY <1>4, <1>6 DEF TabState
<1>8. GoodTab(tab', chosen.ever)
  BY <1>2, <1>7 DEF GoodTab
<1>9. Types'
  BY <1>1, <1>5, <1>8, SameTypes DEF Good, Types
<1>10. CASE b
  <2>1. engine.cmd = NoCmd /\ inbox = <<>> /\ ~engine.late
    BY <1>2, <1>3, <1>10, NothingUnderWay DEF Good
  <2>2. Steps'
    BY <1>1, <1>5, <1>7, <1>10, <2>1, QuietSteps
  <2> QED
    BY <1>1, <1>9, <2>2, SameDeletes DEF Good
<1>11. CASE ~b
  <2>1. \A r : ReplyFits(r) => ReplyFits(r)'
    BY <1>2, <1>7, <1>11 DEF ReplyFits
  <2>2. \A l, r : ListingFits(l, r) => ListingFits(l, r)'
    BY <1>7, <1>11 DEF ListingFits, Leads
  <2>3. Announced'
    BY <1>1, <2>1, <2>2 DEF Good, Steps, Announced
  <2>4. Steps'
    BY <1>1, <1>2, <1>5, <1>7, <1>11, <2>3 DEF Good, Steps, Heads
  <2> QED
    BY <1>1, <1>9, <2>4, SameDeletes DEF Good
<1> QED
  BY <1>10, <1>11

(* With the engine lent, only the transfer queue's reply is under way.     *)
LEMMA GrantedIsQuiet ==
    ASSUME Good, queue = "granted"
    PROVE  inbox = <<>> /\ engine.cmd = NoCmd /\ ~engine.late /\ tab.lock
  BY DEF Good, Steps, Announced, ReplyFits

LEMMA QueueExecutesGood ==
    ASSUME Good, QueueExecutes
    PROVE  Good'
<1>1. /\ ~tab.inside /\ queue = "granted" /\ queue' = "uses"
      /\ engine' = Executes(TransferCmd) /\ UNCHANGED <<tab, inbox, tree, chosen, env>>
  BY DEF QueueExecutes, TransferCmd
<1>2. inbox = <<>> /\ tab.lock /\ engine \in Engine /\ GoodTab(tab, chosen.ever)
  BY <1>1, GrantedIsQuiet DEF Good, Types
<1>3. PICK no \in BOOLEAN : no = FALSE
  OBVIOUS
<1>4. PICK late \in BOOLEAN : late = engine.cancel
  BY <1>2 DEF Engine
<1>5. PICK c \in Command \cup {NoCmd, TransferCmd} : c = TransferCmd
  OBVIOUS
<1>6. engine' = [engine EXCEPT !.cmd = c, !.late = late, !.cancel = no]
  BY <1>1, <1>3, <1>4, <1>5 DEF Executes
<1>7. engine' \in Engine /\ engine'.cmd = c
  BY <1>2, <1>6 DEF Engine
<1>8. Types'
  BY <1>1, <1>2, <1>7, SameTypes DEF Good, Types
<1>9. Steps'
  BY <1>1, <1>2, <1>5, <1>7, Distinct DEF Steps, Announced
<1> QED
  BY <1>1, <1>8, <1>9, SameDeletes DEF Good

LEMMA ReleaseEngineGood ==
    ASSUME Good, ReleaseEngine
    PROVE  Good'
<1>1. /\ ~tab.inside /\ queue' = "none" /\ UNCHANGED <<engine, inbox, tree, chosen, env>>
      /\ queue = "granted" \/ (queue = "waits" /\ InTime)
  BY DEF ReleaseEngine
<1>2. PICK no \in BOOLEAN : no = FALSE
  OBVIOUS
<1>3. PICK t : t = [tab EXCEPT !.lock = no]
  OBVIOUS
<1>4. tab \in TabState /\ GoodTab(tab, chosen.ever)
  BY DEF Good, Types, GoodTab
<1>5. t \in TabState /\ t.list = tab.list /\ t.lock = no /\ t.inside = tab.inside
      /\ t.mode = tab.mode /\ t.todo = tab.todo
  BY <1>3, <1>4 DEF TabState
<1>6. GoodTab(t, chosen.ever)
  BY <1>4, <1>5 DEF GoodTab
<1>7. PICK u : u = ProcessNextCommand(t)
  OBVIOUS
<1>8. GoodTab(u, chosen.ever) /\ Looped(t, u) /\ tab' = u
  <2>1. tab' = u
    BY <1>2, <1>3, <1>7 DEF ReleaseEngine
  <2> QED
    BY <1>6, <1>7, <2>1, ProcessNextCommandGood
<1>9. Types'
  BY <1>1, <1>8, SameTypes DEF Good, Types
<1>10. ~tab'.lock /\ inbox = <<>> /\ (tab'.inside => engine.cmd = NoCmd)
  BY <1>1, <1>2, <1>5, <1>8, NoReply, GrantedIsQuiet DEF Looped
<1>11. Steps'
  <2>1. CASE queue = "granted"
    BY <1>1, <1>10, <2>1, GrantedIsQuiet, QuietSteps
  <2>2. CASE queue = "waits"
    <3>1. engine.cmd # NoCmd => Heads(engine.cmd)'
      BY <1>1, <1>5, <1>8, <2>2 DEF Good, Steps, Heads, Looped
    <3> QED
      BY <1>1, <1>10, <3>1 DEF Good, Steps, Announced
  <2> QED
    BY <1>1, <2>1, <2>2
<1> QED
  BY <1>1, <1>9, <1>11, SameDeletes DEF Good

-----------------------------------------------------------------------------
(* The engine.                                                             *)
LEMMA EngineFields ==
    ASSUME Good
    PROVE  /\ engine \in Engine /\ engine.cmd \in Command \cup {NoCmd, TransferCmd}
           /\ engine.socket \in BOOLEAN /\ engine.cancel \in BOOLEAN /\ engine.late \in BOOLEAN
  BY DEF Good, Types, Engine

(* A command that ends with a reply and nothing else.                      *)
LEMMA RepliedGood ==
    ASSUME Good, engine.cmd # NoCmd, engine' \in Engine, engine'.cmd = NoCmd, ~engine'.late,
           NEW code \in Codes, inbox' = Append(inbox, Reply(code)),
           UNCHANGED <<tab, queue, tree, chosen, env>>
    PROVE  Good'
<1>1. inbox = <<>>
  BY DEF Good, Steps
<1>2. inbox' = <<Reply(code)>>
  BY <1>1
<1>3. Steps'
  BY <1>2, ReplyPosted
<1>4. Types'
  BY SameTypes DEF Good, Types
<1> QED
  BY <1>3, <1>4, SameDeletes DEF Good

LEMMA EngineFailsGood ==
    ASSUME Good, EngineFails
    PROVE  Good'
<1>1. engine.cmd # NoCmd /\ ~engine.late /\ UNCHANGED <<tab, queue, tree, chosen, env>>
  BY DEF EngineFails
<1>2. PICK code \in Codes : inbox' = Append(inbox, Reply(code))
  <2>1. PICK code : /\ inbox' = Append(inbox, Reply(code))
                     /\ code \in {"error", "critical", "disconnected"}
    BY DEF EngineFails
  <2> QED
    BY <2>1 DEF Codes
<1>3. PICK socket \in BOOLEAN : socket = (engine.cmd.id # "disconnect")
  OBVIOUS
<1>4. engine' = [engine EXCEPT !.cmd = NoCmd, !.socket = socket]
  BY <1>3 DEF EngineFails
<1>5. PICK cmd \in Command \cup {NoCmd, TransferCmd} : cmd = NoCmd
  OBVIOUS
<1>6. engine' = [engine EXCEPT !.cmd = cmd, !.socket = socket]
  BY <1>4, <1>5
<1>7. engine' \in Engine /\ engine'.cmd = cmd /\ engine'.late = engine.late
  BY <1>6, EngineFields DEF Engine
<1> QED
  BY <1>1, <1>2, <1>5, <1>7, RepliedGood

LEMMA EngineCancelsGood ==
    ASSUME Good, EngineCancels
    PROVE  Good'
<1>1. ~engine.late /\ UNCHANGED <<tab, queue, tree, chosen, env>>
      /\ inbox' = IF engine.cmd = NoCmd THEN inbox ELSE Append(inbox, Reply("canceled"))
  BY DEF EngineCancels
<1>2. PICK no \in BOOLEAN : no = FALSE
  OBVIOUS
<1>3. PICK socket \in BOOLEAN :
         engine' = [engine EXCEPT !.cancel = no, !.cmd = NoCmd, !.socket = socket]
  BY <1>2 DEF EngineCancels
<1>4. PICK cmd \in Command \cup {NoCmd, TransferCmd} : cmd = NoCmd
  OBVIOUS
<1>5. engine' = [engine EXCEPT !.cancel = no, !.cmd = cmd, !.socket = socket]
  BY <1>3, <1>4
<1>6. engine' \in Engine /\ engine'.cmd = cmd /\ engine'.late = engine.late
  BY <1>5, EngineFields DEF Engine
<1>7. engine' \in Engine /\ engine'.cmd = NoCmd /\ engine'.late = engine.late
  BY <1>4, <1>6
<1>8. CASE engine.cmd = NoCmd
  <2>1. Types'
    BY <1>1, <1>7, SameTypes DEF Good, Types
  <2>2. Steps'
    <3>1. inbox' = inbox /\ engine'.cmd = engine.cmd /\ engine'.late = engine.late
      BY <1>1, <1>7, <1>8
    <3> QED
      BY <1>1, <3>1, StepsKept DEF Good, Steps
  <2> QED
    BY <1>1, <2>1, <2>2, SameDeletes DEF Good
<1>9. CASE engine.cmd # NoCmd
  <2>1. PICK code \in Codes : code = "canceled"
    BY DEF Codes
  <2>2. inbox' = Append(inbox, Reply(code))
    BY <1>1, <1>9, <2>1
  <2> QED
    BY <1>1, <1>7, <1>9, <2>2, RepliedGood
<1> QED
  BY <1>8, <1>9

LEMMA EngineCancelsLateGood ==
    ASSUME Good, EngineCancelsLate
    PROVE  Good'
<1>1. engine.late /\ engine.cmd # NoCmd /\ UNCHANGED <<tab, queue, tree, chosen, env>>
      /\ inbox' = (IF engine.socket THEN inbox ELSE Append(inbox, Reply("canceled")))
  BY DEF EngineCancelsLate, Good, Steps
<1>2. PICK no \in BOOLEAN : no = FALSE
  OBVIOUS
<1>3. PICK cmd \in Command \cup {NoCmd, TransferCmd} :
         cmd = IF engine.socket THEN engine.cmd ELSE NoCmd
  BY EngineFields
<1>4. engine' = [engine EXCEPT !.late = no, !.cmd = cmd]
  BY <1>2, <1>3 DEF EngineCancelsLate
<1>7. engine' \in Engine /\ engine'.cmd = cmd /\ engine'.late = no
  BY <1>4, EngineFields DEF Engine
<1>8. CASE engine.socket
  <2>1. Types'
    BY <1>1, <1>7, SameTypes DEF Good, Types
  <2>2. inbox' = inbox /\ engine'.cmd = engine.cmd /\ ~engine'.late
    BY <1>1, <1>2, <1>3, <1>7, <1>8
  <2>3. inbox = <<>>
    BY <1>1 DEF Good, Steps
  <2>4. Steps'
    BY <1>1, <2>2, <2>3 DEF Good, Steps, Announced, Heads
  <2> QED
    BY <1>1, <2>1, <2>4, SameDeletes DEF Good
<1>9. CASE ~engine.socket
  <2>1. PICK code \in Codes : code = "canceled"
    BY DEF Codes
  <2>2. inbox' = Append(inbox, Reply(code)) /\ engine'.cmd = NoCmd /\ ~engine'.late
    BY <1>1, <1>2, <1>3, <1>7, <1>9, <2>1
  <2> QED
    BY <1>1, <1>7, <2>2, RepliedGood
<1> QED
  BY <1>8, <1>9

(* What the engine is asked to delete was chosen.                          *)
LEMMA CommandGood ==
    ASSUME Good, engine.cmd # NoCmd, engine.cmd.id # "transfer"
    PROVE  /\ engine.cmd \in GoodCmds(tab.mode, chosen.ever)
           /\ ~tab.lock /\ Heads(engine.cmd)
<1>1. ~tab.lock /\ Heads(engine.cmd)
  BY Distinct DEF Good, Steps
<1> QED
  BY <1>1, HeadIsGood DEF Good, Heads

LEMMA ResolveLeads ==
    ASSUME Good, NEW c \in Command, NEW p \in Resolve(c)
    PROVE  p \in Paths /\ Leads(c, p)
<1>1. c.dir \in Paths /\ tree \subseteq Tree
  BY DEF Command, Good, Types
<1> QED
  BY <1>1, TabAssumption DEF Resolve, Leads

LEMMA OnePosted ==
    ASSUME NEW l, NEW r
    PROVE  <<>> \o <<>> \o <<r>> = <<r>> /\ <<>> \o <<l>> \o <<r>> = <<l, r>>
<1>1. <<>> \o <<>> = <<>> /\ <<>> \o <<r>> = <<r>> /\ <<>> \o <<l>> = <<l>>
  OBVIOUS
<1>2. <<l>> \o <<r>> = <<l, r>>
  <2>1. PICK s : s = <<l>>
    OBVIOUS
  <2>2. s \in Seq({l, r})
    BY <2>1
  <2>3. s \o <<r>> = Append(s, r)
    BY <2>2
  <2>4. Append(s, r) = <<l, r>>
    <3>1. Append(s, r) \in Seq({l, r}) /\ <<l, r>> \in Seq({l, r})
      BY <2>2
    <3>2. Len(Append(s, r)) = Len(<<l, r>>)
      BY <2>1
    <3>3. \A i \in 1 .. Len(Append(s, r)) : Append(s, r)[i] = <<l, r>>[i]
      BY <2>1
    <3> QED
      BY <3>1, <3>2, <3>3, SeqEqual
  <2> QED
    BY <2>1, <2>3, <2>4
<1> QED
  BY <1>1, <1>2

LEMMA EngineSucceedsGood ==
    ASSUME Good, EngineSucceeds
    PROVE  Good'
<1> DEFINE c == engine.cmd
           ok == CASE c.id = "list" -> Resolve(c) # {}
                   [] c.id = "rmd" -> c.dir \in tree /\ Last(c.dir) \in DirNames
                                      /\ Below(c.dir) = {}
                   [] c.id = "del" -> \A f \in c.files : f \in tree /\ Last(f) \notin DirNames
                   [] OTHER -> TRUE
           bad == IF c.link THEN "linknotdir" ELSE "error"
<1>1. /\ c # NoCmd /\ ~engine.late /\ UNCHANGED <<tab, queue, chosen, env>>
      /\ inbox' = inbox
             \o (IF c.id # "list" \/ ~ok THEN <<>>
                 ELSE <<ListingOf(CHOOSE p \in Resolve(c) : TRUE)>>)
             \o <<Reply(IF ok THEN "ok" ELSE bad)>>
      /\ tree' = CASE ok /\ c.id = "rmd" -> tree \ {c.dir}
                   [] c.id = "del" -> tree \ {f \in c.files : Last(f) \notin DirNames}
                   [] OTHER -> tree
      /\ engine' = [engine EXCEPT !.cmd = NoCmd, !.socket = (c.id # "disconnect")]
  BY DEF EngineSucceeds
<1>2. c.id = "list" /\ ok => Resolve(c) # {}
  OBVIOUS
<1>3. PICK good \in BOOLEAN : good = (c.id = "list" /\ ok)
  OBVIOUS
<1>4. PICK code \in Codes : code = IF ok THEN "ok" ELSE bad
  BY DEF Codes
<1>5. inbox = <<>>
  BY <1>1 DEF Good, Steps
<1>listed. PICK p : p = CHOOSE q \in Resolve(c) : TRUE
  OBVIOUS
<1>6. inbox' = IF good THEN <<ListingOf(p), Reply(code)>>
               ELSE <<Reply(code)>>
  <2> HIDE DEF ok, bad, c
  <2>1. PICK r : r = Reply(code)
    OBVIOUS
  <2>2. PICK l : l = ListingOf(p)
    OBVIOUS
  <2>3. inbox' = <<>> \o (IF c.id # "list" \/ ~ok THEN <<>> ELSE <<l>>) \o <<r>>
    BY <1>listed, <1>1, <1>4, <1>5, <2>1, <2>2
  <2>4. inbox' = IF c.id # "list" \/ ~ok THEN <<r>> ELSE <<l, r>>
    BY <2>3, OnePosted
  <2>5. CASE good
    BY <1>3, <2>1, <2>2, <2>4, <2>5
  <2>6. CASE ~good
    BY <1>3, <2>1, <2>4, <2>6
  <2> QED
    BY <2>5, <2>6
<1>7. good => c.id = "list" /\ Resolve(c) # {}
  BY <1>2, <1>3
<1>8. \/ tree' = tree
      \/ c.id = "rmd" /\ tree' = tree \ {c.dir}
      \/ c.id = "del" /\ tree' = tree \ {f \in c.files : Last(f) \notin DirNames}
  <2> HIDE DEF ok
  <2> QED
    BY <1>1
<1>9. PICK socket \in BOOLEAN : socket = (c.id # "disconnect")
  OBVIOUS
<1>10. PICK none \in Command \cup {NoCmd, TransferCmd} : none = NoCmd
  OBVIOUS
<1>11. engine' = [engine EXCEPT !.cmd = none, !.socket = socket]
  BY <1>1, <1>9, <1>10
<1>12. engine' \in Engine /\ engine'.cmd = none /\ engine'.late = engine.late
  BY <1>11, EngineFields DEF Engine
<1> HIDE DEF ok, bad
<1>13. tree' \subseteq Tree
  BY <1>8 DEF Good, Types
<1>14. Types'
  BY <1>1, <1>12, <1>13, SameTypes DEF Good, Types
<1>15. DeletesOnlyChosen' /\ InStep'
  <2>1. \A n \in Tree \ tree : Chosen(n, chosen.ever)
    BY DEF Good, DeletesOnlyChosen
  <2>2. c.id \in {"rmd", "del"} => c \in GoodCmds(tab.mode, chosen.ever)
    BY <1>1, CommandGood
  <2>3. c.id = "rmd" => Chosen(c.dir, chosen.ever)
    BY <2>2 DEF GoodCmds
  <2>4. c.id = "del" => \A f \in c.files : Chosen(f, chosen.ever)
    BY <2>2 DEF GoodCmds
  <2>5. ASSUME NEW n \in Tree \ tree'
        PROVE  Chosen(n, chosen.ever)
    BY <1>8, <2>1, <2>3, <2>4
  <2> QED
    BY <1>1, <2>5 DEF Good, DeletesOnlyChosen, InStep
<1>16. CASE ~good
  <2>1. inbox' = <<Reply(code)>>
    BY <1>6, <1>16
  <2>2. Steps'
    BY <1>1, <1>10, <1>12, <2>1, ReplyPosted
  <2> QED
    BY <1>14, <1>15, <2>2 DEF Good
<1>17. CASE good
  <2>1. c.id = "list" /\ c \in GoodCmds(tab.mode, chosen.ever) /\ ~tab.lock /\ Heads(c)
    BY <1>1, <1>7, <1>17, CommandGood
  <2>2. c \in Command
    BY <2>1, GoodLess
  <2>4. p \in Resolve(c)
    BY <1>listed, <1>7, <1>17
  <2>5. p \in Paths /\ Leads(c, p)
    BY <2>2, <2>4, ResolveLeads
  <2>6. PICK r \in Replies : r = Reply(code) /\ r.id = "list"
    <3>1. Reply(code) \in Replies /\ Reply(code).id = engine.cmd.id
      BY <2>1 DEF Reply, Replies, Ids
    <3> QED
      BY <2>1, <3>1
  <2>7. PICK l \in Listings : l = ListingOf(p) /\ l.path = p
    <3>1. ListingOf(p) \in Listings /\ ListingOf(p).path = p
      BY <2>5 DEF ListingOf, Listings
    <3> QED
      BY <3>1
  <2>9. inbox' = <<l, r>>
    BY <1>6, <1>17, <2>6, <2>7
  <2>10. ReplyFits(r)'
    BY <1>1, <2>1, <2>6 DEF ReplyFits, Heads
  <2>11. ListingFits(l, r)'
    BY <1>1, <2>1, <2>5, <2>6, <2>7 DEF ListingFits, Heads, Leads
  <2>12. Announced'
    BY <2>9, <2>10, <2>11 DEF Announced
  <2>13. Steps'
    BY <1>1, <1>10, <1>12, <2>12 DEF Good, Steps
  <2> QED
    BY <1>14, <1>15, <2>13 DEF Good
<1> QED
  BY <1>16, <1>17

-----------------------------------------------------------------------------
LEMMA InitGood ==
    ASSUME Init
    PROVE  Inv
<1>1. PICK no \in BOOLEAN : no = FALSE
  OBVIOUS
<1>2. PICK yes \in BOOLEAN : yes = TRUE
  OBVIOUS
<1>3. tab = [list |-> <<>>, inside |-> no, lock |-> no, site |-> yes, shown |-> yes,
             success |-> yes, mode |-> "none", start |-> <<>>, todo |-> <<>>,
             visited |-> {}, handled |-> {}]
  BY <1>1, <1>2 DEF Init
<1>4. engine = [cmd |-> NoCmd, socket |-> yes, cancel |-> no, late |-> no]
  BY <1>1, <1>2 DEF Init
<1>5. tab \in TabState /\ tab.list = <<>> /\ tab.todo = <<>> /\ tab.inside = no /\ tab.lock = no
  BY <1>3, EmptyPath DEF TabState
<1>6. engine \in Engine /\ engine.cmd = NoCmd /\ engine.late = no
  BY <1>4 DEF Engine
<1>7. GoodTab(tab, chosen.ever)
  BY <1>5 DEF GoodTab
<1>8. Types
  BY <1>6, <1>7 DEF Init, Types
<1>9. Steps
  BY <1>1, <1>5, <1>6 DEF Init, Steps, Announced
<1>10. DeletesOnlyChosen
  BY DEF Init, DeletesOnlyChosen
<1> QED
  BY <1>8, <1>9, <1>10 DEF Inv

LEMMA NextGood ==
    ASSUME Good, [Next]_vars
    PROVE  Good'
<1>1. CASE UNCHANGED vars
  BY <1>1 DEF vars, Good, InStep, Types, Steps, Announced, ReplyFits, ListingFits, Heads,
              DeletesOnlyChosen
<1>2. CASE Interface
  BY <1>2, ExecuteNextGood, ExecuteFailsGood, LoopEndsGood, FinishGood, ListingGood
  DEF Interface, ProcessNextCommandLoop
<1>3. CASE EngineSteps
  BY <1>3, EngineSucceedsGood, EngineFailsGood, EngineCancelsGood, EngineCancelsLateGood
  DEF EngineSteps
<1>4. CASE Browse
  BY <1>4, BrowseGood
<1>5. CASE StartRecursiveOperation
  BY <1>5, StartRecursiveOperationGood
<1>6. CASE OnCancel
  BY <1>6, OnCancelGood
<1>7. CASE Connect
  BY <1>7, ConnectGood
<1>8. CASE Disconnect
  BY <1>8, DisconnectGood
<1>9. CASE RequestExclusiveEngine
  BY <1>9, RequestGood
<1>10. CASE QueueExecutes
  BY <1>10, QueueExecutesGood
<1>11. CASE ReleaseEngine
  BY <1>11, ReleaseEngineGood
<1> QED
  BY <1>1, <1>2, <1>3, <1>4, <1>5, <1>6, <1>7, <1>8, <1>9, <1>10, <1>11 DEF Next

(* The environment of a behaviour is what it is from the start.            *)
LEMMA EnvStays ==
    ASSUME [Next]_vars
    PROVE  env' = env
<1>1. Interface \/ EngineSteps => env' = env
  BY DEF Interface, ProcessNextCommandLoop, ExecuteNext, ExecuteFails, LoopEnds, Finish,
         Listing, EngineSteps, EngineSucceeds, EngineFails, EngineCancels, EngineCancelsLate
<1>2. Browse \/ StartRecursiveOperation \/ OnCancel \/ Connect \/ Disconnect => env' = env
  BY DEF Browse, StartRecursiveOperation, OnCancel, Connect, Disconnect, User
<1>3. RequestExclusiveEngine \/ QueueExecutes \/ ReleaseEngine => env' = env
  BY DEF RequestExclusiveEngine, QueueExecutes, ReleaseEngine
<1> QED
  BY <1>1, <1>2, <1>3 DEF Next, vars

(* The tab, its engine and what is under way between them stay in step.    *)
THEOREM TabInStep == FairSpec => []Inv
<1>1. Init => Inv
  BY InitGood
<1>2. Inv /\ [Next]_vars => Inv'
  <2>1. ASSUME Inv, [Next]_vars, InStep'
        PROVE  Types' /\ Steps' /\ DeletesOnlyChosen'
    <3>1. InStep
      BY <2>1, EnvStays DEF InStep
    <3>2. Good
      BY <2>1, <3>1 DEF Inv, Good
    <3> QED
      BY <2>1, <3>2, NextGood DEF Good
  <2> QED
    BY <2>1 DEF Inv
<1> QED
  BY <1>1, <1>2, PTL DEF FairSpec

(* A reply that arrives is for the command at the head of the queue, to    *)
(* which CCommandQueue::ProcessReply applies it: for any tree and links,   *)
(* and however often the user, the transfer queue and other tabs step in,  *)
(* unless the queue is interfered with while a reply is on its way.        *)
THEOREM RepliesMeetTheirCommand == FairSpec => []ReplyIsForHead
<1>1. Inv => ReplyIsForHead
  <2>1. ASSUME InStep, Inv, NEW i \in DOMAIN inbox, inbox[i].kind = "reply",
               inbox[i].id # "transfer"
        PROVE  tab.list # <<>> /\ Head(tab.list).id = inbox[i].id
    <3>1. Announced
      BY <2>1 DEF Inv, Steps
    <3>2. CASE inbox = <<>>
      BY <3>2
    <3>3. ASSUME Len(inbox) = 1, inbox = <<inbox[1]>>, ReplyFits(inbox[1])
          PROVE  tab.list # <<>> /\ Head(tab.list).id = inbox[i].id
      <4>1. i = 1
        BY <3>3
      <4> QED
        BY <2>1, <3>3, <4>1 DEF ReplyFits
    <3>4. ASSUME Len(inbox) = 2, inbox = <<inbox[1], inbox[2]>>, inbox[1] \in Listings,
                 ReplyFits(inbox[2])
          PROVE  tab.list # <<>> /\ Head(tab.list).id = inbox[i].id
      <4>1. i \in {1, 2}
        BY <3>4
      <4>2. i # 1
        BY <2>1, <3>4 DEF Listings
      <4> QED
        BY <2>1, <3>4, <4>1, <4>2 DEF ReplyFits
    <3> QED
      BY <3>1, <3>2, <3>3, <3>4 DEF Announced
  <2> QED
    BY <2>1 DEF ReplyIsForHead
<1> QED
  BY <1>1, TabInStep, PTL

(* Deleting recursively removes nothing from the server but what was       *)
(* chosen, for any tree and any links, although the recursive operation    *)
(* takes the listing that arrives for that of the directory it visits.     *)
THEOREM OnlyChosenIsDeleted == FairSpec => []DeletesOnlyChosen
<1>1. Inv => DeletesOnlyChosen
  BY DEF Inv, DeletesOnlyChosen
<1> QED
  BY <1>1, TabInStep, PTL
=============================================================================
