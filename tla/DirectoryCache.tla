---------------------------- MODULE DirectoryCache ----------------------------
(***************************************************************************)
(* The cache of directory listings of one server                           *)
(* (engine/directorycache.cpp).  All engines share it; every member        *)
(* function holds its mutex, so each is an operator from a cache to the    *)
(* cache it leaves behind.                                                 *)
(*                                                                         *)
(* A listing is a set of names, of which DirNames are directories, and     *)
(* whether it is sure (none of the unsure_* flags, on the listing or on an *)
(* entry, is set).  The least recently used order and the running count of *)
(* entries are what Prune works from.                                      *)
(***************************************************************************)
EXTENDS Integers, FiniteSets, SequencesExt

CONSTANTS
    DirNames,    \* names that are directories
    Limits       \* of Prune: [files, entries], files < 0 if unconditional

EmptyCache == [dir |-> <<>>, lru |-> <<>>, count |-> 0]

Cached(c, p) == p \in DOMAIN c.dir

Size(c, p) == Cardinality(c.dir[p].names)

Below(p, q) == IsStrictPrefix(p, q)

(* UpdateLru *)
UpdateLru(c, p) == [c EXCEPT !.lru = Append(Remove(@, p), p)]

SetListing(c, p, names, sure) ==
    [UpdateLru(c, p) EXCEPT !.dir[p] = [names |-> names, sure |-> sure]]

(* Entries erased together with their place in the LRU list.               *)
Erase(c, P) ==
    [dir |-> Restrict(c.dir, DOMAIN c.dir \ P),
     lru |-> SelectSeq(c.lru, LAMBDA p : p \notin P),
     count |-> c.count - SumFunction([p \in P \cap DOMAIN c.dir |-> Size(c, p)])]

TooLarge(c) == \E l \in Limits : c.count > l.files /\ Len(c.lru) > l.entries

(* Prune erases from the front of the LRU list as long as it has to.       *)
Prune(c) ==
    LET without(k) == Erase(c, {c.lru[i] : i \in 1 .. k})
    IN  without(Min({k \in 0 .. Len(c.lru) : ~TooLarge(without(k))}))

WithListing(c, p, names) ==
    [q \in DOMAIN c.dir \cup {p} |->
        IF q = p THEN [names |-> names, sure |-> TRUE] ELSE c.dir[q]]

(* mutant: the size of the replaced listing is not subtracted *)
StoreCountsTwice(c, p, names) ==
    LET size == Cardinality(names)
    IN  IF Cached(c, p)
        THEN [SetListing(c, p, names, TRUE) EXCEPT !.count = @ + size]
        ELSE Prune([dir |-> WithListing(c, p, names),
                    lru |-> Append(c.lru, p),
                    count |-> c.count + size])

(* A listing that has just been parsed: it is sure.                        *)
Store(c, p, names) ==
    LET size == Cardinality(names)
    IN  IF Cached(c, p)
        THEN [SetListing(c, p, names, TRUE) EXCEPT !.count = @ + size - Size(c, p)]
        ELSE Prune([dir |-> WithListing(c, p, names),
                    lru |-> Append(c.lru, p),
                    count |-> c.count + size])

(* Lookup touches the entry.                                               *)
Lookup(c, p) == IF Cached(c, p) THEN UpdateLru(c, p) ELSE c

Found(c, p, allowUnsure) == Cached(c, p) /\ (allowUnsure \/ c.dir[p].sure)

(* The listings at or below p, if name is a directory, become unsure.      *)
InvalidateFile(c, p, name) ==
    LET hit == Cached(c, p) /\ name \in c.dir[p].names \cap DirNames
        marked == {q \in DOMAIN c.dir : q = p \/ (hit /\ Below(p, q))}
    IN  [Lookup(c, p) EXCEPT !.dir =
            [q \in DOMAIN c.dir |->
                IF q \in marked THEN [c.dir[q] EXCEPT !.sure = FALSE] ELSE c.dir[q]]]

UpdateFile(c, p, name, mayCreate) ==
    IF ~Cached(c, p) THEN c
    ELSE IF mayCreate /\ name \notin c.dir[p].names
    THEN [SetListing(c, p, c.dir[p].names \cup {name}, FALSE) EXCEPT !.count = @ + 1]
    ELSE SetListing(c, p, c.dir[p].names, FALSE)

RemoveFile(c, p, name) ==
    IF ~Cached(c, p) THEN c
    ELSE [SetListing(c, p, c.dir[p].names \ {name}, FALSE)
             EXCEPT !.count = IF name \in c.dir[p].names THEN @ - 1 ELSE @]

RemoveDir(c, p, name) ==
    LET child == Append(p, name)
    IN  RemoveFile(Erase(c, {q \in DOMAIN c.dir : q = child \/ Below(child, q)}), p, name)

InvalidateServer(c) == EmptyCache

(* A file renamed within its directory keeps its entry under the new name; *)
(* the entry that to had has been removed before.                          *)
RenameEntry(c, p, from, to) ==
    [c EXCEPT !.dir[p] = [names |-> (@.names \ {from}) \cup {to}, sure |-> FALSE]]

Rename(c, p, from, q, to) ==
    LET d == IF p = q THEN RemoveFile(c, p, to) ELSE Lookup(c, p)
    IN  IF ~Cached(c, p) THEN InvalidateServer(c)
        ELSE IF from \notin d.dir[p].names THEN d
        ELSE IF from \in DirNames
        THEN LET r == RemoveDir(d, p, from)
             IN  UpdateFile(IF p = q THEN RemoveDir(r, p, to) ELSE r, q, to, TRUE)
        ELSE IF p = q THEN RenameEntry(d, p, from, to)
        ELSE UpdateFile(RemoveFile(d, p, from), q, to, TRUE)

-----------------------------------------------------------------------------
(* The assertion of ~CDirectoryCache, at any time: the running count is    *)
(* the number of entries in all listings; the LRU list names every cached  *)
(* directory once; and the unconditional limits hold.                      *)
Consistent(c) ==
    /\ c.count = SumFunction([p \in DOMAIN c.dir |-> Size(c, p)])
    /\ ToSet(c.lru) = DOMAIN c.dir /\ IsInjective(c.lru)
    /\ \A l \in Limits : l.files < 0 => Len(c.lru) <= l.entries
=============================================================================
