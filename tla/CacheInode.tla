----------------------------- MODULE CacheInode -----------------------------
(***************************************************************************)
(* The metadata cache: cached directories with their dirents, the list of  *)
(* parents every entry keeps, the hash table from file handles to entries, *)
(* and the garbage collection, over a file system that only this server    *)
(* changes.  Every call is one step: the module describes the schedules in *)
(* which the calls of the workers do not overlap.                          *)
(*                                                                         *)
(* A cached directory is a chain: segment 1 is its DIR_BEGINNING, the      *)
(* others are its DIR_CONTINUE entries, which live and die with it.        *)
(***************************************************************************)
EXTENDS Integers, FiniteSets, Sequences, SequencesExt

CONSTANTS
    Root,           \* the root of the export
    Dirs, Files,    \* the objects of the file system, by their handles
    NbNames,        \* the names of a directory are 1 .. NbNames
    EntryIds,       \* the entries of the pool, by their addresses
    ArraySize,      \* CHILDREN_ARRAY_SIZE
    Exported,       \* what the file system contains when the server starts
    SameDirLinks,   \* whether a file may have two names in one directory
    MaxCalls        \* bound: calls made

Objects == Dirs \cup Files
Names == 1 .. NbNames
None == "none"
NULL == 0

ASSUME ObjectsAssumption == Root \in Dirs /\ Dirs \cap Files = {} /\ None \notin Objects
ASSUME PoolAssumption == EntryIds \subseteq Nat \ {NULL} /\ ArraySize \in Nat \ {0}

VARIABLES
    fs,         \* the file system: the object of each directory and name
    cache,      \* entry: the pool of entries; table: the hash table
    undefined,  \* released memory was locked, or a thread waits for itself
    calls

vars == <<fs, cache, undefined, calls>>

-----------------------------------------------------------------------------
(* The file system.                                                        *)

Places(o) == {p \in Dirs \X Names : fs[p[1]][p[2]] = o}
numlinks(o) == Cardinality(Places(o))
Exists(o) == o = Root \/ Places(o) # {}
Empty(d) == \A n \in Names : fs[d][n] = None

\* The directories from d up to the root.
Above(d) == LET up[k \in 0 .. Cardinality(Dirs)] ==
                  IF k = 0 THEN {d}
                  ELSE up[k - 1] \cup {x \in Dirs : \E y \in up[k - 1], n \in Names : fs[x][n] = y}
            IN  up[Cardinality(Dirs)]

-----------------------------------------------------------------------------
(* Entries and directory chains.                                           *)

Slot == [active : BOOLEAN, pentry : EntryIds \cup {NULL}, name : Names \cup {0}]

NoDirent == [active |-> FALSE, pentry |-> NULL, name |-> 0]

NewSegment == [slot |-> [k \in 1 .. ArraySize |-> NoDirent],
               nbactive |-> 0, end_of_dir |-> TRUE]

Free == [obj |-> None, valid |-> FALSE, links |-> 0, parents |-> <<>>,
         chain |-> <<>>, has_been_readdir |-> FALSE]

NewEntry(o) == [obj |-> o, valid |-> TRUE, links |-> numlinks(o), parents |-> <<>>,
                chain |-> IF o \in Dirs THEN <<NewSegment>> ELSE <<>>,
                has_been_readdir |-> FALSE]

Live(c) == {e \in EntryIds : c.entry[e].obj # None}

\* The part of a chain that is walked from segment s: up to the first END_OF_DIR.
Walked(chain, s) == CHOOSE k \in s .. Len(chain) :
                      chain[k].end_of_dir /\ \A j \in s .. k - 1 : ~ chain[j].end_of_dir

Positions(chain, s) == (s .. Walked(chain, s)) \X (1 .. ArraySize)

FirstOf(P) == CHOOSE p \in P :
                \A q \in P : p[1] < q[1] \/ (p[1] = q[1] /\ p[2] <= q[2])

DirentAt(c, d, p) == c.entry[d].chain[p[1]].slot[p[2]]

\* The positions at which the name is found from segment s on.
Dirents(c, d, s, n) == {p \in Positions(c.entry[d].chain, s) :
                           DirentAt(c, d, p).active /\ DirentAt(c, d, p).name = n}

\* operate_cached_dirent also asks that the entry behind the dirent be valid.
operate_cached_dirent(c, d, n) ==
    {p \in Dirents(c, d, 1, n) : c.entry[DirentAt(c, d, p).pentry].valid}

cache_inode_valid(c, e) == [c EXCEPT !.entry[e].valid = TRUE]

\* An object that has an entry keeps it; otherwise one is taken from the pool.
cache_inode_new_entry(c, o) ==
    IF c.table[o] # NULL THEN c
    ELSE LET e == CHOOSE i \in EntryIds \ Live(c) : \A j \in EntryIds \ Live(c) : i <= j
         IN  [c EXCEPT !.entry[e] = NewEntry(o), !.table[o] = e]

cache_inode_get(c, o) ==
    LET new == cache_inode_new_entry(c, o) IN cache_inode_valid(new, new.table[o])

-----------------------------------------------------------------------------
(* Dirents.                                                                *)

\* Mutant of LinkParent: the position is put at the end of the list.
LinkParent_Last(c, e, d, p) ==
    [c EXCEPT !.entry[e].parents = Append(@, [dir |-> d, seg |-> p[1], pos |-> p[2]])]

\* The entry records the position of its dirent at the head of its parents.
LinkParent(c, e, d, p) ==
    [c EXCEPT !.entry[e].parents = <<[dir |-> d, seg |-> p[1], pos |-> p[2]]>> \o @]

\* A dirent takes the first inactive slot of a segment that is not full, or
\* the first slot of the next segment, reused or new; the search begins at
\* segment s.
cache_inode_add_cached_dirent(c, d, s, n, e) ==
    LET chain == c.entry[d].chain
        last == Walked(chain, s)
        free == {p \in Positions(chain, s) : /\ chain[p[1]].nbactive # ArraySize
                                             /\ ~ DirentAt(c, d, p).active}
        at == IF free # {} THEN FirstOf(free) ELSE <<last + 1, 1>>
        going == IF free # {} THEN chain ELSE [chain EXCEPT ![last].end_of_dir = FALSE]
        grown == IF at[1] <= Len(chain) THEN going ELSE Append(going, NewSegment)
        filled == [grown EXCEPT ![at[1]].nbactive = @ + 1,
                                ![at[1]].slot[at[2]] =
                                    [active |-> TRUE, pentry |-> e, name |-> n]]
    IN  LinkParent([c EXCEPT !.entry[d].chain = filled], e, d, at)

\* The slot is freed, and the first of the entry's parents that is this
\* directory is taken off its list, whatever position it records.
cache_inode_remove_cached_dirent(c, d, n) ==
    LET found == operate_cached_dirent(c, d, n)
        at == FirstOf(found)
        e == DirentAt(c, d, at).pentry
        here == {k \in DOMAIN c.entry[e].parents : c.entry[e].parents[k].dir = d}
        first == CHOOSE k \in here : \A j \in here : k <= j
    IN  IF found = {} THEN c
        ELSE [c EXCEPT !.entry[d].chain[at[1]].nbactive = @ - 1,
                       !.entry[d].chain[at[1]].slot[at[2]].active = FALSE,
                       !.entry[e].parents = IF here = {} THEN @ ELSE RemoveAt(@, first)]

cache_inode_rename_cached_dirent(c, d, old, new) ==
    LET at == FirstOf(operate_cached_dirent(c, d, old))
    IN  IF operate_cached_dirent(c, d, old) = {} THEN c
        ELSE [c EXCEPT !.entry[d].chain[at[1]].slot[at[2]].name = new]

\* Mutant of cache_inode_invalidate_all_cached_dirent: every segment after the
\* first is left to be continued.
cache_inode_invalidate_all_cached_dirent_Open(c, d) ==
    [c EXCEPT !.entry[d].chain =
                  [k \in DOMAIN @ |-> [NewSegment EXCEPT !.end_of_dir = (k = 1)]],
              !.entry[d].has_been_readdir = FALSE]

\* The children keep the directory on their lists of parents, and the
\* DIR_CONTINUE segments keep their end_of_dir.
cache_inode_invalidate_all_cached_dirent(c, d) ==
    [c EXCEPT !.entry[d].chain =
                  [k \in DOMAIN @ |->
                      [slot |-> [i \in 1 .. ArraySize |-> [@[k].slot[i] EXCEPT !.active = FALSE]],
                       nbactive |-> 0,
                       end_of_dir |-> k = 1 \/ @[k].end_of_dir]],
              !.entry[d].has_been_readdir = FALSE]

cache_inode_is_dir_empty(c, e) ==
    \A k \in 1 .. Walked(c.entry[e].chain, 1) : c.entry[e].chain[k].nbactive = 0

\* Mutant of Release: the key stays in the table.
Release_KeepKey(c, e) == [c EXCEPT !.entry[e] = Free]

\* The entry leaves the table and goes back to the pool with its parents.
Release(c, e) == [c EXCEPT !.table[c.entry[e].obj] = NULL, !.entry[e] = Free]

-----------------------------------------------------------------------------
(* The bodies of the calls, on a value of the cache.                       *)

\* The dirent if there is one, else what the file system answers, which is
\* then cached; the entry found, or NULL, is the second component.  The entry
\* given may be a segment s of the directory.
cache_inode_lookup_sw(c, d, s, n) ==
    LET here == cache_inode_valid(c, d)
        o == fs[c.entry[d].obj][n]
        new == cache_inode_new_entry(here, o)
    IN  IF Dirents(here, d, s, n) # {}
        THEN <<here, DirentAt(here, d, FirstOf(Dirents(here, d, s, n))).pentry>>
        ELSE IF o = None THEN <<here, NULL>>
        ELSE <<cache_inode_add_cached_dirent(new, d, s, n, new.table[o]), new.table[o]>>

\* A directory is refused when its dirents say that it is not empty, but only
\* if it was read completely, or when the file system says so.  The entry goes
\* with the last link, by the number of links that the cache knows.
cache_inode_remove_sw(c, d, n) ==
    LET found == cache_inode_lookup_sw(c, d, 1, n)
        c1 == found[1]
        e == found[2]
        dir == c.entry[d].obj
        o == fs[dir][n]
        refused == \/ e = NULL
                   \/ /\ c1.entry[e].obj \in Dirs
                      /\ c1.entry[e].has_been_readdir
                      /\ ~ cache_inode_is_dir_empty(c1, e)
                   \/ o = None
                   \/ o \in Dirs /\ ~ Empty(o)
        c2 == cache_inode_remove_cached_dirent(c1, d, n)
        c3 == IF c1.entry[e].obj \notin Dirs /\ c1.entry[e].links > 1
              THEN [c2 EXCEPT !.entry[e].links = @ - 1]
              ELSE Release(c2, e)
    IN  IF refused THEN [cache |-> c1, fs |-> fs, done |-> FALSE]
        ELSE [cache |-> cache_inode_valid(c3, d), fs |-> [fs EXCEPT ![dir][n] = None],
              done |-> TRUE]

\* A directory that was not read, or not since it changed, is read again.
cache_inode_readdir_populate(c, d) ==
    LET cleared == cache_inode_invalidate_all_cached_dirent(c, d)
        dir == c.entry[d].obj
        add(x, n) == IF fs[dir][n] = None THEN x
                     ELSE LET y == cache_inode_new_entry(x, fs[dir][n])
                          IN  cache_inode_add_cached_dirent(y, d, 1, n, y.table[fs[dir][n]])
    IN  IF c.entry[d].has_been_readdir THEN c
        ELSE [FoldLeft(add, cleared, [n \in Names |-> n])
                  EXCEPT !.entry[d].has_been_readdir = TRUE]

\* cache_inode_renew_entry: a change of the directory's times, or the end of
\* its grace period, may ask for a new reading at any time.
cache_inode_renew_entry(c, d, renew) ==
    [c EXCEPT !.entry[d].has_been_readdir = @ /\ ~ renew, !.entry[d].valid = TRUE]

\* Mutant of InvalidateDirent: the directory still counts as read.
InvalidateDirent_KeepRead(c, p) ==
    [c EXCEPT !.entry[p.dir].chain[p.seg].slot[p.pos].active = FALSE,
              !.entry[p.dir].chain[p.seg].nbactive = @ - 1]

\* Only a dirent of the DIR_BEGINNING makes the directory count as not read.
InvalidateDirent(c, p) ==
    [c EXCEPT !.entry[p.dir].chain[p.seg].slot[p.pos].active = FALSE,
              !.entry[p.dir].chain[p.seg].nbactive = @ - 1,
              !.entry[p.dir].has_been_readdir = @ /\ p.seg # 1]

\* Mutant of cache_inode_gc_invalidate_related_dirent: only the first parent
\* is told.
cache_inode_gc_invalidate_related_dirent_First(c, e) ==
    IF c.entry[e].parents = <<>> THEN [c |-> c, ok |-> TRUE]
    ELSE [c |-> InvalidateDirent(c, Head(c.entry[e].parents)), ok |-> TRUE]

\* The memory of this parent is in a pool.
Released(c, p) == p.dir \notin Live(c) \/ p.seg > Len(c.entry[p.dir].chain) + 1

\* One parent after the other, until one is not a directory any more; a write
\* to a parent that was released changes no entry.
cache_inode_gc_invalidate_related_dirent(c, e) ==
    LET inval(x, p) ==
            IF x.ok /\ Released(x.c, p) THEN x
            ELSE IF ~ x.ok \/ x.c.entry[p.dir].obj \notin Dirs THEN [x EXCEPT !.ok = FALSE]
            ELSE [x EXCEPT !.c = InvalidateDirent(x.c, p)]
    IN  FoldLeft(inval, [c |-> c, ok |-> TRUE], c.entry[e].parents)

-----------------------------------------------------------------------------
(* The calls.  Each begins with cache_inode_get on the handles it was given. *)

Call == ~ undefined /\ calls < MaxCalls /\ calls' = calls + 1

Returns(c, f) == cache' = c /\ fs' = f /\ UNCHANGED undefined

Handle(d, c) == c.table[d]

cache_inode_lookup(d, n) ==
    LET c == cache_inode_get(cache, d)
    IN  Call /\ Exists(d) /\ Returns(cache_inode_lookup_sw(c, Handle(d, c), 1, n)[1], fs)

cache_inode_create(d, n, o) ==
    LET c == cache_inode_get(cache, d)
        found == cache_inode_lookup_sw(c, Handle(d, c), 1, n)
        new == cache_inode_new_entry(found[1], o)
        made == [new EXCEPT !.entry[Handle(o, new)].links = 1]
    IN  /\ Call
        /\ Exists(d) /\ ~ Exists(o)
        /\ IF found[2] # NULL THEN Returns(found[1], fs)
           ELSE Returns(cache_inode_add_cached_dirent(made, Handle(d, c), 1, n, Handle(o, made)),
                        [fs EXCEPT ![d][n] = o])

cache_inode_link(o, d, n) ==
    LET c == cache_inode_get(cache_inode_get(cache, o), d)
        found == cache_inode_lookup_sw(c, Handle(d, c), 1, n)
        linked == cache_inode_add_cached_dirent(found[1], Handle(d, c), 1, n, Handle(o, c))
    IN  /\ Call
        /\ Exists(o) /\ Exists(d)
        /\ SameDirLinks \/ \A m \in Names : fs[d][m] # o
        /\ IF found[2] # NULL \/ o \in Dirs THEN Returns(found[1], fs)
           ELSE Returns([linked EXCEPT !.entry[Handle(o, c)].links = numlinks(o) + 1],
                        [fs EXCEPT ![d][n] = o])

cache_inode_remove(d, n) ==
    LET c == cache_inode_get(cache, d)
        removed == cache_inode_remove_sw(c, Handle(d, c), n)
    IN  Call /\ Exists(d) /\ Returns(removed.cache, removed.fs)

\* Whatever has the new name is removed first; the file system refuses to
\* move a directory below itself.
cache_inode_rename(ds, old, dd, new) ==
    LET c == cache_inode_get(cache_inode_get(cache, ds), dd)
        src == cache_inode_lookup_sw(c, Handle(ds, c), 1, old)
        dst == cache_inode_lookup_sw(src[1], Handle(dd, c), 1, new)
        isDir(e) == dst[1].entry[e].obj \in Dirs
        stop == dst[2] # NULL /\ \/ isDir(dst[2]) # isDir(src[2])
                                 \/ dst[2] = src[2]
                                 \/ isDir(dst[2]) /\ ~ cache_inode_is_dir_empty(dst[1], dst[2])
        gone == IF dst[2] # NULL THEN cache_inode_remove_sw(dst[1], Handle(dd, c), new)
                ELSE [cache |-> dst[1], fs |-> fs, done |-> TRUE]
        o == fs[ds][old]
        moved == IF ds = dd
                 THEN cache_inode_rename_cached_dirent(gone.cache, Handle(ds, c), old, new)
                 ELSE cache_inode_remove_cached_dirent(
                          cache_inode_add_cached_dirent(gone.cache, Handle(dd, c), 1, new, src[2]),
                          Handle(ds, c), old)
    IN  /\ Call
        /\ Exists(ds) /\ Exists(dd)
        /\ SameDirLinks \/ ds = dd \/ \A m \in Names : fs[dd][m] # fs[ds][old]
        /\ IF src[2] = NULL THEN Returns(src[1], fs)
           ELSE IF stop THEN Returns(dst[1], fs)
           ELSE IF ~ gone.done \/ o = None \/ o \in Above(dd) THEN Returns(gone.cache, gone.fs)
           ELSE Returns(moved, [gone.fs EXCEPT ![ds][old] = None, ![dd][new] = o])

cache_inode_readdir(d, renew) ==
    LET c == cache_inode_get(cache, d)
        e == Handle(d, c)
    IN  /\ Call /\ Exists(d)
        /\ Returns(cache_inode_readdir_populate(cache_inode_renew_entry(c, e, renew), e), fs)

cache_inode_getattr(o, renew) ==
    LET c == cache_inode_get(cache, o)
    IN  Call /\ Exists(o) /\ Returns(cache_inode_renew_entry(c, Handle(o, c), renew), fs)

\* The parent is the head of the list of parents, a segment of a directory, or
\* what the file system answers to "..".
cache_inode_lookupp_sw(c, e, renew) ==
    LET r == cache_inode_renew_entry(c, e, renew)
        d == r.entry[e].obj
        p == Head(r.entry[e].parents)
        up == CHOOSE x \in Dirs : (d = Root /\ x = Root) \/ \E n \in Names : fs[x][n] = d
        got == cache_inode_get(r, up)
    IN  IF r.entry[e].parents = <<>>
        THEN [cache |-> got, parent |-> [dir |-> Handle(up, got), seg |-> 1]]
        ELSE [cache |-> cache_inode_valid(r, p.dir), parent |-> p]

\* A second LOOKUPP from a DIR_CONTINUE is refused (CACHE_INODE_BAD_TYPE).
cache_inode_lookupp(d, renew) ==
    LET c == cache_inode_get(cache, d)
    IN  Call /\ Exists(d) /\ Returns(cache_inode_lookupp_sw(c, Handle(d, c), renew).cache, fs)

\* A compound goes on with LOOKUP from the entry that LOOKUPP answered.
nfs4_op_lookup(d, renew, n) ==
    LET c == cache_inode_get(cache, d)
        up == cache_inode_lookupp_sw(c, Handle(d, c), renew)
    IN  /\ Call /\ Exists(d)
        /\ Returns(cache_inode_lookup_sw(up.cache, up.parent.dir, up.parent.seg, n)[1], fs)

\* The worker whose list holds the entry collects it once it is old enough.
\* A parent that was released has no lock any more, and taking it may have no
\* effect or any; the entry's own lock is taken already.
Collect(c, e) ==
    LET inval == cache_inode_gc_invalidate_related_dirent(c, e)
        parents == Range(c.entry[e].parents)
    IN  \/ /\ \E p \in parents : p.dir = e \/ Released(c, p)
           /\ undefined' = TRUE /\ UNCHANGED <<fs, cache>>
        \/ /\ \A p \in parents : p.dir # e
           /\ Returns(IF inval.ok THEN Release(inval.c, e) ELSE inval.c, fs)

cache_inode_gc_suppress_file(e) ==
    /\ Call
    /\ cache.entry[e].obj \in Files
    /\ Collect([cache EXCEPT !.entry[e].valid = FALSE], e)

cache_inode_gc_suppress_directory(e) ==
    LET c == [cache EXCEPT !.entry[e].valid = FALSE]
    IN  /\ Call
        /\ cache.entry[e].obj \in Dirs
        /\ IF cache_inode_is_dir_empty(c, e) THEN Collect(c, e) ELSE Returns(c, fs)

-----------------------------------------------------------------------------
\* cache_inode_make_root: the root has an entry and is its own parent.
Init ==
    LET root == CHOOSE i \in EntryIds : \A j \in EntryIds : i <= j
    IN  /\ fs = Exported
        /\ cache = [entry |-> [i \in EntryIds |->
                                  IF i # root THEN Free
                                  ELSE [obj |-> Root, valid |-> TRUE, links |-> 0,
                                        parents |-> <<[dir |-> root, seg |-> 1, pos |-> 1]>>,
                                        chain |-> <<NewSegment>>,
                                        has_been_readdir |-> FALSE]],
                    table |-> [o \in Objects |-> IF o = Root THEN root ELSE NULL]]
        /\ undefined = FALSE
        /\ calls = 0

Next ==
    \/ \E d \in Dirs, n \in Names : cache_inode_lookup(d, n) \/ cache_inode_remove(d, n)
    \/ \E d \in Dirs, n \in Names, o \in Objects : cache_inode_create(d, n, o)
    \/ \E d \in Dirs, n \in Names, o \in Objects : cache_inode_link(o, d, n)
    \/ \E ds, dd \in Dirs, old, new \in Names : cache_inode_rename(ds, old, dd, new)
    \/ \E d \in Dirs, renew \in BOOLEAN : cache_inode_readdir(d, renew)
    \/ \E d \in Dirs, renew \in BOOLEAN : cache_inode_lookupp(d, renew)
    \/ \E o \in Objects, renew \in BOOLEAN : cache_inode_getattr(o, renew)
    \/ \E e \in EntryIds : cache_inode_gc_suppress_file(e)

\* Directories do not expire (directory_expiration_delay is not positive), and
\* every call is given file handles.
Spec == Init /\ [][Next]_vars

\* Directories expire as files do, and compounds go on from a LOOKUPP.
WideSpec ==
    Init /\ [][\/ Next
              \/ \E e \in EntryIds : cache_inode_gc_suppress_directory(e)
              \/ \E d \in Dirs, renew \in BOOLEAN, n \in Names : nfs4_op_lookup(d, renew, n)]_vars

-----------------------------------------------------------------------------
Entry == [obj : Objects \cup {None}, valid : BOOLEAN, links : Nat,
          parents : Seq([dir : EntryIds, seg : Nat \ {0}, pos : 1 .. ArraySize]),
          chain : Seq([slot : [1 .. ArraySize -> Slot], nbactive : Int, end_of_dir : BOOLEAN]),
          has_been_readdir : BOOLEAN]

\* The types, and the shape of a chain: a directory has a DIR_BEGINNING and
\* its last segment is an END_OF_DIR.
TypeOK ==
    /\ fs \in [Dirs -> [Names -> Objects \cup {None}]]
    /\ cache.entry \in [EntryIds -> Entry]
    /\ cache.table \in [Objects -> EntryIds \cup {NULL}]
    /\ \A e \in EntryIds : LET x == cache.entry[e] IN
         IF x.obj \in Dirs THEN x.chain # <<>> /\ x.chain[Len(x.chain)].end_of_dir
         ELSE x.chain = <<>>
    /\ undefined \in BOOLEAN
    /\ calls \in 0 .. MaxCalls

CachedDirs == {d \in Live(cache) : cache.entry[d].obj \in Dirs}

\* Whatever was created, linked, moved, removed, read again and collected, a
\* cached dirent agrees with the file system: its name leads to the object
\* that has this name there, through an entry that is in the cache, and no name
\* is cached twice (operate_cached_dirent and lookup take the first).  This
\* needs that no file has two names in one directory (~ SameDirLinks), that
\* directories do not expire and that no compound looks a name up in the
\* DIR_CONTINUE that LOOKUPP may answer (Spec): with any of these it fails.
DirentsCoherent ==
    \A d \in CachedDirs :
        /\ \A p \in Positions(cache.entry[d].chain, 1) :
             LET t == DirentAt(cache, d, p) IN
             t.active => /\ t.pentry \in Live(cache)
                         /\ cache.entry[t.pentry].obj = fs[cache.entry[d].obj][t.name]
        /\ \A n \in Names : Cardinality(Dirents(cache, d, 1, n)) <= 1

\* Under the same conditions: cache_inode_remove releases the entry with the
\* last link, by a count of links of its own, and the table has exactly the
\* live entries, one for each object, all of objects that exist, and the count
\* is the file system's.
EntriesOfExisting ==
    \A o \in Objects :
        LET e == cache.table[o] IN
        /\ e # NULL => /\ Exists(o)
                       /\ cache.entry[e].obj = o
                       /\ o \in Files => cache.entry[e].links = numlinks(o)
        /\ \A i \in Live(cache) : cache.entry[i].obj = o => i = e

\* Under the same conditions: cache_inode_lookupp answers ".." from the head of
\* the list of parents, which renames, removals and new readings change behind
\* its back, and that is a segment of the parent that the file system has.
ParentIsParent ==
    \A d \in CachedDirs : cache.entry[d].parents # <<>> =>
        LET p == Head(cache.entry[d].parents).dir
            o == cache.entry[d].obj
        IN  /\ p \in Live(cache)
            /\ Head(cache.entry[d].parents).seg <= Len(cache.entry[p].chain)
            /\ IF o = Root THEN cache.entry[p].obj = Root
               ELSE cache.entry[p].obj \in Dirs
                    /\ \E n \in Names : fs[cache.entry[p].obj][n] = o

\* Under the same conditions: a directory that counts as read has a dirent for
\* each name of the file system (cache_inode_readdir answers from the dirents
\* alone), as long as it never grew a DIR_CONTINUE.
ReaddirComplete ==
    \A d \in CachedDirs :
        cache.entry[d].has_been_readdir /\ Len(cache.entry[d].chain) = 1 =>
            \A n \in Names : fs[cache.entry[d].obj][n] # None => Dirents(cache, d, 1, n) # {}

\* What cache_inode_gc_invalidate_related_dirent says of the list of parents
\* it walks: each is a cached directory, whose lock can be taken.
ParentsAreCached ==
    \A e \in Live(cache) : \A p \in Range(cache.entry[e].parents) : p.dir \in CachedDirs
=============================================================================
