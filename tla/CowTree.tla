------------------------------ MODULE CowTree ------------------------------
(***************************************************************************)
(* The copy-on-write B-tree of gems-index: BTree over Pager, with a reader *)
(* in another process.                                                     *)
(*                                                                         *)
(* The file is a shared mapping, so a process that dies leaves every write *)
(* it made, and a reader sees pages as they are written.  An operation     *)
(* writes its new pages one by one, publishes the root, and gives the old  *)
(* pages back one by one; a crash may fall between any two of these.  A    *)
(* page is its decoded node: encode and decode of node.rs are inverse on   *)
(* pages within capacity.  The header is written through with every        *)
(* change, so the copy in the process and the one in the file agree.       *)
(* commit_seq, which nothing reads, is left out.                           *)
(***************************************************************************)
EXTENDS Integers, Sequences, FiniteSets, SequencesExt

CONSTANTS
    Key,          \* numbers, as keys are ordered
    None,         \* what get returns for a missing key
    LeafCap,      \* leaf_capacity
    InternalCap,  \* internal_capacity
    PerOsPage,    \* how many pages of the file fill one page of the OS
    ReadKeys,     \* bound: the keys the reader may ask for
    MaxOps,       \* bound: operations started
    MaxOpsRead,   \* bound: the same, when there is a reader
    MaxCrashes    \* bound: deaths of the writing process

\* A page has room for an entry, and values are numbers from 1 on.
ASSUME CowTreeAssumption ==
    /\ Key \subseteq Int /\ ReadKeys \subseteq Key
    /\ LeafCap \in Nat \ {0} /\ InternalCap \in Nat \ {0} /\ PerOsPage \in Nat \ {0}
    /\ MaxOps \in Nat /\ MaxOpsRead \in Nat /\ None \notin 1..MaxOps

VARIABLES
    pages,    \* the pages of the file, from 1 on
    hdr,      \* the header: root page, head of the freelist
    op,       \* the operation under way
    map,      \* history: what the published operations amount to
    rd,       \* an open and a get by another process
    ops, crashes

vars == <<pages, hdr, op, map, rd, ops, crashes>>

Null == 0   \* page ids start at 1
Leaf(ks, vs) == [type |-> "leaf", keys |-> ks, vals |-> vs, kids |-> <<>>]
Internal(ks, cs) == [type |-> "internal", keys |-> ks, vals |-> <<>>, kids |-> cs]
FreeLink(next) == [type |-> "free", keys |-> <<>>, vals |-> <<>>, kids |-> <<next>>]

Idle == [step |-> "idle"]
NoReader == [step |-> "none"]

\* Mutant: a key equal to a separator is looked for on its left.
child_idx_Strict(node, k) == Cardinality({i \in DOMAIN node.keys : node.keys[i] < k}) + 1

\* v.keys.partition_point(|k| k <= key), as the index of the child
child_idx(node, k) == Cardinality({i \in DOMAIN node.keys : node.keys[i] <= k}) + 1

\* binary_search on a leaf: the place of the key, or where it belongs
place(node, k) == Cardinality({i \in DOMAIN node.keys : node.keys[i] < k}) + 1
found(node, k) == place(node, k) \in DOMAIN node.keys /\ node.keys[place(node, k)] = k
lookup(node, k) == IF found(node, k) THEN node.vals[place(node, k)] ELSE None

-----------------------------------------------------------------------------
(* The walks of btree.rs over a file f from the page p.  No walk goes      *)
(* deeper than the file has pages.                                         *)

\* The pages on the way from p to the leaf for k; there the way ends.
Descent(f, p, k) ==
    LET at[n \in 0..Len(f)] ==
            IF n = 0 THEN p
            ELSE LET q == at[n - 1] IN
                 IF f[q].type = "internal" THEN f[q].kids[child_idx(f[q], k)] ELSE q
    IN  at

\* How many internal pages there are on the way
Depth(f, at) == Cardinality({n \in 0..Len(f) : f[at[n]].type = "internal"})

\* Where the way ends
EndOf(f, at) == at[CHOOSE n \in 0..Len(f) : f[at[n]].type # "internal"]

get(f, p, k) == IF p = Null THEN None ELSE lookup(f[EndOf(f, Descent(f, p, k))], k)

\* scan_rec visits the children in order: taken level by level, the leaves.
Leaves(f, p) ==
    LET row[n \in 0..Len(f)] ==
            IF n = 0 THEN <<p>>
            ELSE LET r == row[n - 1] IN
                 FlattenSeq([i \in DOMAIN r |->
                     IF f[r[i]].type = "internal" THEN f[r[i]].kids ELSE <<r[i]>>])
    IN  row[Len(f)]

Entries(node) == [i \in DOMAIN node.keys |-> <<node.keys[i], node.vals[i]>>]

scan_all(f, p) ==
    IF p = Null THEN <<>>
    ELSE LET l == Leaves(f, p) IN FlattenSeq([i \in DOMAIN l |-> Entries(f[l[i]])])

\* The pages of the tree at p
Reach(f, p) ==
    LET down[n \in 0..Len(f)] ==
            IF n = 0 THEN {p} \ {Null}
            ELSE LET S == down[n - 1] IN S \cup UNION {ToSet(f[q].kids) : q \in S}
    IN  down[Len(f)]

FreeChain(f, p) ==
    LET link[n \in 0..Len(f)] ==
            IF n = 0 THEN p
            ELSE LET q == link[n - 1] IN IF q = Null THEN Null ELSE f[q].kids[1]
    IN  [i \in 1..Cardinality({n \in 0..Len(f) : link[n] # Null}) |-> link[i - 1]]

(* A plan collects what an operation will do: pages to write and to free.  *)
(* avail holds the freelist in order, count the length of the file.        *)
NoPlan == [avail |-> FreeChain(pages, hdr.free), count |-> Len(pages),
           writes |-> <<>>, frees |-> <<>>]

\* Mutant: growth hands out the last page of the file instead of a new one.
allocate_page_LastPage(s) ==
    IF s.avail # <<>> THEN Head(s.avail) ELSE IF s.count > 1 THEN s.count ELSE s.count + 1

\* allocate_page: the head of the freelist, else the file grows
allocate_page(s) == IF s.avail # <<>> THEN Head(s.avail) ELSE s.count + 1

Write(s, node) ==
    [s EXCEPT !.avail = IF @ # <<>> THEN Tail(@) ELSE @,
              !.count = IF s.avail # <<>> THEN @ ELSE @ + 1,
              !.writes = Append(@, [page |-> allocate_page(s), node |-> node])]

Written(s) == s.writes[Len(s.writes)].page

\* pending_free.push
Freeing(s, old) == [s EXCEPT !.frees = Append(@, old)]

\* InsertOutcome
Replaced(s, old, node) ==
    LET t == Write(s, node) IN [split |-> FALSE, plan |-> Freeing(t, old), left |-> Written(t)]

Split(s, old, left, sep, right) ==
    [split |-> TRUE, plan |-> Freeing(s, old), left |-> left, sep |-> sep, right |-> right]

From(s, i) == SubSeq(s, i, Len(s))

insert_leaf(s, p, k, v) ==
    LET node == pages[p]
        i == place(node, k)
        ks == IF found(node, k) THEN node.keys ELSE InsertAt(node.keys, i, k)
        vs == IF found(node, k) THEN [node.vals EXCEPT ![i] = v] ELSE InsertAt(node.vals, i, v)
        mid == Len(ks) \div 2
        r == Write(s, Leaf(From(ks, mid + 1), From(vs, mid + 1)))
        l == Write(r, Leaf(SubSeq(ks, 1, mid), SubSeq(vs, 1, mid)))
    IN  IF Len(ks) <= LeafCap THEN Replaced(s, p, Leaf(ks, vs))
        ELSE Split(l, p, Written(l), ks[mid + 1], Written(r))

\* delete_rec on the leaf that has the key: no page is merged or dropped
delete_leaf(s, p, k) ==
    LET node == pages[p]  i == place(node, k)
    IN  Replaced(s, p, Leaf(RemoveAt(node.keys, i), RemoveAt(node.vals, i)))

\* Mutant: the halves of a split child are linked the wrong way round.
insert_split_Swapped(s, p, i, child) ==
    LET node == pages[p]
        ks == InsertAt(node.keys, i, child.sep)
        cs == InsertAt([node.kids EXCEPT ![i] = child.right], i + 1, child.left)
        mid == Len(ks) \div 2
        l == Write(s, Internal(SubSeq(ks, 1, mid), SubSeq(cs, 1, mid + 1)))
        r == Write(l, Internal(From(ks, mid + 2), From(cs, mid + 2)))
    IN  IF Len(ks) <= InternalCap THEN Replaced(s, p, Internal(ks, cs))
        ELSE Split(r, p, Written(l), ks[mid + 1], Written(r))

\* The page above child i that has split
insert_split(s, p, i, child) ==
    LET node == pages[p]
        ks == InsertAt(node.keys, i, child.sep)
        cs == InsertAt([node.kids EXCEPT ![i] = child.left], i + 1, child.right)
        mid == Len(ks) \div 2
        l == Write(s, Internal(SubSeq(ks, 1, mid), SubSeq(cs, 1, mid + 1)))
        r == Write(l, Internal(From(ks, mid + 2), From(cs, mid + 2)))
    IN  IF Len(ks) <= InternalCap THEN Replaced(s, p, Internal(ks, cs))
        ELSE Split(r, p, Written(l), ks[mid + 1], Written(r))

\* insert_rec and delete_rec on page p once the call on its child is back
Above(p, k, child) ==
    LET node == pages[p]  i == child_idx(node, k)
    IN  IF child.split THEN insert_split(child.plan, p, i, child)
        ELSE Replaced(child.plan, p, Internal(node.keys, [node.kids EXCEPT ![i] = child.left]))

\* The same up to the root from what the call on the d-th page returned
Climb(at, d, k, leaf) ==
    LET up[j \in 0..d] == IF j = 0 THEN leaf ELSE Above(at[d - j], k, up[j - 1]) IN up[d]

insert_rec(k, v) ==
    LET at == Descent(pages, hdr.root, k)  d == Depth(pages, at)
    IN  Climb(at, d, k, insert_leaf(NoPlan, at[d], k, v))

delete_rec(k) ==
    LET at == Descent(pages, hdr.root, k)  d == Depth(pages, at)
    IN  Climb(at, d, k, delete_leaf(NoPlan, at[d], k))

\* insert: the plan and the page that becomes the root
insert(k, v) ==
    IF hdr.root = Null
    THEN LET s == Write(NoPlan, Leaf(<<k>>, <<v>>)) IN [plan |-> s, root |-> Written(s)]
    ELSE LET r == insert_rec(k, v) IN
         IF ~r.split THEN [plan |-> r.plan, root |-> r.left]
         ELSE LET s == Write(r.plan, Internal(<<r.sep>>, <<r.left, r.right>>))
              IN  [plan |-> s, root |-> Written(s)]

-----------------------------------------------------------------------------
(* The writing process                                                     *)

Init ==
    /\ pages = <<>> /\ hdr = [root |-> Null, free |-> Null]
    /\ op = Idle /\ map = [k \in Key |-> None]
    /\ rd = NoReader /\ ops = 0 /\ crashes = 0

Begin(plan, root, newmap) ==
    /\ op' = [step |-> "write", writes |-> plan.writes, frees |-> plan.frees,
              root |-> root, map |-> newmap]
    /\ ops' = ops + 1
    /\ UNCHANGED <<pages, hdr, map, rd, crashes>>

Insert(k, v) ==
    /\ op = Idle /\ ops < MaxOps /\ (rd # NoReader => ops < MaxOpsRead)
    /\ \E r \in {insert(k, v)} : Begin(r.plan, r.root, [map EXCEPT ![k] = v])

\* Mutant: a delete of a missing key gives the leaf back all the same.
Delete_FreesUntouched(k) ==
    /\ op = Idle /\ ops < MaxOps /\ (rd # NoReader => ops < MaxOpsRead)
    /\ hdr.root # Null
    /\ IF get(pages, hdr.root, k) # None
       THEN \E r \in {delete_rec(k)} :
                Begin(r.plan, r.left, [map EXCEPT ![k] = None])
       ELSE Begin([NoPlan EXCEPT !.frees = <<hdr.root>>], hdr.root, map)

\* A delete of a missing key touches nothing.
Delete(k) ==
    /\ op = Idle /\ ops < MaxOps /\ (rd # NoReader => ops < MaxOpsRead)
    /\ hdr.root # Null /\ get(pages, hdr.root, k) # None
    /\ \E r \in {delete_rec(k)} :
            Begin(r.plan, r.left, [map EXCEPT ![k] = None])

\* allocate_page and encode_leaf or encode_internal
WritePage ==
    /\ op.step = "write" /\ op.writes # <<>>
    /\ LET w == Head(op.writes) IN
        /\ IF w.page \in DOMAIN pages
           THEN pages' = [pages EXCEPT ![w.page] = w.node]
           ELSE pages' = Append(pages, w.node)
        /\ hdr' = [hdr EXCEPT !.free = IF w.page = @ THEN pages[w.page].kids[1] ELSE @]
    /\ op' = [op EXCEPT !.writes = Tail(@)]
    /\ UNCHANGED <<map, rd, ops, crashes>>

publish_root ==
    /\ op.step = "write" /\ op.writes = <<>>
    /\ hdr' = [hdr EXCEPT !.root = op.root]
    /\ map' = op.map
    /\ op' = IF op.frees = <<>> THEN Idle ELSE [op EXCEPT !.step = "free"]
    /\ UNCHANGED <<pages, rd, ops, crashes>>

free_page ==
    /\ op.step = "free"
    /\ LET p == Head(op.frees) IN
        /\ pages' = [pages EXCEPT ![p] = FreeLink(hdr.free)]
        /\ hdr' = [hdr EXCEPT !.free = p]
        /\ rd' = IF rd # NoReader /\ p \in rd.tree THEN [rd EXCEPT !.stale = TRUE] ELSE rd
    /\ op' = IF Len(op.frees) = 1 THEN Idle ELSE [op EXCEPT !.frees = Tail(@)]
    /\ UNCHANGED <<map, ops, crashes>>

\* The process dies; the next one opens what is in the file.
Crash ==
    /\ op # Idle /\ crashes < MaxCrashes
    /\ op' = Idle /\ crashes' = crashes + 1
    /\ UNCHANGED <<pages, hdr, map, rd, ops>>

-----------------------------------------------------------------------------
(* BTree::open(path, false) and get in another process                     *)

\* round_up_to_os_page of the file's length, as the last page id that fits:
\* the header comes before page 1.
mapped_len(n) == PerOsPage * (n \div PerOsPage + 1) - 1

\* fstat and mmap: the length of the mapping is settled here.  Nothing
\* shortens the file, so it makes no difference when the mmap follows.
OpenReader(k) ==
    /\ rd = NoReader /\ ops <= MaxOpsRead
    /\ rd' = [step |-> "open", page |-> Null, key |-> k, mapped |-> mapped_len(Len(pages)),
              stale |-> FALSE, tree |-> {}, expect |-> None]
    /\ UNCHANGED <<pages, hdr, op, map, ops, crashes>>

\* Header::decode, which keeps the root, and the start of get
ReadHeader ==
    /\ rd.step = "open"
    /\ rd' = [rd EXCEPT !.step = IF hdr.root = Null THEN "done" ELSE "walk",
                        !.page = IF hdr.root = Null THEN None ELSE hdr.root,
                        !.tree = Reach(pages, hdr.root), !.expect = map[rd.key]]
    /\ UNCHANGED <<pages, hdr, op, map, ops, crashes>>

\* One page of the descent.  CorruptPage beyond the mapping and for anything
\* but a node, or a panic at the unreachable!() behind node_type.
ReadPage ==
    /\ rd.step = "walk"
    /\ LET node == pages[rd.page] IN
        rd' = IF rd.page > rd.mapped \/ node.type \notin {"internal", "leaf"}
              THEN [rd EXCEPT !.step = "failed"]
              ELSE IF node.type = "internal"
              THEN [rd EXCEPT !.page = node.kids[child_idx(node, rd.key)]]
              ELSE [rd EXCEPT !.step = "done", !.page = lookup(node, rd.key)]
    /\ UNCHANGED <<pages, hdr, op, map, ops, crashes>>

Next ==
    \/ \E k \in Key : Delete(k) \/ Insert(k, ops + 1)   \* each insert writes a new value
    \/ \E k \in ReadKeys : OpenReader(k)
    \/ WritePage \/ publish_root \/ free_page \/ Crash
    \/ ReadHeader \/ ReadPage

Spec == Init /\ [][Next]_vars

-----------------------------------------------------------------------------
(* Properties                                                              *)

Map == INSTANCE OrderedMap WITH Value <- 1..MaxOps,
    map <- [k \in Key |-> get(pages, hdr.root, k)]

\* The tree in the file is a map with atomic operations: no step but
\* publish_root changes what get returns for any key, and that one makes one
\* insert or delete visible, whatever crashes came before.
IsAtomicMap == Map!Spec

\* scan_all returns every entry once, in ascending order, and nothing else:
\* it agrees with the operations published so far.  And every node it passes
\* is within its capacity, so that encode fitted it into its page.
ScanIsExact ==
    LET s == scan_all(pages, hdr.root) IN
        /\ \A i, j \in DOMAIN s : i < j => s[i][1] < s[j][1]
        /\ ToSet(s) = {<<k, map[k]>> : k \in {j \in Key : map[j] # None}}
        /\ \A p \in Reach(pages, hdr.root) : LET n == pages[p] IN
            \/ n.type = "leaf" /\ Len(n.keys) = Len(n.vals) /\ Len(n.keys) <= LeafCap
            \/ n.type = "internal" /\ Len(n.kids) = Len(n.keys) + 1 /\ Len(n.keys) <= InternalCap

\* A page is on the freelist once or in the tree, never both: a crash may
\* leak pages, it never lets one be handed out twice.
FreelistIsSound ==
    LET free == FreeChain(pages, hdr.free) IN
        /\ IsInjective(free)
        /\ ToSet(free) \cap Reach(pages, hdr.root) = {}

\* A reader keeps the length of the file and, read later, the root it opened
\* with.  As long as none of that tree's pages has been given back (free_page,
\* doc: "safe once no reader can still be using the page"), what it finds is
\* what that root stood for, and it fails only if the file outgrew its mapping
\* between the two reads: then a page of the tree lies beyond (Pager::page),
\* though ARCHITECTURE.md has such a root stay valid beside writers.
ReaderExactUnlessReclaimed ==
    (rd # NoReader /\ ~rd.stale) =>
        /\ rd.step = "done" => rd.page = rd.expect
        /\ rd.step = "failed" => \E p \in rd.tree : p > rd.mapped
=============================================================================
