----------------------------- MODULE TreeProofs -----------------------------
(***************************************************************************)
(* Proofs about CowTree, for any keys, capacities and bounds: the tree in  *)
(* the file is a map with atomic operations, scan_all lists it, the        *)
(* freelist and the tree never share a page, and a reader on an old root   *)
(* is right until a page of its tree is given back.                        *)
(*                                                                         *)
(* A set T of pages is a forest when every page of it has a level lev, 0   *)
(* for a leaf, and a range rng of keys that a descent for brings there.    *)
(* The tree is a forest whose root has all keys for its range.  A plan     *)
(* turns one forest into another without touching a page of the first, and *)
(* the file is at every moment somewhere between the two.                  *)
(***************************************************************************)
EXTENDS CowTree, TLAPS, FiniteSetTheorems, SequenceTheorems, DataInduction

-----------------------------------------------------------------------------
(* Ordered keys, and where a key is among them                             *)

Sorted(ks) == \A i, j \in 1..Len(ks) : i < j => ks[i] < ks[j]

LEMMA CardOfInterval ==
    ASSUME NEW n \in Nat
    PROVE  /\ IsFiniteSet(1..n) /\ Cardinality(1..n) = n
           /\ IsFiniteSet(0..n) /\ Cardinality(0..n) = n + 1
           /\ Cardinality(0..(n - 1)) = n
  <1>1. IsFiniteSet(1..n) /\ Cardinality(1..n) = IF 1 > n THEN 0 ELSE n - 1 + 1
    BY FS_Interval
  <1>2. IsFiniteSet(0..n) /\ Cardinality(0..n) = IF 0 > n THEN 0 ELSE n - 0 + 1
    BY FS_Interval
  <1>3. Cardinality(0..(n - 1)) = IF 0 > n - 1 THEN 0 ELSE (n - 1) - 0 + 1
    <2>1. n - 1 \in Int
      OBVIOUS
    <2> QED BY <2>1, FS_Interval
  <1> QED BY <1>1, <1>2, <1>3

\* A set of numbers that holds 1 up to each of its elements is 1..Cardinality.
LEMMA DownClosed ==
    ASSUME NEW n \in Nat, NEW S, S \subseteq 1..n, \A i \in S : \A j \in 1..i : j \in S
    PROVE  Cardinality(S) \in 0..n /\ S = 1..Cardinality(S)
  <1>1. CASE S = {}
    <2>1. Cardinality(S) = 0
      BY <1>1, FS_EmptySet
    <2> QED BY <1>1, <2>1
  <1>2. CASE S # {}
    <2>1. S \subseteq 0..n
      OBVIOUS
    <2>2. PICK m \in S : \A i \in S : m >= i
      BY <1>2, <2>1, MaxIsGreatest
    <2>3. m \in 1..n /\ S = 1..m
      <3>1. m \in 1..n
        OBVIOUS
      <3>2. ASSUME NEW i \in S PROVE i \in 1..m
        BY <2>2, <3>1
      <3>3. ASSUME NEW i \in 1..m PROVE i \in S
        OBVIOUS
      <3> QED BY <3>1, <3>2, <3>3
    <2>4. Cardinality(1..m) = m
      BY <2>3, CardOfInterval
    <2> QED BY <2>3, <2>4
  <1> QED BY <1>1, <1>2

\* partition_point: the keys up to x are those before child_idx.
LEMMA ChildIs ==
    ASSUME NEW node, node.keys \in Seq(Int), Sorted(node.keys), NEW x \in Int
    PROVE  /\ child_idx(node, x) \in 1..(Len(node.keys) + 1)
           /\ \A i \in 1..Len(node.keys) : node.keys[i] <= x <=> i < child_idx(node, x)
  <1> DEFINE n == Len(node.keys)
             S == {i \in DOMAIN node.keys : node.keys[i] <= x}
  <1>1. n \in Nat /\ DOMAIN node.keys = 1..n /\ \A i \in 1..n : node.keys[i] \in Int
    OBVIOUS
  <1>2. \A i \in S : \A j \in 1..i : j \in S
    BY <1>1 DEF Sorted
  <1>3. S \subseteq 1..n
    BY <1>1
  <1>4. Cardinality(S) \in 0..n /\ S = 1..Cardinality(S)
    <2> HIDE DEF S, n
    <2> QED BY <1>1, <1>2, <1>3, DownClosed
  <1>5. child_idx(node, x) = Cardinality(S) + 1
    BY DEF child_idx
  <1>6. \A i \in 1..n : i \in S <=> node.keys[i] <= x
    BY <1>1
  <1>7. \A i \in 1..n : i \in S <=> i < child_idx(node, x)
    <2> HIDE DEF S
    <2> QED BY <1>1, <1>4, <1>5
  <1> QED BY <1>1, <1>4, <1>5, <1>6, <1>7

\* binary_search: the keys below x are those before place.
LEMMA PlaceIs ==
    ASSUME NEW node, node.keys \in Seq(Int), Sorted(node.keys), NEW x \in Int
    PROVE  /\ place(node, x) \in 1..(Len(node.keys) + 1)
           /\ \A i \in 1..Len(node.keys) : node.keys[i] < x <=> i < place(node, x)
           /\ found(node, x) <=> \E i \in 1..Len(node.keys) : node.keys[i] = x
           /\ \A i \in 1..Len(node.keys) : node.keys[i] = x => i = place(node, x)
  <1> DEFINE n == Len(node.keys)
             S == {i \in DOMAIN node.keys : node.keys[i] < x}
  <1>1. n \in Nat /\ DOMAIN node.keys = 1..n /\ \A i \in 1..n : node.keys[i] \in Int
    OBVIOUS
  <1>2. \A i \in S : \A j \in 1..i : j \in S
    BY <1>1 DEF Sorted
  <1>3. S \subseteq 1..n
    BY <1>1
  <1>4. Cardinality(S) \in 0..n /\ S = 1..Cardinality(S)
    <2> HIDE DEF S, n
    <2> QED BY <1>1, <1>2, <1>3, DownClosed
  <1>5. place(node, x) = Cardinality(S) + 1
    BY DEF place
  <1>6. \A i \in 1..n : i \in S <=> node.keys[i] < x
    BY <1>1
  <1>7. \A i \in 1..n : i \in S <=> i < place(node, x)
    <2> HIDE DEF S
    <2> QED BY <1>1, <1>4, <1>5
  <1>8. /\ place(node, x) \in 1..(n + 1)
        /\ \A i \in 1..n : node.keys[i] < x <=> i < place(node, x)
    BY <1>1, <1>4, <1>5, <1>6, <1>7
  <1> HIDE DEF S, n
  <1>9. ASSUME NEW i \in 1..n, node.keys[i] = x PROVE i = place(node, x)
    <2>1. ~(i < place(node, x))
      BY <1>1, <1>8, <1>9
    <2>2. ASSUME place(node, x) < i PROVE FALSE
      <3>1. place(node, x) \in 1..n /\ ~(node.keys[place(node, x)] < x)
        BY <1>1, <1>8, <2>2
      <3>2. node.keys[place(node, x)] < node.keys[i]
        BY <1>1, <2>2, <3>1 DEF Sorted, n
      <3> QED BY <1>9, <3>1, <3>2
    <2> QED BY <1>1, <1>8, <2>1, <2>2
  <1>10. found(node, x) <=> \E i \in 1..n : node.keys[i] = x
    BY <1>1, <1>8, <1>9 DEF found
  <1> QED BY <1>8, <1>9, <1>10 DEF n

LEMMA InsertAtIs ==
    ASSUME NEW V, NEW s \in Seq(V), NEW i \in 1..(Len(s) + 1), NEW e \in V
    PROVE  /\ InsertAt(s, i, e) \in Seq(V)
           /\ Len(InsertAt(s, i, e)) = Len(s) + 1
           /\ InsertAt(s, i, e)[i] = e
           /\ \A j \in 1..(i - 1) : InsertAt(s, i, e)[j] = s[j]
           /\ \A j \in (i + 1)..(Len(s) + 1) : InsertAt(s, i, e)[j] = s[j - 1]
  <1> DEFINE a == SubSeq(s, 1, i - 1)
             b == SubSeq(s, i, Len(s))
  <1>1. /\ a \in Seq(V) /\ Len(a) = i - 1
        /\ \A j \in 1..(i - 1) : a[j] = s[j]
    OBVIOUS
  <1>2. /\ b \in Seq(V) /\ Len(b) = Len(s) - i + 1
        /\ \A j \in 1..(Len(s) - i + 1) : b[j] = s[i + j - 1]
    OBVIOUS
  <1> HIDE DEF a, b
  <1> DEFINE c == a \o <<e>>
  <1>3. /\ c \in Seq(V) /\ Len(c) = i /\ c[i] = e
        /\ \A j \in 1..(i - 1) : c[j] = s[j]
    BY <1>1
  <1> HIDE DEF c
  <1> DEFINE r == c \o b
  <1>4. /\ r \in Seq(V) /\ Len(r) = Len(s) + 1
        /\ \A j \in 1..i : r[j] = c[j]
        /\ \A j \in (i + 1)..(Len(s) + 1) : r[j] = b[j - i]
    <2>1. /\ c \in Seq(V) /\ b \in Seq(V) /\ Len(s) \in Nat /\ i \in 1..(Len(s) + 1)
          /\ Len(c) = i /\ Len(b) = Len(s) - i + 1
      BY <1>2, <1>3
    <2>2. /\ r \in Seq(V) /\ Len(r) = Len(c) + Len(b)
          /\ \A j \in 1..(Len(c) + Len(b)) : r[j] = IF j <= Len(c) THEN c[j] ELSE b[j - Len(c)]
      BY <2>1, ConcatProperties
    <2> HIDE DEF r
    <2> QED BY <2>1, <2>2
  <1>5. \A j \in (i + 1)..(Len(s) + 1) : r[j] = s[j - 1]
    <2> TAKE j \in (i + 1)..(Len(s) + 1)
    <2>1. j - i \in 1..(Len(s) - i + 1) /\ i + (j - i) - 1 = j - 1
      OBVIOUS
    <2> QED BY <1>2, <1>4, <2>1
  <1>6. r = InsertAt(s, i, e)
    BY DEF InsertAt, a, b, c
  <1> HIDE DEF r
  <1> QED BY <1>3, <1>4, <1>5, <1>6

LEMMA ConcatIs ==
    ASSUME NEW V, NEW a \in Seq(V), NEW b \in Seq(V)
    PROVE  /\ a \o b \in Seq(V) /\ Len(a \o b) = Len(a) + Len(b)
           /\ \A j \in 1..Len(a) : (a \o b)[j] = a[j]
           /\ \A j \in (Len(a) + 1)..(Len(a) + Len(b)) : (a \o b)[j] = b[j - Len(a)]
  OBVIOUS

LEMMA RemoveAtIs ==
    ASSUME NEW V, NEW s \in Seq(V), NEW i \in 1..Len(s)
    PROVE  /\ RemoveAt(s, i) \in Seq(V)
           /\ Len(RemoveAt(s, i)) = Len(s) - 1
           /\ \A j \in 1..(i - 1) : RemoveAt(s, i)[j] = s[j]
           /\ \A j \in i..(Len(s) - 1) : RemoveAt(s, i)[j] = s[j + 1]
  <1> DEFINE a == SubSeq(s, 1, i - 1)
             b == SubSeq(s, i + 1, Len(s))
  <1>1. /\ a \in Seq(V) /\ Len(a) = i - 1
        /\ \A j \in 1..(i - 1) : a[j] = s[j]
    OBVIOUS
  <1>2. /\ b \in Seq(V) /\ Len(b) = Len(s) - i
        /\ \A j \in 1..(Len(s) - i) : b[j] = s[i + j]
    OBVIOUS
  <1> HIDE DEF a, b
  <1> DEFINE r == a \o b
  <1>0. i \in Nat /\ Len(s) \in Nat /\ i <= Len(s) /\ i >= 1
    OBVIOUS
  <1>3. /\ r \in Seq(V) /\ Len(r) = Len(a) + Len(b)
        /\ \A j \in 1..Len(a) : r[j] = a[j]
        /\ \A j \in (Len(a) + 1)..(Len(a) + Len(b)) : r[j] = b[j - Len(a)]
    BY <1>1, <1>2, ConcatIs
  <1> HIDE DEF r
  <1>4. /\ r \in Seq(V) /\ Len(r) = Len(s) - 1
        /\ \A j \in 1..(i - 1) : r[j] = a[j]
        /\ \A j \in i..(Len(s) - 1) : r[j] = b[j - i + 1]
    <2>1. \A j \in i..(Len(s) - 1) :
             j \in (Len(a) + 1)..(Len(a) + Len(b)) /\ j - Len(a) = j - i + 1
      BY <1>0, <1>1, <1>2
    <2> QED BY <1>0, <1>1, <1>2, <1>3, <2>1
  <1>5. \A j \in i..(Len(s) - 1) : r[j] = s[j + 1]
    <2> TAKE j \in i..(Len(s) - 1)
    <2>1. j - i + 1 \in 1..(Len(s) - i) /\ i + (j - i + 1) = j + 1
      OBVIOUS
    <2> QED BY <1>2, <1>4, <2>1
  <1>6. r = RemoveAt(s, i)
    BY DEF RemoveAt, a, b, r
  <1> QED BY <1>1, <1>4, <1>5, <1>6

-----------------------------------------------------------------------------
(* Forests                                                                 *)

LEMMA SeqOfKeys == ASSUME NEW s \in Seq(Key) PROVE s \in Seq(Int)
  BY SeqMonotonic, CowTreeAssumption

Value == 1..MaxOps
Maps == [Key -> Value \cup {None}]

Node == [type : {"leaf", "internal", "free"}, keys : Seq(Key), vals : Seq(Value), kids : Seq(Nat)]

\* The entries of a leaf are what the map m has on the range R.
Holds(ks, vs, R, m) ==
    /\ ks \in Seq(Key) /\ vs \in Seq(Value) /\ Len(vs) = Len(ks) /\ Sorted(ks)
    /\ \A i \in 1..Len(ks) : ks[i] \in R /\ m[ks[i]] = vs[i]
    /\ \A x \in R : m[x] # None => \E i \in 1..Len(ks) : ks[i] = x

\* The keys of the range R that belong to child i
Part(ks, R, i) == {x \in R : \A j \in 1..Len(ks) : ks[j] <= x <=> j < i}

Separators(ks, R) == ks \in Seq(Key) /\ Sorted(ks) /\ \A i \in 1..Len(ks) : ks[i] \in R

\* In the forest t, page q is at level l and has the range R.
Has(t, q, l, R) == q \in t.T /\ t.lev[q] = l /\ t.rng[q] = R

\* The children of a page at level l with the range R
Divides(ks, cs, R, l, t) ==
    /\ Separators(ks, R) /\ cs \in Seq(Nat) /\ Len(cs) = Len(ks) + 1
    /\ \A i \in 1..Len(cs) : Has(t, cs[i], l - 1, Part(ks, R, i))

LeafOK(node, R, m) ==
    /\ node.type = "leaf" /\ node.kids = <<>>
    /\ Len(node.keys) <= LeafCap /\ Holds(node.keys, node.vals, R, m)

InnerOK(node, R, l, t) ==
    /\ node.type = "internal" /\ Len(node.keys) <= InternalCap
    /\ Divides(node.keys, node.kids, R, l, t)

NodeOK(node, l, R, t, m) ==
    /\ node \in Node /\ l \in Nat /\ R \subseteq Key /\ R # {}
    /\ l = 0 => LeafOK(node, R, m)
    /\ l > 0 => InnerOK(node, R, l, t)

Forest(f, t, m) ==
    t.T \subseteq DOMAIN f /\ \A p \in t.T : NodeOK(f[p], t.lev[p], t.rng[p], t, m)

\* In a leaf, lookup finds what the map has.
LEMMA LookupIs ==
    ASSUME NEW node, NEW R, R \subseteq Key, NEW m, LeafOK(node, R, m), NEW x \in R
    PROVE  lookup(node, x) = m[x]
  <1>1. node.keys \in Seq(Int) /\ Sorted(node.keys) /\ x \in Int
    BY SeqOfKeys, CowTreeAssumption DEF LeafOK, Holds
  <1>2. /\ found(node, x) <=> \E i \in 1..Len(node.keys) : node.keys[i] = x
        /\ \A i \in 1..Len(node.keys) : node.keys[i] = x => i = place(node, x)
    BY <1>1, PlaceIs
  <1>3. CASE \E i \in 1..Len(node.keys) : node.keys[i] = x
    <2>1. PICK i \in 1..Len(node.keys) : node.keys[i] = x
      BY <1>3
    <2>2. i = place(node, x) /\ m[x] = node.vals[i]
      BY <1>2, <2>1 DEF LeafOK, Holds
    <2> QED BY <1>2, <1>3, <2>2 DEF lookup
  <1>4. CASE ~\E i \in 1..Len(node.keys) : node.keys[i] = x
    <2>1. m[x] = None
      BY <1>4 DEF LeafOK, Holds
    <2> QED BY <1>2, <1>4, <2>1 DEF lookup
  <1> QED BY <1>3, <1>4

\* child_idx picks the part the key is in.
LEMMA ChildPart ==
    ASSUME NEW node, NEW R, Separators(node.keys, R), NEW x \in R, R \subseteq Key
    PROVE  /\ child_idx(node, x) \in 1..(Len(node.keys) + 1)
           /\ x \in Part(node.keys, R, child_idx(node, x))
  <1>1. node.keys \in Seq(Int) /\ Sorted(node.keys) /\ x \in Int
    BY SeqOfKeys, CowTreeAssumption DEF Separators
  <1> QED BY <1>1, ChildIs DEF Part

\* A key is in one part only.
LEMMA OnePart ==
    ASSUME NEW ks, NEW R, NEW x, Len(ks) \in Nat,
           NEW i \in 1..(Len(ks) + 1), NEW j \in 1..(Len(ks) + 1),
           x \in Part(ks, R, i), x \in Part(ks, R, j)
    PROVE  i = j
  <1>1. ASSUME NEW a \in 1..(Len(ks) + 1), NEW b \in 1..(Len(ks) + 1), a < b,
               x \in Part(ks, R, a), x \in Part(ks, R, b)
        PROVE  FALSE
    <2>1. a \in 1..Len(ks)
      BY <1>1
    <2> QED BY <1>1, <2>1 DEF Part
  <1> QED BY <1>1

\* The child of a page for a key is in the forest, one level down, and the key
\* is in its range.
LEMMA ChildOf ==
    ASSUME NEW f, NEW t, NEW m, Forest(f, t, m),
           NEW p \in t.T, t.lev[p] > 0, NEW k \in t.rng[p]
    PROVE  /\ child_idx(f[p], k) \in 1..Len(f[p].kids)
           /\ \E c \in t.T : /\ c = f[p].kids[child_idx(f[p], k)]
                             /\ t.lev[c] = t.lev[p] - 1 /\ k \in t.rng[c]
  <1>1. NodeOK(f[p], t.lev[p], t.rng[p], t, m)
    BY DEF Forest
  <1>2. t.rng[p] \subseteq Key /\ Divides(f[p].keys, f[p].kids, t.rng[p], t.lev[p], t)
    BY <1>1 DEF NodeOK, InnerOK
  <1>3. /\ child_idx(f[p], k) \in 1..(Len(f[p].keys) + 1)
        /\ k \in Part(f[p].keys, t.rng[p], child_idx(f[p], k))
    BY <1>2, ChildPart DEF Divides
  <1>4. child_idx(f[p], k) \in 1..Len(f[p].kids)
    BY <1>2, <1>3 DEF Divides
  <1>5. Has(t, f[p].kids[child_idx(f[p], k)], t.lev[p] - 1,
            Part(f[p].keys, t.rng[p], child_idx(f[p], k)))
    BY <1>2, <1>4 DEF Divides
  <1> QED BY <1>3, <1>4, <1>5 DEF Has

\* A page is internal when its level is not 0.
LEMMA TypeOfPage ==
    ASSUME NEW f, NEW t, NEW m, Forest(f, t, m), NEW p \in t.T
    PROVE  /\ t.lev[p] \in Nat /\ t.rng[p] \subseteq Key
           /\ t.lev[p] > 0 <=> f[p].type = "internal"
           /\ t.lev[p] = 0 <=> f[p].type = "leaf"
  <1>1. NodeOK(f[p], t.lev[p], t.rng[p], t, m)
    BY DEF Forest
  <1> QED BY <1>1 DEF NodeOK, LeafOK, InnerOK

-----------------------------------------------------------------------------
(* The way down                                                            *)

\* at is a way from p towards k.
Way(at, f, p, k) ==
    /\ at[0] = p
    /\ \A n \in 1..Len(f) :
          at[n] = IF f[at[n - 1]].type = "internal"
                  THEN f[at[n - 1]].kids[child_idx(f[at[n - 1]], k)] ELSE at[n - 1]

LEMMA DescentWalks ==
    ASSUME NEW f \in Seq(Node), NEW t, NEW m, Forest(f, t, m), NEW p \in t.T, NEW k \in t.rng[p]
    PROVE  Way(Descent(f, p, k), f, p, k)
  <1> DEFINE n == Len(f)
             S == {q \in t.T : k \in t.rng[q]}
             Step(q) == IF f[q].type = "internal" THEN f[q].kids[child_idx(f[q], k)] ELSE q
             F == [x \in S \X (1..n) |-> Step(x[1])]
             Body(g) == [j \in 0..n |-> IF j = 0 THEN p ELSE Step(g[j - 1])]
             at == CHOOSE g : g = Body(g)
  <1>1. n \in Nat /\ p \in S
    OBVIOUS
  <1>2. \A q \in S : Step(q) \in S
    <2> SUFFICES ASSUME NEW q \in S PROVE Step(q) \in S
      OBVIOUS
    <2>1. CASE f[q].type = "internal"
      <3>1. t.lev[q] > 0
        BY <2>1, TypeOfPage
      <3>2. PICK c \in t.T : c = f[q].kids[child_idx(f[q], k)] /\ k \in t.rng[c]
        BY <3>1, ChildOf
      <3> QED BY <2>1, <3>2
    <2>2. CASE f[q].type # "internal"
      BY <2>2
    <2> QED BY <2>1, <2>2
  <1> HIDE DEF S, Step
  <1>3. F \in [S \X (1..n) -> S]
    BY <1>2
  <1>4. PICK g : /\ g = [j \in 0..n |-> IF j = 0 THEN p ELSE F[<<g[j - 1], j>>]]
                 /\ \A j \in 0..n : g[j] \in S
    <2> HIDE DEF F, n
    <2>1. \E g : Iteration(g, S, p, n, F)
      BY <1>1, <1>3, Fixpoint
    <2> QED BY <2>1 DEF Iteration
  <1>5. g = Body(g)
    <2>1. ASSUME NEW j \in 0..n, j # 0
          PROVE  F[<<g[j - 1], j>>] = Step(g[j - 1])
      <3>1. j \in 1..n /\ j - 1 \in 0..n
        BY <1>1, <2>1
      <3>2. g[j - 1] \in S
        BY <1>4, <3>1
      <3> QED BY <3>1, <3>2
    <2> HIDE DEF F
    <2> QED BY <1>4, <2>1
  <1>6. at = Body(at)
    <2> HIDE DEF Body
    <2> QED BY <1>5
  <1>7. at[0] = p /\ \A j \in 1..n : at[j] = Step(at[j - 1])
    <2> HIDE DEF at
    <2>1. \A j \in 0..n : at[j] = IF j = 0 THEN p ELSE Step(at[j - 1])
      BY <1>6
    <2>2. 0 \in 0..n /\ \A j \in 1..n : j \in 0..n /\ j # 0
      BY <1>1
    <2> QED BY <2>1, <2>2
  <1>8. at = Descent(f, p, k)
    BY DEF Descent, Step
  <1> HIDE DEF at
  <1> QED BY <1>7, <1>8 DEF Way, Step

\* The way goes down a level with each step and stays where it meets a leaf;
\* the file has more pages than the tree has levels.
LEMMA WayDown ==
    ASSUME NEW f \in Seq(Node), NEW t, NEW m, Forest(f, t, m), NEW p \in t.T, NEW k \in t.rng[p],
           NEW at, Way(at, f, p, k)
    PROVE  \A n \in 0..Len(f) :
              /\ at[n] \in t.T /\ k \in t.rng[at[n]]
              /\ t.lev[at[n]] = IF n <= t.lev[p] THEN t.lev[p] - n ELSE 0
  <1> DEFINE d == t.lev[p]
             Good(n) == /\ at[n] \in t.T /\ k \in t.rng[at[n]]
                        /\ t.lev[at[n]] = IF n <= d THEN d - n ELSE 0
             U == {n \in 0..Len(f) : Good(n)}
  <1>1. d \in Nat /\ Len(f) \in Nat
    BY TypeOfPage
  <1>2. 0 \in U
    BY <1>1 DEF Way
  <1>3. ASSUME NEW n \in 1..Len(f), n - 1 \in U PROVE n \in U
    <2> DEFINE q == at[n - 1]
    <2>1. q \in t.T /\ k \in t.rng[q] /\ t.lev[q] = IF n - 1 <= d THEN d - (n - 1) ELSE 0
      BY <1>3
    <2>2. at[n] = IF f[q].type = "internal" THEN f[q].kids[child_idx(f[q], k)] ELSE q
      BY DEF Way
    <2> HIDE DEF q
    <2>3. CASE t.lev[q] > 0
      <3>1. f[q].type = "internal"
        BY <2>1, <2>3, TypeOfPage
      <3>2. at[n] \in t.T /\ k \in t.rng[at[n]] /\ t.lev[at[n]] = t.lev[q] - 1
        BY <2>1, <2>2, <2>3, <3>1, ChildOf
      <3> QED BY <1>1, <2>1, <2>3, <3>2
    <2>4. CASE t.lev[q] = 0
      <3>1. at[n] = q
        BY <2>1, <2>2, <2>4, TypeOfPage
      <3> QED BY <1>1, <2>1, <2>4, <3>1
    <2> QED BY <1>1, <2>1, <2>3, <2>4
  <1>4. 0..Len(f) \subseteq U
    <2> HIDE DEF U
    <2> QED BY <1>1, <1>2, <1>3, UpTo
  <1> QED BY <1>4

LEMMA FewLevels ==
    ASSUME NEW f \in Seq(Node), NEW t, NEW m, Forest(f, t, m), NEW p \in t.T, NEW k \in t.rng[p],
           NEW at, Way(at, f, p, k)
    PROVE  t.lev[p] \in Nat /\ t.lev[p] < Len(f)
  <1>1. t.lev[p] \in Nat /\ Len(f) \in Nat /\ t.T \subseteq 1..Len(f)
    <2>1. Len(f) \in Nat /\ DOMAIN f = 1..Len(f)
      OBVIOUS
    <2>2. t.lev[p] \in Nat
      BY TypeOfPage
    <2> QED BY <2>1, <2>2 DEF Forest
  <1>2. SUFFICES ASSUME t.lev[p] >= Len(f) PROVE FALSE
    BY <1>1
  <1>3. \A n \in 0..Len(f) : at[n] \in 1..Len(f) /\ t.lev[at[n]] = t.lev[p] - n
    BY <1>1, <1>2, WayDown
  <1> DEFINE g == [n \in 0..Len(f) |-> at[n]]
  <1>4. g \in [0..Len(f) -> 1..Len(f)]
    BY <1>3
  <1>5. /\ IsFiniteSet(0..Len(f)) /\ Cardinality(0..Len(f)) = Len(f) + 1
        /\ IsFiniteSet(1..Len(f)) /\ Cardinality(1..Len(f)) = Len(f)
    BY <1>1, CardOfInterval
  <1>6. PICK x, y \in 0..Len(f) : x # y /\ g[x] = g[y]
    <2> HIDE DEF g
    <2>1. Cardinality(1..Len(f)) < Cardinality(0..Len(f))
      BY <1>1, <1>5
    <2> QED BY <1>4, <1>5, <2>1, FS_PigeonHole
  <1>7. at[x] = at[y] /\ t.lev[at[x]] = t.lev[p] - x /\ t.lev[at[y]] = t.lev[p] - y
    BY <1>3, <1>6
  <1>8. t.lev[p] - x = t.lev[p] - y
    <2> HIDE DEF g
    <2> QED BY <1>7
  <1>9. x \in Nat /\ y \in Nat /\ t.lev[p] \in Int /\ x # y
    BY <1>1, <1>6
  <1> QED BY <1>8, <1>9

\* What the walk of get and of the two recursive operations goes through
LEMMA TheWay ==
    ASSUME NEW f \in Seq(Node), NEW t, NEW m, Forest(f, t, m), NEW p \in t.T, NEW k \in t.rng[p],
           NEW at, at = Descent(f, p, k), NEW d, d = t.lev[p]
    PROVE  /\ d \in Nat /\ d < Len(f) /\ Depth(f, at) = d /\ at[0] = p
           /\ \A n \in 0..d : at[n] \in t.T /\ k \in t.rng[at[n]] /\ t.lev[at[n]] = d - n
           /\ \A n \in 1..d : at[n] = f[at[n - 1]].kids[child_idx(f[at[n - 1]], k)]
           /\ EndOf(f, at) = at[d]
  <1>1. Way(at, f, p, k)
    BY DescentWalks
  <1>2. d \in Nat /\ d < Len(f) /\ Len(f) \in Nat
    BY <1>1, FewLevels
  <1>3. \A n \in 0..Len(f) :
              /\ at[n] \in t.T /\ k \in t.rng[at[n]]
              /\ t.lev[at[n]] = IF n <= d THEN d - n ELSE 0
    BY <1>1, WayDown
  <1>4. \A n \in 0..Len(f) : f[at[n]].type = "internal" <=> n < d
    <2> TAKE n \in 0..Len(f)
    <2>1. t.lev[at[n]] > 0 <=> f[at[n]].type = "internal"
      BY <1>3, TypeOfPage
    <2> QED BY <1>2, <1>3, <2>1
  <1>5. Depth(f, at) = d
    <2>1. {n \in 0..Len(f) : f[at[n]].type = "internal"} = 0..(d - 1)
      BY <1>2, <1>4
    <2>2. Cardinality(0..(d - 1)) = d
      BY <1>2, CardOfInterval
    <2> QED BY <1>2, <2>1, <2>2 DEF Depth
  <1>6. at[0] = p /\ \A n \in 1..Len(f) :
           at[n] = IF f[at[n - 1]].type = "internal"
                   THEN f[at[n - 1]].kids[child_idx(f[at[n - 1]], k)] ELSE at[n - 1]
    BY <1>1 DEF Way
  <1>7. \A n \in 1..d : at[n] = f[at[n - 1]].kids[child_idx(f[at[n - 1]], k)]
    BY <1>2, <1>4, <1>6
  <1>8. \A n \in d..Len(f) : at[n] = at[d]
    <2> DEFINE U == {j \in 0..(Len(f) - d) : at[d + j] = at[d]}
    <2>1. 0 \in U
      BY <1>2
    <2>2. ASSUME NEW j \in 1..(Len(f) - d), j - 1 \in U PROVE j \in U
      <3>1. d + j \in 1..Len(f) /\ (d + j) - 1 = d + (j - 1) /\ (d + j) - 1 \in 0..Len(f)
            /\ ~((d + j) - 1 < d)
        BY SMTT(30), <1>2
      <3>2. at[d + j] = at[(d + j) - 1]
        BY <1>4, <1>6, <3>1
      <3> QED BY <2>2, <3>1, <3>2
    <2>3. 0..(Len(f) - d) \subseteq U
      <3>1. Len(f) - d \in Nat
        BY <1>2
      <3> HIDE DEF U
      <3> QED BY <2>1, <2>2, <3>1, UpTo
    <2> TAKE n \in d..Len(f)
    <2>4. n - d \in 0..(Len(f) - d) /\ d + (n - d) = n
      BY <1>2
    <2> QED BY <2>3, <2>4
  <1>9. EndOf(f, at) = at[d]
    <2> DEFINE e == CHOOSE n \in 0..Len(f) : f[at[n]].type # "internal"
    <2>1. \E n \in 0..Len(f) : f[at[n]].type # "internal"
      BY <1>2, <1>4
    <2>2. e \in 0..Len(f) /\ f[at[e]].type # "internal"
      BY <2>1
    <2>3. EndOf(f, at) = at[e]
      BY DEF EndOf
    <2> HIDE DEF e
    <2>4. e \in d..Len(f)
      BY <1>2, <1>4, <2>2
    <2> QED BY <1>8, <2>3, <2>4
  <1>10. \A n \in 0..d : at[n] \in t.T /\ k \in t.rng[at[n]] /\ t.lev[at[n]] = d - n
    BY <1>2, <1>3
  <1> QED BY <1>2, <1>5, <1>6, <1>7, <1>9, <1>10

\* get returns what the map has.
LEMMA GetIs ==
    ASSUME NEW f \in Seq(Node), NEW t, NEW m, Forest(f, t, m), NEW p \in t.T, NEW k \in t.rng[p]
    PROVE  get(f, p, k) = m[k]
  <1> DEFINE at == Descent(f, p, k)
             d == t.lev[p]
  <1>1. /\ d \in Nat /\ EndOf(f, at) = at[d]
        /\ \A n \in 0..d : at[n] \in t.T /\ k \in t.rng[at[n]] /\ t.lev[at[n]] = d - n
    BY TheWay
  <1> HIDE DEF at, d
  <1>2. at[d] \in t.T /\ k \in t.rng[at[d]] /\ t.lev[at[d]] = 0
    BY <1>1
  <1>3. LeafOK(f[at[d]], t.rng[at[d]], m) /\ t.rng[at[d]] \subseteq Key
    BY <1>2 DEF Forest, NodeOK
  <1>4. lookup(f[at[d]], k) = m[k]
    BY <1>2, <1>3, LookupIs
  <1>5. p # Null
    BY DEF Forest, Null
  <1> QED BY <1>1, <1>4, <1>5 DEF get, at

-----------------------------------------------------------------------------
(* What insert and delete make of the contents of a page                   *)

LEMMA InsertSorted ==
    ASSUME NEW s \in Seq(Key), Sorted(s), NEW i \in 1..(Len(s) + 1), NEW e \in Key,
           \A j \in 1..Len(s) : (j < i => s[j] < e) /\ (j >= i => e < s[j])
    PROVE  /\ InsertAt(s, i, e) \in Seq(Key) /\ Sorted(InsertAt(s, i, e))
           /\ Len(InsertAt(s, i, e)) = Len(s) + 1 /\ InsertAt(s, i, e)[i] = e
           /\ \A j \in 1..(i - 1) : InsertAt(s, i, e)[j] = s[j]
           /\ \A j \in (i + 1)..(Len(s) + 1) : InsertAt(s, i, e)[j] = s[j - 1]
  <1> DEFINE r == InsertAt(s, i, e)
             n == Len(s)
  <1>1. /\ r \in Seq(Key) /\ Len(r) = n + 1 /\ r[i] = e
        /\ \A j \in 1..(i - 1) : r[j] = s[j]
        /\ \A j \in (i + 1)..(n + 1) : r[j] = s[j - 1]
    BY InsertAtIs
  <1>2. n \in Nat /\ i \in 1..(n + 1) /\ \A j \in 1..n : s[j] \in Int
    <2>1. s \in Seq(Int)
      BY SeqOfKeys
    <2> QED BY <2>1
  <1>3. \A a, b \in 1..n : a < b => s[a] < s[b]
    BY DEF Sorted
  <1>4. \A j \in 1..n : (j < i => s[j] < e) /\ (j >= i => e < s[j])
    OBVIOUS
  <1> HIDE DEF r, n
  <1>5. ASSUME NEW a \in 1..(n + 1), NEW b \in 1..(n + 1), a < b PROVE r[a] < r[b]
    <2>1. CASE b < i
      <3>1. a \in 1..(i - 1) /\ b \in 1..(i - 1) /\ a \in 1..n /\ b \in 1..n
        BY <1>2, <1>5, <2>1
      <3> QED BY <1>1, <1>3, <1>5, <3>1
    <2>2. CASE b = i
      <3>1. a \in 1..(i - 1) /\ a \in 1..n /\ a < i
        BY <1>2, <1>5, <2>2
      <3> QED BY <1>1, <1>4, <2>2, <3>1
    <2>3. CASE b > i /\ a < i
      <3>1. /\ a \in 1..(i - 1) /\ a \in 1..n /\ b \in (i + 1)..(n + 1)
            /\ b - 1 \in 1..n /\ a < b - 1
        BY <1>2, <1>5, <2>3
      <3> QED BY <1>1, <1>3, <3>1
    <2>4. CASE b > i /\ a = i
      <3>1. b \in (i + 1)..(n + 1) /\ b - 1 \in 1..n /\ b - 1 >= i
        BY <1>2, <1>5, <2>4
      <3> QED BY <1>1, <1>4, <2>4, <3>1
    <2>5. CASE b > i /\ a > i
      <3>1. /\ a \in (i + 1)..(n + 1) /\ b \in (i + 1)..(n + 1)
            /\ a - 1 \in 1..n /\ b - 1 \in 1..n /\ a - 1 < b - 1
        BY <1>2, <1>5, <2>5
      <3> QED BY <1>1, <1>3, <3>1
    <2> QED BY <1>2, <2>1, <2>2, <2>3, <2>4, <2>5
  <1>6. Sorted(r)
    BY <1>1, <1>5, <1>2 DEF Sorted
  <1> QED BY <1>1, <1>6 DEF r, n

\* A leaf with an entry put in or replaced
LEMMA LeafInsert ==
    ASSUME NEW node, NEW R, R \subseteq Key, NEW m \in Maps, Holds(node.keys, node.vals, R, m),
           NEW k \in R, NEW v \in Value, NEW i, i = place(node, k),
           NEW ks, ks = IF found(node, k) THEN node.keys ELSE InsertAt(node.keys, i, k),
           NEW vs, vs = IF found(node, k) THEN [node.vals EXCEPT ![i] = v]
                        ELSE InsertAt(node.vals, i, v)
    PROVE  Holds(ks, vs, R, [m EXCEPT ![k] = v]) /\ Len(ks) \in {Len(node.keys), Len(node.keys) + 1}
  <1> DEFINE K == node.keys
             W == node.vals
             n == Len(K)
             m1 == [m EXCEPT ![k] = v]
  <1>1. /\ K \in Seq(Key) /\ W \in Seq(Value) /\ Len(W) = n /\ Sorted(K)
        /\ \A j \in 1..n : K[j] \in R /\ m[K[j]] = W[j]
        /\ \A x \in R : m[x] # None => \E j \in 1..n : K[j] = x
    BY DEF Holds
  <1>2. K \in Seq(Int) /\ k \in Int /\ n \in Nat /\ \A j \in 1..n : K[j] \in Int
    BY <1>1, SeqOfKeys, CowTreeAssumption
  <1>3. /\ i \in 1..(n + 1)
        /\ \A j \in 1..n : K[j] < k <=> j < i
        /\ found(node, k) <=> \E j \in 1..n : K[j] = k
        /\ \A j \in 1..n : K[j] = k => j = i
    BY <1>1, <1>2, PlaceIs
  <1>4. m1[k] = v /\ \A x \in Key : x # k => m1[x] = m[x]
    BY DEF Maps
  <1> HIDE DEF K, W, n, m1
  <1>5. CASE found(node, k)
    <2>1. i \in 1..n /\ K[i] = k
      BY <1>3, <1>5
    <2>2. ks = K /\ vs = [W EXCEPT ![i] = v]
      BY <1>5 DEF K, W
    <2>3. vs \in Seq(Value) /\ Len(vs) = n /\ \A j \in 1..n : vs[j] = IF j = i THEN v ELSE W[j]
      <3>1. W \in Seq(Value) /\ i \in 1..Len(W)
        BY <1>1, <2>1
      <3>2. /\ [W EXCEPT ![i] = v] \in Seq(Value) /\ Len([W EXCEPT ![i] = v]) = Len(W)
            /\ \A j \in 1..Len(W) : [W EXCEPT ![i] = v][j] = IF j = i THEN v ELSE W[j]
        BY <3>1, ExceptSeq
      <3> QED BY <1>1, <2>2, <3>2
    <2>4. \A j \in 1..n : m1[ks[j]] = vs[j]
      <3> TAKE j \in 1..n
      <3>1. CASE j = i
        BY <1>4, <2>1, <2>2, <2>3, <3>1
      <3>2. CASE j # i
        BY <1>1, <1>3, <1>4, <2>2, <2>3, <3>2
      <3> QED BY <3>1, <3>2
    <2>5. \A x \in R : m1[x] # None => \E j \in 1..n : ks[j] = x
      <3> TAKE x \in R
      <3>1. CASE x = k
        BY <2>1, <2>2, <3>1
      <3>2. CASE x # k
        BY <1>1, <1>4, <2>2, <3>2
      <3> QED BY <3>1, <3>2
    <2>6. ks \in Seq(Key) /\ Len(ks) = n /\ Sorted(ks) /\ \A j \in 1..n : ks[j] \in R
      BY <1>1, <2>2 DEF n
    <2> QED BY <2>3, <2>4, <2>5, <2>6 DEF Holds, n, m1, K
  <1>6. CASE ~found(node, k)
    <2>1. ks = InsertAt(K, i, k) /\ vs = InsertAt(W, i, v)
      BY <1>6 DEF K, W
    <2>2. \A j \in 1..n : (j < i => K[j] < k) /\ (j >= i => k < K[j])
      BY <1>2, <1>3, <1>6
    <2>3. /\ ks \in Seq(Key) /\ Sorted(ks) /\ Len(ks) = n + 1 /\ ks[i] = k
          /\ \A j \in 1..(i - 1) : ks[j] = K[j]
          /\ \A j \in (i + 1)..(n + 1) : ks[j] = K[j - 1]
      <3>1. k \in Key
        OBVIOUS
      <3> QED BY SMTT(30), <1>1, <1>3, <2>1, <2>2, <3>1, InsertSorted DEF n
    <2>4. /\ vs \in Seq(Value) /\ Len(vs) = n + 1 /\ vs[i] = v
          /\ \A j \in 1..(i - 1) : vs[j] = W[j]
          /\ \A j \in (i + 1)..(n + 1) : vs[j] = W[j - 1]
      <3>1. W \in Seq(Value) /\ i \in 1..(Len(W) + 1)
        BY <1>1, <1>3
      <3>2. /\ InsertAt(W, i, v) \in Seq(Value) /\ Len(InsertAt(W, i, v)) = Len(W) + 1
            /\ InsertAt(W, i, v)[i] = v
            /\ \A j \in 1..(i - 1) : InsertAt(W, i, v)[j] = W[j]
            /\ \A j \in (i + 1)..(Len(W) + 1) : InsertAt(W, i, v)[j] = W[j - 1]
        BY <3>1, InsertAtIs
      <3> QED BY <1>1, <2>1, <3>2
    <2>5. \A j \in 1..(n + 1) : ks[j] \in R /\ m1[ks[j]] = vs[j]
      <3> TAKE j \in 1..(n + 1)
      <3>1. CASE j = i
        BY <1>4, <2>3, <2>4, <3>1
      <3>2. CASE j < i
        <4>1. j \in 1..(i - 1) /\ j \in 1..n
          BY <1>2, <1>3, <3>2
        <4>2. K[j] # k /\ K[j] \in Key /\ K[j] \in R /\ m[K[j]] = W[j]
          BY <1>1, <1>3, <3>2, <4>1
        <4>3. ks[j] = K[j] /\ vs[j] = W[j]
          BY <2>3, <2>4, <4>1
        <4> QED BY <1>4, <4>2, <4>3
      <3>3. CASE j > i
        <4>1. j \in (i + 1)..(n + 1) /\ j - 1 \in 1..n
          BY <1>2, <1>3, <3>3
        <4>2. K[j - 1] # k /\ K[j - 1] \in Key /\ K[j - 1] \in R /\ m[K[j - 1]] = W[j - 1]
          BY <1>1, <1>3, <1>6, <4>1
        <4>3. ks[j] = K[j - 1] /\ vs[j] = W[j - 1]
          BY <2>3, <2>4, <4>1
        <4> QED BY <1>4, <4>2, <4>3
      <3> QED BY <1>2, <1>3, <3>1, <3>2, <3>3
    <2>6. \A x \in R : m1[x] # None => \E j \in 1..(n + 1) : ks[j] = x
      <3> SUFFICES ASSUME NEW x \in R, m1[x] # None PROVE \E j \in 1..(n + 1) : ks[j] = x
        OBVIOUS
      <3>1. CASE x = k
        BY <1>3, <2>3, <3>1
      <3>2. CASE x # k
        <4>1. PICK j \in 1..n : K[j] = x
          BY <1>1, <1>4, <3>2
        <4>2. CASE j < i
          <5>1. j \in 1..(i - 1) /\ j \in 1..(n + 1)
            BY <1>2, <1>3, <4>2
          <5> QED BY <2>3, <4>1, <5>1
        <4>3. CASE j >= i
          <5>1. j + 1 \in (i + 1)..(n + 1) /\ j + 1 \in 1..(n + 1) /\ (j + 1) - 1 = j
            BY <1>2, <1>3, <4>3
          <5>2. ks[j + 1] = K[(j + 1) - 1]
            BY <2>3, <5>1
          <5> QED BY <4>1, <5>1, <5>2
        <4> QED BY <1>2, <1>3, <4>2, <4>3
      <3> QED BY <3>1, <3>2
    <2> QED BY <2>3, <2>4, <2>5, <2>6 DEF Holds, n, m1, K
  <1> QED BY <1>5, <1>6

\* A leaf with an entry taken out
LEMMA LeafRemove ==
    ASSUME NEW node, NEW R, R \subseteq Key, NEW m \in Maps, Holds(node.keys, node.vals, R, m),
           NEW k \in R, m[k] # None, NEW i, i = place(node, k),
           NEW ks, ks = RemoveAt(node.keys, i), NEW vs, vs = RemoveAt(node.vals, i)
    PROVE  Holds(ks, vs, R, [m EXCEPT ![k] = None]) /\ Len(ks) = Len(node.keys) - 1
  <1> DEFINE K == node.keys
             W == node.vals
             n == Len(K)
             m1 == [m EXCEPT ![k] = None]
  <1>1. /\ K \in Seq(Key) /\ W \in Seq(Value) /\ Len(W) = n /\ Sorted(K)
        /\ \A j \in 1..n : K[j] \in R /\ m[K[j]] = W[j]
        /\ \A x \in R : m[x] # None => \E j \in 1..n : K[j] = x
    BY DEF Holds
  <1>2. K \in Seq(Int) /\ k \in Int /\ n \in Nat /\ \A j \in 1..n : K[j] \in Int
    BY <1>1, SeqOfKeys, CowTreeAssumption
  <1>3. /\ i \in 1..(n + 1)
        /\ found(node, k) <=> \E j \in 1..n : K[j] = k
        /\ \A j \in 1..n : K[j] = k => j = i
    BY <1>1, <1>2, PlaceIs
  <1>4. m1[k] = None /\ \A x \in Key : x # k => m1[x] = m[x]
    BY DEF Maps
  <1>5. \A a, b \in 1..n : a < b => K[a] < K[b]
    BY <1>1 DEF Sorted
  <1> HIDE DEF K, W, n, m1
  <1>6. i \in 1..n /\ K[i] = k
    BY <1>1, <1>3
  <1>7. /\ ks \in Seq(Key) /\ Len(ks) = n - 1
        /\ \A j \in 1..(i - 1) : ks[j] = K[j]
        /\ \A j \in i..(n - 1) : ks[j] = K[j + 1]
    <2>1. K \in Seq(Key) /\ i \in 1..Len(K) /\ ks = RemoveAt(K, i) /\ n = Len(K)
      BY <1>1, <1>6 DEF K, n
    <2>2. /\ RemoveAt(K, i) \in Seq(Key) /\ Len(RemoveAt(K, i)) = Len(K) - 1
          /\ \A j \in 1..(i - 1) : RemoveAt(K, i)[j] = K[j]
          /\ \A j \in i..(Len(K) - 1) : RemoveAt(K, i)[j] = K[j + 1]
      BY <2>1, RemoveAtIs
    <2> QED BY <2>1, <2>2
  <1>8. /\ vs \in Seq(Value) /\ Len(vs) = n - 1
        /\ \A j \in 1..(i - 1) : vs[j] = W[j]
        /\ \A j \in i..(n - 1) : vs[j] = W[j + 1]
    <2>1. W \in Seq(Value) /\ i \in 1..Len(W) /\ vs = RemoveAt(W, i) /\ Len(W) = n
      BY <1>1, <1>6 DEF W
    <2>2. /\ RemoveAt(W, i) \in Seq(Value) /\ Len(RemoveAt(W, i)) = Len(W) - 1
          /\ \A j \in 1..(i - 1) : RemoveAt(W, i)[j] = W[j]
          /\ \A j \in i..(Len(W) - 1) : RemoveAt(W, i)[j] = W[j + 1]
      BY <2>1, RemoveAtIs
    <2> QED BY <2>1, <2>2
  <1>9. \A j \in 1..(n - 1) : \E a \in 1..n : /\ a = (IF j < i THEN j ELSE j + 1) /\ a # i
                                              /\ ks[j] = K[a] /\ vs[j] = W[a]
    <2> TAKE j \in 1..(n - 1)
    <2>1. CASE j < i
      <3>1. j \in 1..(i - 1) /\ j \in 1..n
        BY <1>2, <1>6, <2>1
      <3> QED BY <1>7, <1>8, <2>1, <3>1
    <2>2. CASE j >= i
      <3>1. j \in i..(n - 1) /\ j + 1 \in 1..n /\ j + 1 # i
        BY <1>2, <1>6, <2>2
      <3> QED BY <1>2, <1>6, <1>7, <1>8, <2>2, <3>1
    <2> QED BY <1>2, <1>6, <2>1, <2>2
  <1>10. Sorted(ks)
    <2>1. ASSUME NEW a \in 1..(n - 1), NEW b \in 1..(n - 1), a < b PROVE ks[a] < ks[b]
      <3>1. PICK c \in 1..n : c = (IF a < i THEN a ELSE a + 1) /\ ks[a] = K[c]
        BY <1>9
      <3>2. PICK e \in 1..n : e = (IF b < i THEN b ELSE b + 1) /\ ks[b] = K[e]
        BY <1>9
      <3>3. c < e
        BY <1>2, <1>6, <2>1, <3>1, <3>2
      <3> QED BY <1>5, <3>1, <3>2, <3>3
    <2> QED BY <1>7, <2>1 DEF Sorted
  <1>11. \A j \in 1..(n - 1) : ks[j] \in R /\ m1[ks[j]] = vs[j]
    <2> TAKE j \in 1..(n - 1)
    <2>1. PICK a \in 1..n : a # i /\ ks[j] = K[a] /\ vs[j] = W[a]
      BY <1>9
    <2>2. K[a] # k /\ K[a] \in R /\ m[K[a]] = W[a]
      BY <1>1, <1>3, <2>1
    <2> QED BY <1>4, <2>1, <2>2
  <1>12. \A x \in R : m1[x] # None => \E j \in 1..(n - 1) : ks[j] = x
    <2> SUFFICES ASSUME NEW x \in R, m1[x] # None PROVE \E j \in 1..(n - 1) : ks[j] = x
      OBVIOUS
    <2>1. x # k
      BY <1>4
    <2>2. PICK a \in 1..n : K[a] = x
      BY <1>1, <1>4, <2>1
    <2>3. a # i
      BY <1>6, <2>1, <2>2
    <2>4. CASE a < i
      <3>1. a \in 1..(i - 1) /\ a \in 1..(n - 1)
        BY <1>2, <1>6, <2>4
      <3> QED BY <1>7, <2>2, <3>1
    <2>5. CASE a > i
      <3>1. a - 1 \in i..(n - 1) /\ a - 1 \in 1..(n - 1) /\ (a - 1) + 1 = a
        BY <1>2, <1>6, <2>5
      <3>2. ks[a - 1] = K[(a - 1) + 1]
        BY <1>7, <3>1
      <3> QED BY <2>2, <3>1, <3>2
    <2> QED BY <1>2, <1>6, <2>3, <2>4, <2>5
  <1> QED BY <1>7, <1>8, <1>10, <1>11, <1>12 DEF Holds, n, m1, K

\* lo is the first a elements of s, hi those after the first b.
Ends(s, a, b, lo, hi) ==
    /\ a \in 0..Len(s) /\ b \in 0..Len(s)
    /\ lo = SubSeq(s, 1, a) /\ hi = From(s, b + 1)

LEMMA EndsAre ==
    ASSUME NEW V, NEW s \in Seq(V), NEW a, NEW b, NEW lo, NEW hi, Ends(s, a, b, lo, hi)
    PROVE  /\ a \in 0..Len(s) /\ b \in 0..Len(s) /\ Len(s) \in Nat
           /\ lo \in Seq(V) /\ Len(lo) = a /\ \A j \in 1..a : lo[j] = s[j]
           /\ hi \in Seq(V) /\ Len(hi) = Len(s) - b /\ \A j \in 1..(Len(s) - b) : hi[j] = s[b + j]
  <1> DEFINE n == Len(s)
  <1>1. /\ a \in 0..n /\ b \in 0..n /\ lo = SubSeq(s, 1, a) /\ hi = SubSeq(s, b + 1, n)
        /\ n \in Nat /\ \A j \in 1..(n - b) : (b + 1) + j - 1 = b + j /\ b + j \in 1..n
    BY DEF Ends, From
  <1>2. /\ SubSeq(s, 1, a) \in Seq(V) /\ Len(SubSeq(s, 1, a)) = a
        /\ \A j \in 1..a : SubSeq(s, 1, a)[j] = s[j]
    BY <1>1
  <1>3. /\ SubSeq(s, b + 1, n) \in Seq(V) /\ Len(SubSeq(s, b + 1, n)) = n - b
        /\ \A j \in 1..(n - b) : SubSeq(s, b + 1, n)[j] = s[(b + 1) + j - 1]
    BY <1>1
  <1> QED BY <1>1, <1>2, <1>3

LEMMA EndsSorted ==
    ASSUME NEW s \in Seq(Key), Sorted(s), NEW a, NEW b, NEW lo, NEW hi, Ends(s, a, b, lo, hi)
    PROVE  Sorted(lo) /\ Sorted(hi)
  <1>1. \A i, j \in 1..Len(s) : i < j => s[i] < s[j]
    BY DEF Sorted
  <1>2. /\ a \in 0..Len(s) /\ b \in 0..Len(s) /\ Len(s) \in Nat
        /\ Len(lo) = a /\ \A j \in 1..a : lo[j] = s[j]
        /\ Len(hi) = Len(s) - b /\ \A j \in 1..(Len(s) - b) : hi[j] = s[b + j]
    BY EndsAre
  <1>3. Sorted(lo)
    BY <1>1, <1>2 DEF Sorted
  <1>4. ASSUME NEW i \in 1..(Len(s) - b), NEW j \in 1..(Len(s) - b), i < j PROVE hi[i] < hi[j]
    <2>1. b + i \in 1..Len(s) /\ b + j \in 1..Len(s) /\ b + i < b + j
      BY <1>2, <1>4
    <2> QED BY <1>1, <1>2, <2>1
  <1> QED BY <1>2, <1>3, <1>4 DEF Sorted

Below(R, e) == {x \in R : x < e}
AtLeast(R, e) == {x \in R : x >= e}

\* The two leaves ks and vs are split into, and the separator
LeafHalves(ks, vs, mid, e, lk, lv, rk, rv) ==
    /\ mid \in 1..(Len(ks) - 1) /\ e = ks[mid + 1]
    /\ Ends(ks, mid, mid, lk, rk) /\ Ends(vs, mid, mid, lv, rv)

LeavesOf(R, e, mid, n, lk, lv, rk, rv, m) ==
    /\ Holds(lk, lv, Below(R, e), m) /\ Holds(rk, rv, AtLeast(R, e), m)
    /\ e \in R /\ Below(R, e) # {} /\ AtLeast(R, e) # {}
    /\ Len(lk) = mid /\ Len(rk) = n - mid

\* The halves of a leaf that splits
LEMMA LeafSplit ==
    ASSUME NEW ks, NEW vs, NEW R, R \subseteq Key, NEW m, Holds(ks, vs, R, m),
           NEW mid, NEW e,
           NEW lk, NEW lv, NEW rk, NEW rv, LeafHalves(ks, vs, mid, e, lk, lv, rk, rv)
    PROVE  LeavesOf(R, e, mid, Len(ks), lk, lv, rk, rv, m)
  <1> DEFINE n == Len(ks)
  <1>1. /\ ks \in Seq(Key) /\ vs \in Seq(Value) /\ Len(vs) = n /\ Sorted(ks)
        /\ \A j \in 1..n : ks[j] \in R /\ m[ks[j]] = vs[j]
        /\ \A x \in R : m[x] # None => \E j \in 1..n : ks[j] = x
    BY DEF Holds
  <1>2. n \in Nat /\ mid \in 1..(n - 1) /\ mid + 1 \in 1..n /\ R \subseteq Int /\ e = ks[mid + 1]
    BY <1>1, CowTreeAssumption DEF LeafHalves
  <1>3. \A a, b \in 1..n : a < b => ks[a] < ks[b]
    BY <1>1 DEF Sorted
  <1>4. e \in R /\ e \in Int /\ \A j \in 1..n : ks[j] \in Int
    BY <1>1, <1>2
  <1>5. \A j \in 1..n : (ks[j] < e <=> j <= mid)
    <2> TAKE j \in 1..n
    <2>1. CASE j <= mid
      BY <1>2, <1>3, <2>1
    <2>2. CASE j = mid + 1
      BY <1>2, <1>4, <2>2
    <2>3. CASE j > mid + 1
      <3>1. e < ks[j]
        BY <1>2, <1>3, <2>3
      <3> QED BY <1>2, <1>4, <2>3, <3>1
    <2> QED BY <1>2, <2>1, <2>2, <2>3
  <1>6. /\ lk \in Seq(Key) /\ Len(lk) = mid /\ \A j \in 1..mid : lk[j] = ks[j]
        /\ rk \in Seq(Key) /\ Len(rk) = n - mid /\ \A j \in 1..(n - mid) : rk[j] = ks[mid + j]
        /\ Sorted(lk) /\ Sorted(rk)
    <2>1. Ends(ks, mid, mid, lk, rk)
      BY DEF LeafHalves
    <2>2. Sorted(lk) /\ Sorted(rk)
      BY <1>1, <2>1, EndsSorted
    <2> QED BY <1>1, <2>1, <2>2, EndsAre
  <1>7. /\ lv \in Seq(Value) /\ Len(lv) = mid /\ \A j \in 1..mid : lv[j] = vs[j]
        /\ rv \in Seq(Value) /\ Len(rv) = n - mid /\ \A j \in 1..(n - mid) : rv[j] = vs[mid + j]
    <2>1. Ends(vs, mid, mid, lv, rv)
      BY DEF LeafHalves
    <2>2. /\ lv \in Seq(Value) /\ Len(lv) = mid /\ \A j \in 1..mid : lv[j] = vs[j]
          /\ rv \in Seq(Value) /\ Len(rv) = Len(vs) - mid
          /\ \A j \in 1..(Len(vs) - mid) : rv[j] = vs[mid + j]
      BY <1>1, <2>1, EndsAre
    <2> HIDE DEF n
    <2> QED BY <1>1, <2>2
  <1> HIDE DEF n
  <1>8. Holds(lk, lv, Below(R, e), m)
    <2>1. \A j \in 1..mid : lk[j] \in Below(R, e) /\ m[lk[j]] = lv[j]
      <3> TAKE j \in 1..mid
      <3>1. j \in 1..n /\ j <= mid
        BY <1>2
      <3>2. ks[j] < e /\ ks[j] \in R /\ m[ks[j]] = vs[j]
        BY <1>1, <1>5, <3>1
      <3> QED BY <1>6, <1>7, <3>2 DEF Below
    <2>2. \A x \in Below(R, e) : m[x] # None => \E j \in 1..mid : lk[j] = x
      <3> SUFFICES ASSUME NEW x \in Below(R, e), m[x] # None PROVE \E j \in 1..mid : lk[j] = x
        OBVIOUS
      <3>1. PICK j \in 1..n : ks[j] = x
        BY <1>1 DEF Below
      <3>2. j \in 1..mid
        BY <1>2, <1>5, <3>1 DEF Below
      <3> QED BY <1>6, <3>1, <3>2
    <2> QED BY <1>6, <1>7, <2>1, <2>2 DEF Holds
  <1>9. Holds(rk, rv, AtLeast(R, e), m)
    <2>1. \A j \in 1..(n - mid) : rk[j] \in AtLeast(R, e) /\ m[rk[j]] = rv[j]
      <3> TAKE j \in 1..(n - mid)
      <3>1. mid + j \in 1..n /\ ~(mid + j <= mid)
        BY <1>2
      <3>2. ~(ks[mid + j] < e) /\ ks[mid + j] \in R /\ m[ks[mid + j]] = vs[mid + j]
        BY <1>1, <1>5, <3>1
      <3> QED BY <1>4, <1>6, <1>7, <3>1, <3>2 DEF AtLeast
    <2>2. \A x \in AtLeast(R, e) : m[x] # None => \E j \in 1..(n - mid) : rk[j] = x
      <3> SUFFICES ASSUME NEW x \in AtLeast(R, e), m[x] # None
                   PROVE  \E j \in 1..(n - mid) : rk[j] = x
        OBVIOUS
      <3>0. x \in R /\ x >= e
        BY DEF AtLeast
      <3>1. PICK j \in 1..n : ks[j] = x
        BY <1>1, <3>0
      <3>2. ~(ks[j] < e)
        BY <1>4, <3>0, <3>1
      <3>3. j - mid \in 1..(n - mid) /\ mid + (j - mid) = j
        BY <1>2, <1>5, <3>1, <3>2
      <3> QED BY <1>6, <3>1, <3>3
    <2> QED BY <1>6, <1>7, <2>1, <2>2 DEF Holds
  <1>10. Below(R, e) # {} /\ AtLeast(R, e) # {}
    <2>1. 1 \in 1..n /\ 1 <= mid
      BY <1>2
    <2>2. ks[1] \in Below(R, e)
      BY <1>1, <1>5, <2>1 DEF Below
    <2>3. e \in AtLeast(R, e)
      BY <1>4 DEF AtLeast
    <2> QED BY <2>2, <2>3
  <1> QED BY <1>4, <1>6, <1>8, <1>9, <1>10 DEF n, LeavesOf

\* An internal page with one child replaced
LEMMA InnerReplace ==
    ASSUME NEW ks, NEW R, Separators(ks, R), NEW cs \in Seq(Nat), Len(cs) = Len(ks) + 1,
           NEW l, NEW t, NEW i \in 1..Len(cs),
           \A j \in 1..Len(cs) : j # i => Has(t, cs[j], l - 1, Part(ks, R, j)),
           NEW q \in Nat, Has(t, q, l - 1, Part(ks, R, i))
    PROVE  Divides(ks, [cs EXCEPT ![i] = q], R, l, t)
  <1> DEFINE c == [cs EXCEPT ![i] = q]
  <1>1. c \in Seq(Nat) /\ Len(c) = Len(cs) /\ \A j \in 1..Len(cs) : c[j] = IF j = i THEN q ELSE cs[j]
    BY ExceptSeq
  <1> HIDE DEF c
  <1>2. \A j \in 1..Len(c) : Has(t, c[j], l - 1, Part(ks, R, j))
    BY <1>1
  <1>3. Divides(ks, c, R, l, t)
    BY <1>1, <1>2 DEF Divides
  <1> QED BY <1>3 DEF c

\* An internal page with one child split at e
LEMMA InnerInsert ==
    ASSUME NEW ks, NEW R, R \subseteq Key, Separators(ks, R), NEW cs \in Seq(Nat),
           Len(cs) = Len(ks) + 1, NEW l, NEW t, NEW i \in 1..Len(cs),
           \A j \in 1..Len(cs) : j # i => Has(t, cs[j], l - 1, Part(ks, R, j)),
           NEW e \in Part(ks, R, i), NEW a \in Nat, NEW b \in Nat,
           Has(t, a, l - 1, Below(Part(ks, R, i), e)), Below(Part(ks, R, i), e) # {},
           Has(t, b, l - 1, AtLeast(Part(ks, R, i), e))
    PROVE  /\ Divides(InsertAt(ks, i, e), InsertAt([cs EXCEPT ![i] = a], i + 1, b), R, l, t)
           /\ Len(InsertAt(ks, i, e)) = Len(ks) + 1
  <1> DEFINE n == Len(ks)
             K == InsertAt(ks, i, e)
             c1 == [cs EXCEPT ![i] = a]
             C == InsertAt(c1, i + 1, b)
  <1>1. /\ ks \in Seq(Key) /\ Sorted(ks) /\ n \in Nat /\ Len(cs) = n + 1
        /\ \A j \in 1..n : ks[j] \in R
    BY DEF Separators
  <1>2. e \in R /\ e \in Key /\ R \subseteq Int /\ i \in 1..(n + 1) /\ \A j \in 1..n : ks[j] \in Int
    BY <1>1, CowTreeAssumption DEF Part
  <1>3. \A j \in 1..n : (j < i => ks[j] < e) /\ (j >= i => e < ks[j])
    <2>1. PICK x \in Part(ks, R, i) : x < e
      BY DEF Below
    <2>2. x \in Int /\ \A j \in 1..n : ks[j] <= x <=> j < i
      BY <1>2, <2>1 DEF Part
    <2>3. \A j \in 1..n : ks[j] <= e <=> j < i
      BY DEF Part
    <2> QED BY SMTT(30), <1>1, <1>2, <2>1, <2>2, <2>3
  <1>4. /\ K \in Seq(Key) /\ Sorted(K) /\ Len(K) = n + 1 /\ K[i] = e
        /\ \A j \in 1..(i - 1) : K[j] = ks[j]
        /\ \A j \in (i + 1)..(n + 1) : K[j] = ks[j - 1]
    <2>1. /\ ks \in Seq(Key) /\ Sorted(ks) /\ i \in 1..(Len(ks) + 1) /\ e \in Key
          /\ \A j \in 1..Len(ks) : (j < i => ks[j] < e) /\ (j >= i => e < ks[j])
      BY <1>1, <1>2, <1>3
    <2> QED BY <2>1, InsertSorted
  <1>5. /\ C \in Seq(Nat) /\ Len(C) = n + 2 /\ C[i] = a /\ C[i + 1] = b
        /\ \A j \in 1..(i - 1) : C[j] = cs[j]
        /\ \A j \in (i + 2)..(n + 2) : C[j] = cs[j - 1]
    <2>1. c1 \in Seq(Nat) /\ Len(c1) = Len(cs) /\ \A j \in 1..Len(cs) : c1[j] = IF j = i THEN a ELSE cs[j]
      BY ExceptSeq
    <2> HIDE DEF c1
    <2>2. c1 \in Seq(Nat) /\ i + 1 \in 1..(Len(c1) + 1) /\ b \in Nat
      BY <1>1, <2>1
    <2>3. /\ C \in Seq(Nat) /\ Len(C) = Len(c1) + 1 /\ C[i + 1] = b
          /\ \A j \in 1..((i + 1) - 1) : C[j] = c1[j]
          /\ \A j \in ((i + 1) + 1)..(Len(c1) + 1) : C[j] = c1[j - 1]
      <3> DEFINE V == Nat
      <3>1. i + 1 \in 1..(Len(c1) + 1) /\ c1 \in Seq(V) /\ b \in V
        BY <2>2
      <3>2. \A s \in Seq(V) : \A g \in 1..(Len(s) + 1) : \A x \in V :
               /\ InsertAt(s, g, x) \in Seq(V) /\ Len(InsertAt(s, g, x)) = Len(s) + 1
               /\ InsertAt(s, g, x)[g] = x
               /\ \A j \in 1..(g - 1) : InsertAt(s, g, x)[j] = s[j]
               /\ \A j \in (g + 1)..(Len(s) + 1) : InsertAt(s, g, x)[j] = s[j - 1]
        <4> HIDE DEF V
        <4> TAKE s \in Seq(V)
        <4> TAKE g \in 1..(Len(s) + 1)
        <4> TAKE x \in V
        <4> QED BY InsertAtIs
      <3> HIDE DEF V
      <3>3. /\ C \in Seq(V) /\ Len(C) = Len(c1) + 1 /\ C[i + 1] = b
            /\ \A j \in 1..((i + 1) - 1) : C[j] = c1[j]
            /\ \A j \in ((i + 1) + 1)..(Len(c1) + 1) : C[j] = c1[j - 1]
        <4> DEFINE g == i + 1
        <4>1. g \in 1..(Len(c1) + 1) /\ c1 \in Seq(V) /\ b \in V
          BY <3>1
        <4> HIDE DEF g
        <4>2. /\ InsertAt(c1, g, b) \in Seq(V) /\ Len(InsertAt(c1, g, b)) = Len(c1) + 1
              /\ InsertAt(c1, g, b)[g] = b
              /\ \A j \in 1..(g - 1) : InsertAt(c1, g, b)[j] = c1[j]
              /\ \A j \in (g + 1)..(Len(c1) + 1) : InsertAt(c1, g, b)[j] = c1[j - 1]
          BY <3>2, <4>1
        <4> QED BY <4>2 DEF g
      <3> QED BY <3>3 DEF V
    <2> HIDE DEF C
    <2>4. \A j \in 1..(i - 1) : C[j] = cs[j]
      <3> TAKE j \in 1..(i - 1)
      <3>1. j \in 1..((i + 1) - 1) /\ j \in 1..Len(cs) /\ j # i
        BY <1>1, <1>2
      <3> QED BY <2>1, <2>3, <3>1
    <2>5. \A j \in (i + 2)..(n + 2) : C[j] = cs[j - 1]
      <3> TAKE j \in (i + 2)..(n + 2)
      <3>1. j \in ((i + 1) + 1)..(Len(c1) + 1) /\ j - 1 \in 1..Len(cs) /\ j - 1 # i
        BY <1>1, <1>2, <2>1
      <3> QED BY <2>1, <2>3, <3>1
    <2>6. C[i] = a
      <3>1. i \in 1..((i + 1) - 1)
        BY <1>2
      <3> QED BY <2>1, <2>3, <3>1
    <2> QED BY <1>1, <2>1, <2>3, <2>4, <2>5, <2>6
  <1> HIDE DEF n, K, c1, C
  <1>6. \A j \in 1..(n + 1) : K[j] \in R
    <2> TAKE j \in 1..(n + 1)
    <2>1. CASE j < i
      <3>1. j \in 1..(i - 1) /\ j \in 1..n
        BY <1>1, <1>2, <2>1
      <3> QED BY <1>1, <1>4, <3>1
    <2>2. CASE j = i
      BY <1>2, <1>4, <2>2
    <2>3. CASE j > i
      <3>1. j \in (i + 1)..(n + 1) /\ j - 1 \in 1..n
        BY <1>1, <1>2, <2>3
      <3> QED BY <1>1, <1>4, <3>1
    <2> QED BY <1>1, <1>2, <2>1, <2>2, <2>3
  <1> DEFINE G(x, g) == \A h \in 1..n : ks[h] <= x <=> h < g
             H(x, g) == \A h \in 1..(n + 1) : K[h] <= x <=> h < g
  <1>7. \A g : Part(ks, R, g) = {x \in R : G(x, g)} /\ Part(K, R, g) = {x \in R : H(x, g)}
    BY <1>4 DEF Part, n
  \* H in terms of the keys before
  <1>8. ASSUME NEW x \in R, NEW g \in 1..(n + 2)
        PROVE  H(x, g) <=> /\ \A h \in 1..n : h < i => (ks[h] <= x <=> h < g)
                           /\ e <= x <=> i < g
                           /\ \A h \in 1..n : h >= i => (ks[h] <= x <=> h + 1 < g)
    <2>1. ASSUME H(x, g), NEW h \in 1..n, h < i PROVE ks[h] <= x <=> h < g
      <3>1. h \in 1..(i - 1) /\ h \in 1..(n + 1)
        BY <1>1, <1>2, <2>1
      <3> QED BY <1>4, <2>1, <3>1
    <2>2. ASSUME H(x, g) PROVE e <= x <=> i < g
      BY <1>2, <1>4, <2>2
    <2>3. ASSUME H(x, g), NEW h \in 1..n, h >= i PROVE ks[h] <= x <=> h + 1 < g
      <3>1. h + 1 \in (i + 1)..(n + 1) /\ h + 1 \in 1..(n + 1) /\ (h + 1) - 1 = h
        BY <1>1, <1>2, <2>3
      <3>2. K[h + 1] = ks[h]
        BY <1>4, <3>1
      <3> QED BY <2>3, <3>1, <3>2
    <2>4. ASSUME \A h \in 1..n : h < i => (ks[h] <= x <=> h < g),
                 e <= x <=> i < g,
                 \A h \in 1..n : h >= i => (ks[h] <= x <=> h + 1 < g),
                 NEW h \in 1..(n + 1)
          PROVE  K[h] <= x <=> h < g
      <3>1. CASE h < i
        <4>1. h \in 1..(i - 1) /\ h \in 1..n
          BY <1>1, <1>2, <3>1
        <4> QED BY <1>4, <2>4, <3>1, <4>1
      <3>2. CASE h = i
        BY <1>4, <2>4, <3>2
      <3>3. CASE h > i
        <4>1. h \in (i + 1)..(n + 1) /\ h - 1 \in 1..n /\ h - 1 >= i /\ (h - 1) + 1 = h
          BY <1>1, <1>2, <3>3
        <4>2. K[h] = ks[h - 1]
          BY <1>4, <4>1
        <4>3. ks[h - 1] <= x <=> (h - 1) + 1 < g
          BY <2>4, <4>1
        <4> QED BY <4>1, <4>2, <4>3
      <3> QED BY <1>1, <1>2, <3>1, <3>2, <3>3
    <2> QED BY <2>1, <2>2, <2>3, <2>4
  <1> HIDE DEF H
  <1>9. ASSUME NEW g \in 1..(n + 1), g < i PROVE Part(K, R, g) = Part(ks, R, g)
    <2>1. ASSUME NEW x \in R PROVE H(x, g) <=> G(x, g)
      <3>1. /\ g \in 1..(n + 2) /\ g \in 1..n /\ ~(i < g) /\ x \in Int
            /\ \A h \in 1..n : h >= i => ~(h + 1 < g) /\ ~(h < g)
        BY <1>1, <1>2, <1>9
      <3>2. ASSUME G(x, g) PROVE ~(e <= x)
        <4>1. ~(ks[g] <= x) /\ ks[g] < e
          BY <1>3, <1>9, <3>1, <3>2
        <4> QED BY <1>2, <3>1, <4>1
      <3> QED BY <1>8, <3>1, <3>2
    <2> QED BY <1>7, <2>1
  <1>10. Part(K, R, i) = Below(Part(ks, R, i), e)
    <2>1. ASSUME NEW x \in R PROVE H(x, i) <=> G(x, i) /\ x < e
      <3>1. /\ i \in 1..(n + 2) /\ ~(i < i) /\ x \in Int
            /\ \A h \in 1..n : h >= i => ~(h + 1 < i) /\ ~(h < i)
        BY <1>1, <1>2
      <3>2. ~(e <= x) <=> x < e
        BY <1>2, <3>1
      <3> QED BY SMTT(30), <1>8, <3>1, <3>2
    <2> QED BY <1>7, <2>1 DEF Below
  <1>11. Part(K, R, i + 1) = AtLeast(Part(ks, R, i), e)
    <2>1. ASSUME NEW x \in R PROVE H(x, i + 1) <=> G(x, i) /\ x >= e
      <3>1. /\ i + 1 \in 1..(n + 2) /\ i < i + 1 /\ x \in Int
            /\ \A h \in 1..n : h >= i => ~(h + 1 < i + 1) /\ ~(h < i)
            /\ \A h \in 1..n : h < i => h < i + 1
        BY <1>1, <1>2
      <3>2. e <= x <=> x >= e
        BY <1>2, <3>1
      <3> QED BY SMTT(30), <1>8, <3>1, <3>2
    <2> QED BY SMTT(30), <1>7, <2>1 DEF AtLeast
  <1>12. ASSUME NEW g \in 1..(n + 2), g > i + 1 PROVE Part(K, R, g) = Part(ks, R, g - 1)
    <2>1. ASSUME NEW x \in R PROVE H(x, g) <=> G(x, g - 1)
      <3>1. /\ i < g /\ i \in 1..n /\ i < g - 1 /\ x \in Int
            /\ \A h \in 1..n : h < i => h < g /\ h < g - 1
            /\ \A h \in 1..n : h + 1 < g <=> h < g - 1
        BY <1>1, <1>2, <1>12
      <3>2. ASSUME G(x, g - 1) PROVE e <= x
        <4>1. ks[i] <= x /\ e < ks[i]
          BY <1>2, <1>3, <3>1, <3>2
        <4> QED BY <1>2, <3>1, <4>1
      <3> QED BY <1>8, <3>1, <3>2
    <2> QED BY <1>7, <2>1
  <1>13. \A g \in 1..(n + 2) : Has(t, C[g], l - 1, Part(K, R, g))
    <2> TAKE g \in 1..(n + 2)
    <2>1. CASE g < i
      <3>1. g \in 1..(i - 1) /\ g \in 1..(n + 1) /\ g # i
        BY <1>1, <1>2, <2>1
      <3> QED BY <1>1, <1>5, <1>9, <2>1, <3>1
    <2>2. CASE g = i
      BY <1>5, <1>10, <2>2
    <2>3. CASE g = i + 1
      BY <1>5, <1>11, <2>3
    <2>4. CASE g > i + 1
      <3>1. g \in (i + 2)..(n + 2) /\ g - 1 \in 1..(n + 1) /\ g - 1 # i
        BY <1>1, <1>2, <2>4
      <3> QED BY <1>1, <1>5, <1>12, <2>4, <3>1
    <2> QED BY <1>2, <2>1, <2>2, <2>3, <2>4
  <1>14. Divides(K, C, R, l, t)
    BY SMTT(30), <1>1, <1>4, <1>5, <1>6, <1>13 DEF Divides, Separators
  <1> QED BY <1>4, <1>14 DEF K, C, c1, n

\* The two pages ks and cs are split into; the separator moves up.
InnerHalves(ks, cs, mid, e, lk, lc, rk, rc) ==
    /\ mid \in 1..(Len(ks) - 1) /\ e = ks[mid + 1]
    /\ Ends(ks, mid, mid + 1, lk, rk) /\ Ends(cs, mid + 1, mid + 1, lc, rc)

InnersOf(R, e, mid, n, lk, lc, rk, rc, l, t) ==
    /\ Divides(lk, lc, Below(R, e), l, t) /\ Divides(rk, rc, AtLeast(R, e), l, t)
    /\ e \in R /\ Below(R, e) # {} /\ AtLeast(R, e) # {}
    /\ Len(lk) = mid /\ Len(rk) = n - mid - 1

LEMMA InnerSplit ==
    ASSUME NEW ks, NEW cs, NEW R, R \subseteq Key, NEW l, NEW t, Divides(ks, cs, R, l, t),
           NEW mid, NEW e,
           NEW lk, NEW lc, NEW rk, NEW rc, InnerHalves(ks, cs, mid, e, lk, lc, rk, rc)
    PROVE  InnersOf(R, e, mid, Len(ks), lk, lc, rk, rc, l, t)
  <1> DEFINE n == Len(ks)
  <1>1. /\ ks \in Seq(Key) /\ Sorted(ks) /\ \A j \in 1..n : ks[j] \in R
        /\ cs \in Seq(Nat) /\ Len(cs) = n + 1
        /\ \A j \in 1..Len(cs) : Has(t, cs[j], l - 1, Part(ks, R, j))
    BY DEF Divides, Separators
  <1>2. n \in Nat /\ mid \in 1..(n - 1) /\ mid + 1 \in 1..n /\ R \subseteq Int /\ e = ks[mid + 1]
    BY <1>1, CowTreeAssumption DEF InnerHalves
  <1>3. \A a, b \in 1..n : a < b => ks[a] < ks[b]
    BY <1>1 DEF Sorted
  <1>4. e \in R /\ e \in Int /\ \A j \in 1..n : ks[j] \in Int
    BY <1>1, <1>2
  <1>5. \A j \in 1..n : (ks[j] < e <=> j <= mid) /\ (ks[j] > e <=> j > mid + 1)
    <2> TAKE j \in 1..n
    <2>1. CASE j <= mid
      <3>1. ks[j] < e
        BY <1>2, <1>3, <2>1
      <3> QED BY <1>2, <1>4, <2>1, <3>1
    <2>2. CASE j = mid + 1
      BY <1>2, <1>4, <2>2
    <2>3. CASE j > mid + 1
      <3>1. e < ks[j]
        BY <1>2, <1>3, <2>3
      <3> QED BY <1>2, <1>4, <2>3, <3>1
    <2> QED BY <1>2, <2>1, <2>2, <2>3
  <1>6. Ends(ks, mid, mid + 1, lk, rk) /\ Ends(cs, mid + 1, mid + 1, lc, rc)
    BY DEF InnerHalves
  <1>7. /\ lk \in Seq(Key) /\ Len(lk) = mid /\ \A j \in 1..mid : lk[j] = ks[j]
        /\ rk \in Seq(Key) /\ Len(rk) = n - (mid + 1)
        /\ \A j \in 1..(n - (mid + 1)) : rk[j] = ks[(mid + 1) + j]
        /\ Sorted(lk) /\ Sorted(rk)
    <2>1. Sorted(lk) /\ Sorted(rk)
      BY <1>1, <1>6, EndsSorted
    <2> QED BY SMTT(30), <1>1, <1>6, <2>1, EndsAre
  <1>8. /\ lc \in Seq(Nat) /\ Len(lc) = mid + 1 /\ \A j \in 1..(mid + 1) : lc[j] = cs[j]
        /\ rc \in Seq(Nat) /\ Len(rc) = n - mid
        /\ \A j \in 1..(n - mid) : rc[j] = cs[(mid + 1) + j]
    <2>1. cs \in Seq(Nat) /\ Len(cs) - (mid + 1) = n - mid
      BY <1>1, <1>2
    <2>2. /\ lc \in Seq(Nat) /\ Len(lc) = mid + 1 /\ \A j \in 1..(mid + 1) : lc[j] = cs[j]
          /\ rc \in Seq(Nat) /\ Len(rc) = Len(cs) - (mid + 1)
          /\ \A j \in 1..(Len(cs) - (mid + 1)) : rc[j] = cs[(mid + 1) + j]
      BY <1>6, <2>1, EndsAre
    <2> HIDE DEF n
    <2> QED BY <2>1, <2>2
  <1> HIDE DEF n
  <1>9. Divides(lk, lc, Below(R, e), l, t)
    <2>1. \A j \in 1..mid : lk[j] \in Below(R, e)
      <3> TAKE j \in 1..mid
      <3>1. j \in 1..n /\ j <= mid
        BY <1>2
      <3> QED BY <1>1, <1>5, <1>7, <3>1 DEF Below
    <2>2. ASSUME NEW g \in 1..(mid + 1) PROVE Part(lk, Below(R, e), g) = Part(ks, R, g)
      <3>1. ASSUME NEW x \in R
            PROVE  x \in Part(lk, Below(R, e), g) <=> x \in Part(ks, R, g)
        <4>0. x \in Int
          BY <1>2
        <4>1. ASSUME x \in Part(lk, Below(R, e), g) PROVE x \in Part(ks, R, g)
          <5>1. x < e /\ \A h \in 1..mid : ks[h] <= x <=> h < g
            BY <1>7, <4>1 DEF Part, Below
          <5>2. ASSUME NEW h \in 1..n PROVE ks[h] <= x <=> h < g
            <6>1. CASE h <= mid
              <7>1. h \in 1..mid
                BY <1>2, <6>1
              <7> QED BY <5>1, <7>1
            <6>2. CASE h > mid
              <7>1. ~(ks[h] < e) /\ ~(h < g)
                BY <1>2, <1>5, <6>2
              <7> QED BY <1>4, <4>0, <5>1, <7>1
            <6> QED BY <1>2, <6>1, <6>2
          <5> QED BY <5>2 DEF Part, n
        <4>2. ASSUME x \in Part(ks, R, g) PROVE x \in Part(lk, Below(R, e), g)
          <5>1. \A h \in 1..n : ks[h] <= x <=> h < g
            BY <4>2 DEF Part, n
          <5>2. ~(e <= x)
            <6>1. mid + 1 \in 1..n /\ ~(mid + 1 < g)
              BY <1>2
            <6> QED BY <1>2, <5>1, <6>1
          <5>3. x < e
            BY <1>4, <4>0, <5>2
          <5>4. \A h \in 1..mid : lk[h] <= x <=> h < g
            <6> TAKE h \in 1..mid
            <6>1. h \in 1..n
              BY <1>2
            <6> QED BY <1>7, <5>1, <6>1
          <5> QED BY <1>7, <5>3, <5>4 DEF Part, Below
        <4> QED BY <4>1, <4>2
      <3>2. Part(lk, Below(R, e), g) \subseteq R /\ Part(ks, R, g) \subseteq R
        BY DEF Part, Below
      <3> QED BY <3>1, <3>2
    <2>3. \A g \in 1..(mid + 1) : Has(t, lc[g], l - 1, Part(lk, Below(R, e), g))
      <3> TAKE g \in 1..(mid + 1)
      <3>1. g \in 1..Len(cs)
        BY <1>1, <1>2
      <3> QED BY <1>1, <1>8, <2>2, <3>1
    <2> QED BY <1>7, <1>8, <2>1, <2>3 DEF Divides, Separators
  <1>10. Divides(rk, rc, AtLeast(R, e), l, t)
    <2>1. \A j \in 1..(n - (mid + 1)) : rk[j] \in AtLeast(R, e)
      <3> TAKE j \in 1..(n - (mid + 1))
      <3>1. (mid + 1) + j \in 1..n /\ (mid + 1) + j > mid + 1
        BY <1>2
      <3>2. ks[(mid + 1) + j] > e /\ ks[(mid + 1) + j] \in R /\ ks[(mid + 1) + j] \in Int
        BY <1>1, <1>4, <1>5, <3>1
      <3> QED BY <1>4, <1>7, <3>2 DEF AtLeast
    <2>2. ASSUME NEW g \in 1..(n - mid)
          PROVE  Part(rk, AtLeast(R, e), g) = Part(ks, R, (mid + 1) + g)
      <3>1. ASSUME NEW x \in R
            PROVE  x \in Part(rk, AtLeast(R, e), g) <=> x \in Part(ks, R, (mid + 1) + g)
        <4>0. x \in Int
          BY <1>2
        <4>1. ASSUME x \in Part(rk, AtLeast(R, e), g) PROVE x \in Part(ks, R, (mid + 1) + g)
          <5>1. x >= e /\ \A h \in 1..(n - (mid + 1)) : ks[(mid + 1) + h] <= x <=> h < g
            BY <1>7, <4>1 DEF Part, AtLeast
          <5>2. ASSUME NEW h \in 1..n PROVE ks[h] <= x <=> h < (mid + 1) + g
            <6>1. CASE h > mid + 1
              <7>1. h - (mid + 1) \in 1..(n - (mid + 1)) /\ (mid + 1) + (h - (mid + 1)) = h
                    /\ (h - (mid + 1) < g <=> h < (mid + 1) + g)
                BY <1>2, <6>1
              <7>2. ks[(mid + 1) + (h - (mid + 1))] <= x <=> h - (mid + 1) < g
                BY <5>1, <7>1
              <7> QED BY <7>1, <7>2
            <6>2. CASE h <= mid + 1
              <7>1. ~(ks[h] > e) /\ h < (mid + 1) + g
                BY <1>2, <1>5, <6>2
              <7> QED BY <1>4, <4>0, <5>1, <7>1
            <6> QED BY <1>2, <6>1, <6>2
          <5> QED BY <5>2 DEF Part, n
        <4>2. ASSUME x \in Part(ks, R, (mid + 1) + g) PROVE x \in Part(rk, AtLeast(R, e), g)
          <5>1. \A h \in 1..n : ks[h] <= x <=> h < (mid + 1) + g
            BY <4>2 DEF Part, n
          <5>2. e <= x
            <6>1. mid + 1 \in 1..n /\ mid + 1 < (mid + 1) + g
              BY <1>2
            <6> QED BY <1>2, <5>1, <6>1
          <5>3. x >= e
            BY <1>4, <4>0, <5>2
          <5>4. \A h \in 1..(n - (mid + 1)) : rk[h] <= x <=> h < g
            <6> TAKE h \in 1..(n - (mid + 1))
            <6>1. (mid + 1) + h \in 1..n /\ ((mid + 1) + h < (mid + 1) + g <=> h < g)
              BY <1>2
            <6> QED BY <1>7, <5>1, <6>1
          <5> QED BY <1>7, <5>3, <5>4 DEF Part, AtLeast
        <4> QED BY <4>1, <4>2
      <3>2. Part(rk, AtLeast(R, e), g) \subseteq R /\ Part(ks, R, (mid + 1) + g) \subseteq R
        BY DEF Part, AtLeast
      <3> QED BY <3>1, <3>2
    <2>3. \A g \in 1..(n - mid) : Has(t, rc[g], l - 1, Part(rk, AtLeast(R, e), g))
      <3> TAKE g \in 1..(n - mid)
      <3>1. (mid + 1) + g \in 1..Len(cs)
        BY <1>1, <1>2
      <3> QED BY <1>1, <1>8, <2>2, <3>1
    <2>4. n - mid = (n - (mid + 1)) + 1
      BY <1>2
    <2> QED BY <1>7, <1>8, <2>1, <2>3, <2>4 DEF Divides, Separators
  <1>11. Below(R, e) # {} /\ AtLeast(R, e) # {}
    <2>1. 1 \in 1..n /\ 1 <= mid
      BY <1>2
    <2>2. ks[1] \in Below(R, e)
      BY <1>1, <1>5, <2>1 DEF Below
    <2>3. e \in AtLeast(R, e)
      BY <1>4 DEF AtLeast
    <2> QED BY <2>2, <2>3
  <1>12. n - (mid + 1) = n - mid - 1
    BY <1>2
  <1> QED BY <1>4, <1>7, <1>9, <1>10, <1>11, <1>12 DEF n, InnersOf

-----------------------------------------------------------------------------
(* Plans                                                                   *)

\* The j-th page an operation gets, with the freelist c and n pages in the file
Supply(c, n, j) == IF j <= Len(c) THEN c[j] ELSE n + j - Len(c)

Distinct(s) == \A i, j \in 1..Len(s) : s[i] = s[j] => i = j

FreePages(c, n) == c \in Seq(1..n) /\ Distinct(c)

LEMMA SupplyIs ==
    ASSUME NEW n \in Nat, NEW c, FreePages(c, n), NEW i \in Nat, i > 0, NEW j \in Nat, j > 0
    PROVE  /\ Supply(c, n, i) \in Nat /\ Supply(c, n, i) > 0
           /\ Supply(c, n, i) = Supply(c, n, j) => i = j
           /\ i <= Len(c) => Supply(c, n, i) \in 1..n /\ Supply(c, n, i) = c[i]
           /\ i > Len(c) => Supply(c, n, i) = n + i - Len(c) /\ Supply(c, n, i) > n
  <1>1. /\ Len(c) \in Nat /\ \A a \in 1..Len(c) : c[a] \in 1..n
        /\ \A a, b \in 1..Len(c) : c[a] = c[b] => a = b
    BY DEF FreePages, Distinct
  <1>2. \A a \in Nat : a > 0 /\ a <= Len(c) => a \in 1..Len(c)
    BY <1>1
  <1>3. \A a \in Nat : a > 0 => /\ a <= Len(c) => Supply(c, n, a) = c[a] /\ Supply(c, n, a) \in 1..n
                                /\ ~(a <= Len(c)) => /\ Supply(c, n, a) = n + a - Len(c)
                                                     /\ Supply(c, n, a) \in Nat
                                                     /\ Supply(c, n, a) > n
    BY <1>1, <1>2 DEF Supply
  <1>4. Supply(c, n, i) = Supply(c, n, j) => i = j
    <2>1. CASE i <= Len(c) /\ j <= Len(c)
      BY <1>1, <1>2, <1>3, <2>1
    <2>2. CASE i <= Len(c) /\ ~(j <= Len(c))
      BY <1>1, <1>3, <2>2
    <2>3. CASE ~(i <= Len(c)) /\ j <= Len(c)
      BY <1>1, <1>3, <2>3
    <2>4. CASE ~(i <= Len(c)) /\ ~(j <= Len(c))
      BY <1>1, <1>3, <2>4
    <2> QED BY <2>1, <2>2, <2>3, <2>4
  <1> QED BY <1>1, <1>3, <1>4

Written1 == [page : Nat, node : Node]
Plan == [avail : Seq(Nat), count : Nat, writes : Seq(Written1), frees : Seq(Nat)]

New(ws) == {ws[j].page : j \in 1..Len(ws)}

\* G is what the writes ws make of the file f with the freelist c.
Pending(ws, f, c, G) ==
    /\ ws \in Seq(Written1) /\ G \in Seq(Node)
    /\ Len(G) = IF Len(ws) <= Len(c) THEN Len(f) ELSE Len(f) + Len(ws) - Len(c)
    /\ \A j \in 1..Len(ws) : ws[j].page = Supply(c, Len(f), j) /\ G[ws[j].page] = ws[j].node
    /\ \A p \in 1..Len(f) : (\A j \in 1..Len(ws) : ws[j].page # p) => G[p] = f[p]

\* The plan s knows how long G is and what is left of c.
Fits(s, f, c, G) ==
    /\ s \in Plan /\ Pending(s.writes, f, c, G) /\ s.count = Len(G)
    /\ Len(s.avail) = IF Len(s.writes) <= Len(c) THEN Len(c) - Len(s.writes) ELSE 0
    /\ \A j \in 1..Len(s.avail) : s.avail[j] = c[Len(s.writes) + j]

LEMMA WriteIs ==
    ASSUME NEW s \in Plan, NEW node \in Node, NEW q \in Nat, q = allocate_page(s),
           NEW s2, s2 = Write(s, node)
    PROVE  /\ s2 \in Plan /\ s2.frees = s.frees
           /\ s2.writes = Append(s.writes, [page |-> q, node |-> node])
           /\ s.avail # <<>> => s2.avail = Tail(s.avail) /\ s2.count = s.count
           /\ s.avail = <<>> => s2.avail = <<>> /\ s2.count = s.count + 1
           /\ Written(s2) = q
  <1>1. s.avail # <<>> => Tail(s.avail) \in Seq(Nat)
    BY DEF Plan
  <1>2. [page |-> q, node |-> node] \in Written1
    BY DEF Written1
  <1>3. Append(s.writes, [page |-> q, node |-> node]) \in Seq(Written1)
    <2>1. s.writes \in Seq(Written1)
      BY DEF Plan
    <2> QED BY <1>2, <2>1
  <1>4. /\ s2.frees = s.frees
        /\ s2.writes = Append(s.writes, [page |-> q, node |-> node])
        /\ s.avail # <<>> => s2.avail = Tail(s.avail) /\ s2.count = s.count
        /\ s.avail = <<>> => s2.avail = <<>> /\ s2.count = s.count + 1
    BY DEF Plan, Write
  <1>5. s2 \in Plan
    <2>1. s2 = [avail |-> s2.avail, count |-> s2.count, writes |-> s2.writes, frees |-> s2.frees]
      BY DEF Plan, Write
    <2>2. s2.avail \in Seq(Nat) /\ s2.count \in Nat /\ s2.frees \in Seq(Nat)
      <3>1. s.avail \in Seq(Nat) /\ s.count \in Nat /\ s.frees \in Seq(Nat)
        BY DEF Plan
      <3>2. CASE s.avail = <<>>
        <4>1. s2.avail = s.avail /\ s2.count = s.count + 1 /\ s2.frees = s.frees
          BY <1>4, <3>2
        <4> QED BY <3>1, <4>1
      <3>3. CASE s.avail # <<>>
        BY <1>1, <1>4, <3>1, <3>3
      <3> QED BY <3>2, <3>3
    <2>3. s2.writes \in Seq(Written1)
      BY <1>3, <1>4
    <2> HIDE DEF Written1
    <2> QED BY <2>1, <2>2, <2>3 DEF Plan
  <1>6. Written(s2) = q
    <2>1. s.writes \in Seq(Written1)
      BY DEF Plan
    <2>2. /\ Len(Append(s.writes, [page |-> q, node |-> node])) = Len(s.writes) + 1
          /\ Append(s.writes, [page |-> q, node |-> node])[Len(s.writes) + 1] = [page |-> q, node |-> node]
      BY <1>2, <2>1
    <2> QED BY <1>4, <2>2 DEF Written
  <1> QED BY <1>4, <1>5, <1>6

\* s2 is s and one more write, of the page q, which makes G2 of G.
Grown(s, s2, f, c, G, G2, q, node) ==
    /\ Fits(s2, f, c, G2) /\ Written(s2) = q /\ s2.frees = s.frees
    /\ q = Supply(c, Len(f), Len(s.writes) + 1)
    /\ q \notin New(s.writes) /\ New(s2.writes) = New(s.writes) \cup {q}
    /\ q \in 1..Len(G2) /\ G2[q] = node /\ Len(G) <= Len(G2)
    /\ \A p \in 1..Len(G) : p # q => G2[p] = G[p]

LEMMA WriteFits ==
    ASSUME NEW f \in Seq(Node), NEW c, FreePages(c, Len(f)), NEW s, NEW G, Fits(s, f, c, G),
           NEW node \in Node, NEW s2, s2 = Write(s, node)
    PROVE  \E G2, q : Grown(s, s2, f, c, G, G2, q, node)
  <1> DEFINE n == Len(f)
             w == Len(s.writes)
             q == Supply(c, n, w + 1)
             W == s.writes
             e == [page |-> q, node |-> node]
             W2 == Append(W, e)
  <1>1. /\ s \in Plan /\ s.count = Len(G) /\ W \in Seq(Written1) /\ G \in Seq(Node)
        /\ Len(G) = IF w <= Len(c) THEN n ELSE n + w - Len(c)
        /\ \A j \in 1..w : W[j].page = Supply(c, n, j) /\ G[W[j].page] = W[j].node
        /\ \A p \in 1..n : (\A j \in 1..w : W[j].page # p) => G[p] = f[p]
        /\ Len(s.avail) = IF w <= Len(c) THEN Len(c) - w ELSE 0
        /\ \A j \in 1..Len(s.avail) : s.avail[j] = c[w + j]
    BY DEF Fits, Pending
  <1>2. n \in Nat /\ w \in Nat /\ Len(c) \in Nat /\ s.avail \in Seq(Nat)
    BY <1>1 DEF FreePages, Plan
  <1>3. /\ q \in Nat /\ q > 0
        /\ w + 1 <= Len(c) => q \in 1..n /\ q = c[w + 1]
        /\ w + 1 > Len(c) => q = n + (w + 1) - Len(c) /\ q > n
        /\ \A j \in 1..w : Supply(c, n, j) # q
    <2>1. w + 1 \in Nat /\ w + 1 > 0 /\ \A j \in 1..w : j \in Nat /\ j > 0 /\ j # w + 1
      BY <1>2
    <2> QED BY SMTT(30), <1>2, <2>1, SupplyIs
  <1>4. s.avail # <<>> <=> w + 1 <= Len(c)
    BY <1>1, <1>2
  <1>5. q = allocate_page(s)
    <2>1. CASE w + 1 <= Len(c)
      <3>1. Head(s.avail) = s.avail[1] /\ 1 \in 1..Len(s.avail)
        BY <1>1, <1>2, <1>4, <2>1
      <3> QED BY <1>1, <1>3, <1>4, <2>1, <3>1 DEF allocate_page
    <2>2. CASE ~(w + 1 <= Len(c))
      BY <1>1, <1>2, <1>3, <1>4, <2>2 DEF allocate_page
    <2> QED BY <2>1, <2>2
  <1> HIDE DEF q
  <1>6. /\ s2 \in Plan /\ s2.frees = s.frees /\ s2.writes = W2
        /\ s.avail # <<>> => s2.avail = Tail(s.avail) /\ s2.count = s.count
        /\ s.avail = <<>> => s2.avail = <<>> /\ s2.count = s.count + 1
        /\ Written(s2) = q
    <2>1. s \in Plan /\ q \in Nat /\ q = allocate_page(s)
      BY <1>1, <1>3, <1>5
    <2> QED BY <2>1, WriteIs
  <1>7. /\ W2 \in Seq(Written1) /\ Len(W2) = w + 1 /\ W2[w + 1] = e /\ \A j \in 1..w : W2[j] = W[j]
    <2>1. e \in Written1
      BY <1>3 DEF Written1
    <2> HIDE DEF e, Written1
    <2> QED BY <1>1, <2>1
  <1>0. w = Len(W) /\ w = Len(s.writes)
    OBVIOUS
  <1> HIDE DEF W2, w, n, W
  <1>8. PICK G2 : /\ G2 \in Seq(Node) /\ q \in 1..Len(G2) /\ G2[q] = node
                  /\ Len(G2) = IF w + 1 <= Len(c) THEN Len(G) ELSE Len(G) + 1
                  /\ \A p \in 1..Len(G) : p # q => G2[p] = G[p]
    <2>1. CASE w + 1 <= Len(c)
      <3>1. q \in 1..Len(G)
        BY <1>1, <1>2, <1>3, <2>1
      <3>2. /\ [G EXCEPT ![q] = node] \in Seq(Node) /\ Len([G EXCEPT ![q] = node]) = Len(G)
            /\ \A j \in 1..Len(G) : [G EXCEPT ![q] = node][j] = IF j = q THEN node ELSE G[j]
        BY <1>1, <3>1, ExceptSeq
      <3> WITNESS [G EXCEPT ![q] = node]
      <3> QED BY <2>1, <3>1, <3>2
    <2>2. CASE ~(w + 1 <= Len(c))
      <3>1. q = Len(G) + 1
        BY <1>1, <1>2, <1>3, <2>2
      <3>2. /\ Append(G, node) \in Seq(Node) /\ Len(Append(G, node)) = Len(G) + 1
            /\ Append(G, node)[Len(G) + 1] = node
            /\ \A p \in 1..Len(G) : Append(G, node)[p] = G[p]
        BY <1>1
      <3> WITNESS Append(G, node)
      <3> QED BY <1>1, <2>2, <3>1, <3>2
    <2> QED BY <2>1, <2>2
  <1>9. e.page = q /\ e.node = node
    OBVIOUS
  <1> HIDE DEF e
  <1>10. Len(G2) = IF w + 1 <= Len(c) THEN n ELSE n + (w + 1) - Len(c)
    <2>1. Len(G) = IF w <= Len(c) THEN n ELSE n + w - Len(c)
      BY <1>1
    <2>2. Len(G2) = IF w + 1 <= Len(c) THEN Len(G) ELSE Len(G) + 1
      BY <1>8
    <2>3. CASE w + 1 <= Len(c)
      <3>1. w <= Len(c)
        BY <1>2, <2>3
      <3> QED BY <2>1, <2>2, <2>3, <3>1
    <2>4. CASE ~(w + 1 <= Len(c))
      <3>1. Len(G) = n + w - Len(c)
        <4>1. CASE w <= Len(c)
          <5>1. w = Len(c)
            BY <1>2, <2>4, <4>1
          <5>2. n + w - Len(c) = n
            BY <1>2, <5>1
          <5> QED BY <2>1, <4>1, <5>2
        <4>2. CASE ~(w <= Len(c))
          BY <2>1, <4>2
        <4> QED BY <4>1, <4>2
      <3>2. Len(G2) = (n + w - Len(c)) + 1
        BY <2>2, <2>4, <3>1
      <3>3. (n + w - Len(c)) + 1 = n + (w + 1) - Len(c)
        BY <1>2
      <3> QED BY <2>4, <3>2, <3>3
    <2> QED BY <2>3, <2>4
  <1>11. \A j \in 1..(w + 1) : W2[j].page = Supply(c, n, j) /\ G2[W2[j].page] = W2[j].node
    <2> TAKE j \in 1..(w + 1)
    <2>1. CASE j = w + 1
      BY <1>7, <1>8, <1>9, <2>1 DEF q
    <2>2. CASE j # w + 1
      <3>1. j \in 1..w
        BY <1>2, <2>2
      <3>2. W[j].page = Supply(c, n, j) /\ G[W[j].page] = W[j].node /\ W[j].page # q
        BY <1>1, <1>3, <3>1
      <3>3. W[j].page \in 1..Len(G)
        <4>1. j \in Nat /\ j > 0
          BY <3>1
        <4>2. /\ W[j].page \in Nat /\ W[j].page > 0
              /\ j <= Len(c) => W[j].page \in 1..n
              /\ j > Len(c) => W[j].page = n + j - Len(c)
          BY <1>2, <3>2, <4>1, SupplyIs DEF n
        <4>3. /\ w <= Len(c) => Len(G) = n
              /\ w > Len(c) => Len(G) = n + w - Len(c)
          BY <1>1, <1>2
        <4>4. j \in Nat /\ j <= w
          BY <1>2, <3>1
        <4>5. CASE j <= Len(c)
          BY <1>2, <4>2, <4>3, <4>5
        <4>6. CASE j > Len(c)
          BY <1>2, <4>2, <4>3, <4>4, <4>6
        <4> QED BY <1>2, <4>4, <4>5, <4>6
      <3> QED BY <1>7, <1>8, <3>1, <3>2, <3>3
    <2> QED BY <2>1, <2>2
  <1>12. \A p \in 1..n : (\A j \in 1..(w + 1) : W2[j].page # p) => G2[p] = f[p]
    <2> SUFFICES ASSUME NEW p \in 1..n, \A j \in 1..(w + 1) : W2[j].page # p
                 PROVE  G2[p] = f[p]
      OBVIOUS
    <2>1. p # q
      <3>1. w + 1 \in 1..(w + 1)
        BY <1>2
      <3> QED BY <1>7, <1>9, <3>1
    <2>2. \A j \in 1..w : W[j].page # p
      <3> TAKE j \in 1..w
      <3>1. j \in 1..(w + 1)
        BY <1>2
      <3> QED BY <1>7, <3>1
    <2>3. p \in 1..Len(G)
      BY <1>1, <1>2
    <2> QED BY <1>1, <1>8, <2>1, <2>2, <2>3
  <1>13. Pending(W2, f, c, G2)
    BY <1>7, <1>8, <1>10, <1>11, <1>12 DEF Pending, n
  <1>14. s2.count = Len(G2)
    BY <1>1, <1>4, <1>6, <1>8
  <1>15. /\ Len(s2.avail) = IF w + 1 <= Len(c) THEN Len(c) - (w + 1) ELSE 0
         /\ \A j \in 1..Len(s2.avail) : s2.avail[j] = c[(w + 1) + j]
    <2>1. CASE w + 1 <= Len(c)
      <3>1. s.avail # <<>> /\ s2.avail = Tail(s.avail)
        BY <1>4, <1>6, <2>1
      <3>2. /\ Len(Tail(s.avail)) = Len(s.avail) - 1
            /\ \A j \in 1..Len(Tail(s.avail)) : Tail(s.avail)[j] = s.avail[j + 1]
        BY <1>2, <3>1, HeadTailProperties
      <3>3. \A j \in 1..Len(s2.avail) : s2.avail[j] = c[(w + 1) + j]
        <4> TAKE j \in 1..Len(s2.avail)
        <4>1. j + 1 \in 1..Len(s.avail) /\ w + (j + 1) = (w + 1) + j
          BY <1>1, <1>2, <3>1, <3>2
        <4>2. s.avail[j + 1] = c[w + (j + 1)]
          BY <1>1, <4>1
        <4> QED BY <3>1, <3>2, <4>1, <4>2
      <3>4. Len(s2.avail) = Len(c) - (w + 1)
        BY SMTT(30), <1>1, <1>2, <2>1, <3>1, <3>2
      <3> QED BY <2>1, <3>3, <3>4
    <2>2. CASE ~(w + 1 <= Len(c))
      <3>1. s2.avail = <<>>
        BY <1>4, <1>6, <2>2
      <3> QED BY <2>2, <3>1
    <2> QED BY <2>1, <2>2
  <1>16. Fits(s2, f, c, G2)
    BY <1>6, <1>7, <1>13, <1>14, <1>15 DEF Fits
  <1>17. q \notin New(W) /\ New(W2) = New(W) \cup {q}
    <2>1. q \notin New(W)
      BY <1>0, <1>1, <1>3 DEF New
    <2>2. ASSUME NEW x \in New(W2) PROVE x \in New(W) \cup {q}
      <3>1. PICK j \in 1..(w + 1) : x = W2[j].page
        BY <1>7 DEF New
      <3>2. CASE j = w + 1
        BY <1>7, <1>9, <3>1, <3>2
      <3>3. CASE j # w + 1
        <4>1. j \in 1..w
          BY <1>2, <3>3
        <4> QED BY <1>0, <1>7, <3>1, <4>1 DEF New
      <3> QED BY <3>2, <3>3
    <2>3. ASSUME NEW x \in New(W) PROVE x \in New(W2)
      <3>1. PICK j \in 1..w : x = W[j].page
        BY <1>0 DEF New
      <3>2. j \in 1..Len(W2) /\ W2[j] = W[j]
        BY <1>2, <1>7, <3>1
      <3> QED BY <3>1, <3>2 DEF New
    <2>4. q \in New(W2)
      <3>1. w + 1 \in 1..Len(W2)
        BY <1>2, <1>7
      <3> QED BY <1>7, <1>9, <3>1 DEF New
    <2> QED BY <2>1, <2>2, <2>3, <2>4
  <1>18. Len(G) <= Len(G2)
    BY <1>1, <1>8
  <1>19. Grown(s, s2, f, c, G, G2, q, node)
    BY <1>6, <1>8, <1>16, <1>17, <1>18 DEF q, W, w, n, Grown
  <1> QED BY <1>19

-----------------------------------------------------------------------------
(* What a plan builds: a forest of pages K it keeps and pages it writes    *)

Extends(t, t2) == \A p \in t.T : Has(t2, p, t.lev[p], t.rng[p])

Kept(K, f, c) == K \subseteq 1..Len(f) /\ \A i \in 1..Len(c) : c[i] \notin K

Built(s, K, t0, f, c, G, t, m) ==
    /\ Fits(s, f, c, G) /\ Forest(G, t, m)
    /\ t.T = K \cup New(s.writes)
    /\ \A p \in K : Has(t, p, t0.lev[p], t0.rng[p])

LEMMA NodeStays ==
    ASSUME NEW node, NEW l, NEW R, NEW t, NEW t2, NEW m, NodeOK(node, l, R, t, m), Extends(t, t2)
    PROVE  NodeOK(node, l, R, t2, m)
  <1>1. ASSUME NEW ks, NEW cs, Divides(ks, cs, R, l, t) PROVE Divides(ks, cs, R, l, t2)
    <2>1. \A i \in 1..Len(cs) : Has(t, cs[i], l - 1, Part(ks, R, i))
      BY <1>1 DEF Divides
    <2>2. \A i \in 1..Len(cs) : Has(t2, cs[i], l - 1, Part(ks, R, i))
      BY <2>1 DEF Extends, Has
    <2> QED BY <1>1, <2>2 DEF Divides
  <1> QED BY <1>1 DEF NodeOK, InnerOK

LEMMA AddPage ==
    ASSUME NEW f \in Seq(Node), NEW c, FreePages(c, Len(f)), NEW K, Kept(K, f, c), NEW t0,
           NEW s, NEW G, NEW t, NEW m, Built(s, K, t0, f, c, G, t, m),
           NEW node, NEW l, NEW R, NodeOK(node, l, R, t, m), NEW s2, s2 = Write(s, node)
    PROVE  \E G2, t2 : /\ Built(s2, K, t0, f, c, G2, t2, m) /\ Extends(t, t2)
                       /\ Has(t2, Written(s2), l, R) /\ s2.frees = s.frees
  <1>1. /\ Fits(s, f, c, G) /\ Forest(G, t, m) /\ t.T = K \cup New(s.writes)
        /\ \A p \in K : Has(t, p, t0.lev[p], t0.rng[p])
    BY DEF Built
  <1>2. node \in Node /\ Fits(s, f, c, G)
    BY <1>1 DEF NodeOK
  <1>13. PICK G2, q : Grown(s, s2, f, c, G, G2, q, node)
    BY <1>2, WriteFits
  <1>3. /\ Fits(s2, f, c, G2) /\ Written(s2) = q /\ s2.frees = s.frees
        /\ q = Supply(c, Len(f), Len(s.writes) + 1)
        /\ q \notin New(s.writes) /\ New(s2.writes) = New(s.writes) \cup {q}
        /\ q \in 1..Len(G2) /\ G2[q] = node /\ Len(G) <= Len(G2)
        /\ \A p \in 1..Len(G) : p # q => G2[p] = G[p]
    BY <1>13 DEF Grown
  <1>4. q \notin K
    <2>1. Len(f) \in Nat /\ Len(s.writes) \in Nat /\ Len(c) \in Nat
      BY <1>1 DEF Fits, Plan, FreePages
    <2>2. /\ Len(s.writes) + 1 \in Nat /\ Len(s.writes) + 1 > 0
          /\ Len(s.writes) + 1 <= Len(c) => Len(s.writes) + 1 \in 1..Len(c)
      BY <2>1
    <2>3. /\ Len(s.writes) + 1 <= Len(c) => q = c[Len(s.writes) + 1]
          /\ Len(s.writes) + 1 > Len(c) => q > Len(f)
      BY <1>3, <2>1, <2>2 DEF Supply
    <2>4. CASE Len(s.writes) + 1 <= Len(c)
      BY <2>2, <2>3, <2>4 DEF Kept
    <2>5. CASE Len(s.writes) + 1 > Len(c)
      <3>1. q \notin 1..Len(f)
        BY <2>1, <2>3, <2>5
      <3> QED BY <3>1 DEF Kept
    <2> QED BY <2>1, <2>4, <2>5
  <1> DEFINE T2 == t.T \cup {q}
             t2 == [T |-> T2, lev |-> [x \in T2 |-> IF x = q THEN l ELSE t.lev[x]],
                    rng |-> [x \in T2 |-> IF x = q THEN R ELSE t.rng[x]]]
  <1>5. q \notin t.T
    BY <1>1, <1>3, <1>4
  <1>6. t2.T = t.T \cup {q} /\ t2.lev[q] = l /\ t2.rng[q] = R
        /\ \A x \in t.T : t2.lev[x] = t.lev[x] /\ t2.rng[x] = t.rng[x]
    BY <1>5
  <1> HIDE DEF t2
  <1>7. Extends(t, t2) /\ Has(t2, q, l, R)
    BY <1>6 DEF Extends, Has
  <1>8. t.T \subseteq 1..Len(G) /\ Len(G) \in Nat /\ Len(G2) \in Nat /\ DOMAIN G2 = 1..Len(G2)
    <2>1. G \in Seq(Node) /\ G2 \in Seq(Node)
      BY <1>1, <1>3 DEF Fits, Pending
    <2>2. DOMAIN G = 1..Len(G) /\ Len(G) \in Nat /\ Len(G2) \in Nat /\ DOMAIN G2 = 1..Len(G2)
      BY <2>1
    <2> QED BY <1>1, <2>2 DEF Forest
  <1>9. Forest(G2, t2, m)
    <2>1. t2.T \subseteq DOMAIN G2
      BY <1>3, <1>6, <1>8
    <2>2. ASSUME NEW p \in t2.T PROVE NodeOK(G2[p], t2.lev[p], t2.rng[p], t2, m)
      <3>1. CASE p = q
        BY <1>3, <1>6, <1>7, <3>1, NodeStays
      <3>2. CASE p # q
        <4>1. p \in t.T
          BY <1>6, <3>2
        <4>2. G2[p] = G[p] /\ t2.lev[p] = t.lev[p] /\ t2.rng[p] = t.rng[p]
          BY <1>3, <1>6, <1>8, <3>2, <4>1
        <4>3. NodeOK(G[p], t.lev[p], t.rng[p], t, m)
          BY <1>1, <4>1 DEF Forest
        <4>4. NodeOK(G[p], t.lev[p], t.rng[p], t2, m)
          BY <1>7, <4>3, NodeStays
        <4> QED BY <4>2, <4>4
      <3> QED BY <3>1, <3>2
    <2> QED BY <2>1, <2>2 DEF Forest
  <1>10. \A p \in K : Has(t2, p, t0.lev[p], t0.rng[p])
    <2> TAKE p \in K
    <2>1. Has(t, p, t0.lev[p], t0.rng[p])
      BY <1>1
    <2> QED BY <1>6, <2>1 DEF Has
  <1>11. t2.T = K \cup New(s2.writes)
    BY <1>1, <1>3, <1>6
  <1>12. Built(s2, K, t0, f, c, G2, t2, m)
    BY <1>3, <1>9, <1>10, <1>11 DEF Built
  <1> QED BY <1>3, <1>7, <1>12

LEMMA AddTwo ==
    ASSUME NEW f \in Seq(Node), NEW c, FreePages(c, Len(f)), NEW K, Kept(K, f, c), NEW t0,
           NEW s, NEW G, NEW t, NEW m, Built(s, K, t0, f, c, G, t, m),
           NEW a, NEW A, NEW b, NEW B, NEW l, NodeOK(a, l, A, t, m), NodeOK(b, l, B, t, m),
           NEW s1, s1 = Write(s, a), NEW s2, s2 = Write(s1, b)
    PROVE  \E G2, t2 : /\ Built(s2, K, t0, f, c, G2, t2, m) /\ Extends(t, t2)
                       /\ Has(t2, Written(s1), l, A) /\ Has(t2, Written(s2), l, B)
                       /\ s2.frees = s.frees
  <1>1. PICK G1, t1 : /\ Built(s1, K, t0, f, c, G1, t1, m) /\ Extends(t, t1)
                      /\ Has(t1, Written(s1), l, A) /\ s1.frees = s.frees
    BY AddPage
  <1>2. NodeOK(b, l, B, t1, m)
    BY <1>1, NodeStays
  <1>3. PICK G2, t2 : /\ Built(s2, K, t0, f, c, G2, t2, m) /\ Extends(t1, t2)
                      /\ Has(t2, Written(s2), l, B) /\ s2.frees = s1.frees
    BY <1>1, <1>2, AddPage
  <1>4. Extends(t, t2) /\ Has(t2, Written(s1), l, A)
    BY <1>1, <1>3 DEF Extends, Has
  <1> QED BY <1>1, <1>3, <1>4

LEMMA FreeingIs ==
    ASSUME NEW s, NEW K, NEW t0, NEW f, NEW c, NEW G, NEW t, NEW m, Built(s, K, t0, f, c, G, t, m),
           NEW p \in Nat
    PROVE  Built(Freeing(s, p), K, t0, f, c, G, t, m) /\ Freeing(s, p).frees = Append(s.frees, p)
  <1> DEFINE s2 == Freeing(s, p)
  <1>1. s \in Plan
    BY DEF Built, Fits
  <1>2. /\ s2.frees = Append(s.frees, p) /\ s2.avail = s.avail /\ s2.count = s.count
        /\ s2.writes = s.writes
        /\ s2 = [avail |-> s2.avail, count |-> s2.count, writes |-> s2.writes, frees |-> s2.frees]
    <2>1. /\ s2.frees = Append(s.frees, p) /\ s2.avail = s.avail /\ s2.count = s.count
          /\ s2.writes = s.writes
      BY <1>1 DEF Plan, Freeing
    <2>2. s2 = [avail |-> s2.avail, count |-> s2.count, writes |-> s2.writes, frees |-> s2.frees]
      <3>1. s = [avail |-> s.avail, count |-> s.count, writes |-> s.writes, frees |-> s.frees]
        BY <1>1 DEF Plan
      <3>2. s2 = [avail |-> s.avail, count |-> s.count, writes |-> s.writes,
                  frees |-> Append(s.frees, p)]
        BY SMTT(30), <3>1 DEF Freeing
      <3> QED BY <3>2
    <2> QED BY <2>1, <2>2
  <1>3. s2 \in Plan
    <2>1. Append(s.frees, p) \in Seq(Nat)
      BY <1>1 DEF Plan
    <2> HIDE DEF s2
    <2> QED BY <1>1, <1>2, <2>1 DEF Plan
  <1> HIDE DEF s2
  <1>4. Fits(s2, f, c, G)
    BY <1>2, <1>3 DEF Built, Fits
  <1>5. Built(s2, K, t0, f, c, G, t, m)
    BY <1>2, <1>4 DEF Built
  <1> QED BY <1>2, <1>5 DEF s2

\* The page or pages that take the place of one at level l with the range R
Outcome(r, t, l, R) ==
    /\ r.split \in BOOLEAN
    /\ ~r.split => Has(t, r.left, l, R)
    /\ r.split => /\ r.sep \in R
                  /\ Has(t, r.left, l, Below(R, r.sep)) /\ Has(t, r.right, l, AtLeast(R, r.sep))

Rises(r, s, p, K, t0, f, c, l, R, m) ==
    /\ r.plan.frees = Append(s.frees, p)
    /\ \E G, t : Built(r.plan, K, t0, f, c, G, t, m) /\ Outcome(r, t, l, R)

LEMMA ReplacedRises ==
    ASSUME NEW f \in Seq(Node), NEW c, FreePages(c, Len(f)), NEW K, Kept(K, f, c), NEW t0,
           NEW s, NEW G, NEW t, NEW m, Built(s, K, t0, f, c, G, t, m),
           NEW node, NEW l, NEW R, NodeOK(node, l, R, t, m), NEW p \in Nat
    PROVE  Rises(Replaced(s, p, node), s, p, K, t0, f, c, l, R, m) /\ ~Replaced(s, p, node).split
  <1> DEFINE s2 == Write(s, node)
             r == Replaced(s, p, node)
  <1>1. PICK G2, t2 : /\ Built(s2, K, t0, f, c, G2, t2, m)
                      /\ Has(t2, Written(s2), l, R) /\ s2.frees = s.frees
    BY AddPage
  <1>2. r.split = FALSE /\ r.plan = Freeing(s2, p) /\ r.left = Written(s2)
    BY DEF Replaced
  <1> HIDE DEF s2, r
  <1>3. Built(r.plan, K, t0, f, c, G2, t2, m) /\ r.plan.frees = Append(s2.frees, p)
    BY <1>1, <1>2, FreeingIs
  <1>4. Outcome(r, t2, l, R)
    BY <1>1, <1>2 DEF Outcome
  <1>5. Rises(r, s, p, K, t0, f, c, l, R, m)
    BY <1>1, <1>3, <1>4 DEF Rises
  <1> QED BY <1>2, <1>5 DEF r

LEMMA SplitRises ==
    ASSUME NEW K, NEW t0, NEW f, NEW c, NEW s, NEW s2, NEW G, NEW t, NEW m,
           Built(s2, K, t0, f, c, G, t, m), s2.frees = s.frees, NEW p \in Nat,
           NEW l, NEW R, NEW e \in R, NEW a, NEW b,
           Has(t, a, l, Below(R, e)), Has(t, b, l, AtLeast(R, e))
    PROVE  Rises(Split(s2, p, a, e, b), s, p, K, t0, f, c, l, R, m)
  <1> DEFINE r == Split(s2, p, a, e, b)
  <1>1. /\ r.split = TRUE /\ r.plan = Freeing(s2, p) /\ r.left = a /\ r.sep = e /\ r.right = b
    BY DEF Split
  <1> HIDE DEF r
  <1>2. Built(r.plan, K, t0, f, c, G, t, m) /\ r.plan.frees = Append(s2.frees, p)
    BY ZenonT(30), <1>1, FreeingIs
  <1>3. Outcome(r, t, l, R)
    BY <1>1 DEF Outcome
  <1>4. Rises(r, s, p, K, t0, f, c, l, R, m)
    BY <1>2, <1>3 DEF Rises
  <1> QED BY <1>4 DEF r

LEMMA NodeIs ==
    ASSUME NEW y \in {"leaf", "internal"}, NEW ks \in Seq(Key), NEW vs \in Seq(Value), NEW cs \in Seq(Nat)
    PROVE  [type |-> y, keys |-> ks, vals |-> vs, kids |-> cs] \in Node
  BY DEF Node

LEMMA LeafIsOK ==
    ASSUME NEW ks, NEW vs, NEW R, R \subseteq Key, R # {}, NEW t, NEW m, Holds(ks, vs, R, m),
           Len(ks) <= LeafCap
    PROVE  NodeOK(Leaf(ks, vs), 0, R, t, m)
  <1>1. ks \in Seq(Key) /\ vs \in Seq(Value)
    BY DEF Holds
  <1>2. Leaf(ks, vs) \in Node
    <2>1. <<>> \in Seq(Nat)
      BY EmptySeq
    <2>2. [type |-> "leaf", keys |-> ks, vals |-> vs, kids |-> <<>>] \in Node
      BY <1>1, <2>1, NodeIs
    <2> QED BY <2>2 DEF Leaf
  <1>3. LeafOK(Leaf(ks, vs), R, m)
    BY DEF LeafOK, Leaf
  <1> QED BY <1>2, <1>3 DEF NodeOK

LEMMA InnerIsOK ==
    ASSUME NEW ks, NEW cs, NEW R, R \subseteq Key, R # {}, NEW l \in Nat, l > 0, NEW t, NEW m,
           Divides(ks, cs, R, l, t), Len(ks) <= InternalCap
    PROVE  NodeOK(Internal(ks, cs), l, R, t, m)
  <1>1. ks \in Seq(Key) /\ cs \in Seq(Nat)
    BY DEF Divides, Separators
  <1>2. Internal(ks, cs) \in Node
    <2>1. <<>> \in Seq(Value)
      BY EmptySeq
    <2>2. [type |-> "internal", keys |-> ks, vals |-> <<>>, kids |-> cs] \in Node
      BY <1>1, <2>1, NodeIs
    <2> QED BY <2>2 DEF Internal
  <1>3. InnerOK(Internal(ks, cs), R, l, t)
    BY DEF InnerOK, Internal
  <1> QED BY <1>2, <1>3 DEF NodeOK

-----------------------------------------------------------------------------
(* insert_rec and delete_rec, page by page                                 *)

LEMMA InsertLeafRises ==
    ASSUME pages \in Seq(Node), NEW c, FreePages(c, Len(pages)), NEW K, Kept(K, pages, c), NEW t0,
           NEW s, NEW G, NEW t, NEW m \in Maps, NEW k, NEW v \in Value,
           Built(s, K, t0, pages, c, G, t, [m EXCEPT ![k] = v]),
           NEW p \in Nat, NEW R, R \subseteq Key, k \in R, LeafOK(pages[p], R, m)
    PROVE  Rises(insert_leaf(s, p, k, v), s, p, K, t0, pages, c, 0, R, [m EXCEPT ![k] = v])
  <1> DEFINE node == pages[p]
             m1 == [m EXCEPT ![k] = v]
             i == place(node, k)
             ks == IF found(node, k) THEN node.keys ELSE InsertAt(node.keys, i, k)
             vs == IF found(node, k) THEN [node.vals EXCEPT ![i] = v] ELSE InsertAt(node.vals, i, v)
             mid == Len(ks) \div 2
             rk == From(ks, mid + 1)
             rv == From(vs, mid + 1)
             lk == SubSeq(ks, 1, mid)
             lv == SubSeq(vs, 1, mid)
             r == Write(s, Leaf(rk, rv))
             l == Write(r, Leaf(lk, lv))
             out == insert_leaf(s, p, k, v)
  <1>1. Holds(node.keys, node.vals, R, m) /\ Len(node.keys) <= LeafCap
    BY DEF LeafOK
  <1>2. Holds(ks, vs, R, m1) /\ Len(ks) \in {Len(node.keys), Len(node.keys) + 1}
    <2>1. /\ i = place(node, k) /\ ks = (IF found(node, k) THEN node.keys ELSE InsertAt(node.keys, i, k))
          /\ vs = (IF found(node, k) THEN [node.vals EXCEPT ![i] = v] ELSE InsertAt(node.vals, i, v))
      OBVIOUS
    <2> HIDE DEF node, i, ks, vs
    <2> QED BY ZenonT(30), <1>1, <2>1, LeafInsert
  <1>3. out = IF Len(ks) <= LeafCap THEN Replaced(s, p, Leaf(ks, vs))
              ELSE Split(l, p, Written(l), ks[mid + 1], Written(r))
    BY DEF insert_leaf
  <1>4. R # {}
    OBVIOUS
  <1>5. Len(ks) \in Nat /\ Len(node.keys) \in Nat /\ LeafCap \in Nat /\ LeafCap >= 1
    <2> HIDE DEF ks, vs, node
    <2> QED BY <1>1, <1>2, CowTreeAssumption DEF Holds
  <1> HIDE DEF node, i, ks, vs, m1
  <1>6. CASE Len(ks) <= LeafCap
    <2>1. NodeOK(Leaf(ks, vs), 0, R, t, m1)
      BY <1>2, <1>4, <1>6, LeafIsOK
    <2>2. Rises(Replaced(s, p, Leaf(ks, vs)), s, p, K, t0, pages, c, 0, R, m1)
      BY <2>1, ReplacedRises DEF m1
    <2> QED BY <1>3, <1>6, <2>2 DEF m1
  <1>7. CASE ~(Len(ks) <= LeafCap)
    <2>1. Len(ks) >= 2 /\ Len(ks) <= LeafCap + 1
      BY <1>1, <1>2, <1>5, <1>7
    <2>2. mid \in 1..(Len(ks) - 1) /\ mid <= LeafCap /\ Len(ks) - mid <= LeafCap
      BY <1>5, <2>1
    <2> DEFINE e == ks[mid + 1]
    <2>0. LeafHalves(ks, vs, mid, e, lk, lv, rk, rv)
      <3>1. Len(vs) = Len(ks)
        BY <1>2 DEF Holds
      <3>2. mid \in 0..Len(ks) /\ mid \in 0..Len(vs)
        BY <1>5, <2>2, <3>1
      <3> QED BY <2>2, <3>2 DEF LeafHalves, Ends
    <2> HIDE DEF mid, e, lk, lv, rk, rv
    <2>3. /\ Holds(lk, lv, Below(R, e), m1) /\ Holds(rk, rv, AtLeast(R, e), m1)
          /\ e \in R /\ Below(R, e) # {} /\ AtLeast(R, e) # {}
          /\ Len(lk) = mid /\ Len(rk) = Len(ks) - mid
      <3>1. Holds(ks, vs, R, m1) /\ R \subseteq Key /\ LeafHalves(ks, vs, mid, e, lk, lv, rk, rv)
        BY <1>2, <2>0
      <3>2. LeavesOf(R, e, mid, Len(ks), lk, lv, rk, rv, m1)
        BY <3>1, LeafSplit
      <3> QED BY <3>2 DEF LeavesOf
    <2>4. Below(R, e) \subseteq Key /\ AtLeast(R, e) \subseteq Key
      BY DEF Below, AtLeast
    <2>5. NodeOK(Leaf(rk, rv), 0, AtLeast(R, e), t, m1)
      BY <2>2, <2>3, <2>4, LeafIsOK
    <2>6. NodeOK(Leaf(lk, lv), 0, Below(R, e), t, m1)
      BY <2>2, <2>3, <2>4, LeafIsOK
    <2>7. PICK G2, t2 : /\ Built(l, K, t0, pages, c, G2, t2, m1)
                        /\ Has(t2, Written(r), 0, AtLeast(R, e))
                        /\ Has(t2, Written(l), 0, Below(R, e)) /\ l.frees = s.frees
      BY <2>5, <2>6, AddTwo DEF m1
    <2> HIDE DEF l, r
    <2>8. Rises(Split(l, p, Written(l), e, Written(r)), s, p, K, t0, pages, c, 0, R, m1)
      BY <2>3, <2>7, SplitRises
    <2>9. out = Split(l, p, Written(l), e, Written(r))
      BY <1>3, <1>7 DEF e, l, r, lk, lv, rk, rv, mid
    <2> HIDE DEF out
    <2>10. Rises(out, s, p, K, t0, pages, c, 0, R, m1)
      BY <2>8, <2>9
    <2> QED BY <2>10 DEF out, m1
  <1> QED BY <1>6, <1>7

LEMMA DeleteLeafRises ==
    ASSUME pages \in Seq(Node), NEW c, FreePages(c, Len(pages)), NEW K, Kept(K, pages, c), NEW t0,
           NEW s, NEW G, NEW t, NEW m \in Maps, NEW k, m[k] # None,
           Built(s, K, t0, pages, c, G, t, [m EXCEPT ![k] = None]),
           NEW p \in Nat, NEW R, R \subseteq Key, k \in R, LeafOK(pages[p], R, m)
    PROVE  /\ Rises(delete_leaf(s, p, k), s, p, K, t0, pages, c, 0, R, [m EXCEPT ![k] = None])
           /\ ~delete_leaf(s, p, k).split
  <1> DEFINE node == pages[p]
             m1 == [m EXCEPT ![k] = None]
             i == place(node, k)
             ks == RemoveAt(node.keys, i)
             vs == RemoveAt(node.vals, i)
  <1>1. Holds(node.keys, node.vals, R, m) /\ Len(node.keys) <= LeafCap
    BY DEF LeafOK
  <1>2. Holds(ks, vs, R, m1) /\ Len(ks) = Len(node.keys) - 1
    <2>1. i = place(node, k) /\ ks = RemoveAt(node.keys, i) /\ vs = RemoveAt(node.vals, i)
      OBVIOUS
    <2> HIDE DEF node, i, ks, vs
    <2> QED BY <1>1, <2>1, LeafRemove
  <1>3. delete_leaf(s, p, k) = Replaced(s, p, Leaf(ks, vs))
    BY DEF delete_leaf
  <1>4. Len(ks) <= LeafCap
    <2>1. Len(node.keys) \in Nat /\ LeafCap \in Nat
      BY <1>1, CowTreeAssumption DEF Holds
    <2> HIDE DEF ks
    <2> QED BY <1>1, <1>2, <2>1
  <1>5. R # {}
    OBVIOUS
  <1> HIDE DEF node, i, ks, vs, m1
  <1>6. NodeOK(Leaf(ks, vs), 0, R, t, m1)
    BY <1>2, <1>4, <1>5, LeafIsOK
  <1>7. /\ Rises(Replaced(s, p, Leaf(ks, vs)), s, p, K, t0, pages, c, 0, R, m1)
        /\ ~Replaced(s, p, Leaf(ks, vs)).split
    BY <1>6, ReplacedRises DEF m1
  <1> QED BY <1>3, <1>7 DEF m1

\* The page above one that was replaced or split: p is in the tree t0, and
\* the pages kept are those k is not in the range of.
LEMMA AboveRises ==
    ASSUME pages \in Seq(Node), NEW c, FreePages(c, Len(pages)), NEW K, Kept(K, pages, c),
           NEW t0, NEW m0, Forest(pages, t0, m0), NEW k,
           \A x \in t0.T : k \notin t0.rng[x] => x \in K,
           NEW m, NEW child, NEW G, NEW t, Built(child.plan, K, t0, pages, c, G, t, m),
           NEW p \in t0.T, k \in t0.rng[p], NEW l, l = t0.lev[p], l > 0,
           NEW R, R = t0.rng[p],
           Outcome(child, t, l - 1, Part(pages[p].keys, R, child_idx(pages[p], k)))
    PROVE  /\ Rises(Above(p, k, child), child.plan, p, K, t0, pages, c, l, R, m)
           /\ ~child.split => ~Above(p, k, child).split
  <1> DEFINE node == pages[p]
             ks == node.keys
             cs == node.kids
             i == child_idx(node, k)
             s == child.plan
  <1>1. NodeOK(node, l, R, t0, m0)
    BY DEF Forest
  <1>2. /\ Divides(ks, cs, R, l, t0) /\ Len(ks) <= InternalCap /\ R \subseteq Key /\ R # {} /\ l \in Nat
        /\ p \in Nat /\ k \in R
    <2>1. p \in Nat
      BY DEF Forest
    <2> QED BY <1>1, <2>1 DEF NodeOK, InnerOK
  <1>3. /\ Separators(ks, R) /\ cs \in Seq(Nat) /\ Len(cs) = Len(ks) + 1 /\ Len(ks) \in Nat
        /\ \A j \in 1..Len(cs) : Has(t0, cs[j], l - 1, Part(ks, R, j))
    BY <1>2 DEF Divides, Separators
  <1>4. i \in 1..Len(cs) /\ k \in Part(ks, R, i)
    <2> HIDE DEF node
    <2>1. i \in 1..(Len(ks) + 1) /\ k \in Part(ks, R, i)
      BY <1>2, <1>3, ChildPart
    <2> QED BY <1>3, <2>1
  <1>5. \A j \in 1..Len(cs) : j # i => Has(t, cs[j], l - 1, Part(ks, R, j))
    <2> SUFFICES ASSUME NEW j \in 1..Len(cs), j # i PROVE Has(t, cs[j], l - 1, Part(ks, R, j))
      OBVIOUS
    <2>1. Has(t0, cs[j], l - 1, Part(ks, R, j))
      BY <1>3
    <2>2. k \notin Part(ks, R, j)
      <3>1. j \in 1..(Len(ks) + 1) /\ i \in 1..(Len(ks) + 1)
        BY <1>3, <1>4
      <3> HIDE DEF ks, i
      <3> QED BY <1>3, <1>4, <3>1, OnePart
    <2>3. cs[j] \in K
      BY <2>1, <2>2 DEF Has
    <2> HIDE DEF node
    <2> QED BY <2>1, <2>3 DEF Built, Has
  <1> HIDE DEF node
  <1>6. CASE ~child.split
    <2> DEFINE new == Internal(ks, [cs EXCEPT ![i] = child.left])
    <2>1. Has(t, child.left, l - 1, Part(ks, R, i))
      BY <1>6 DEF Outcome, node
    <2>2. child.left \in Nat
      BY <2>1 DEF Has, Built, Forest, Fits, Pending
    <2>3. Divides(ks, [cs EXCEPT ![i] = child.left], R, l, t)
      BY <1>3, <1>4, <1>5, <2>1, <2>2, InnerReplace
    <2>4. NodeOK(new, l, R, t, m)
      BY <1>2, <2>3, InnerIsOK
    <2> HIDE DEF new
    <2>5. Rises(Replaced(s, p, new), s, p, K, t0, pages, c, l, R, m) /\ ~Replaced(s, p, new).split
      BY <1>2, <2>4, ReplacedRises
    <2>6. Above(p, k, child) = Replaced(s, p, new)
      BY <1>6 DEF Above, node, new
    <2> QED BY <2>5, <2>6
  <1>7. CASE child.split
    <2> DEFINE e == child.sep
               K2 == InsertAt(ks, i, e)
               C2 == InsertAt([cs EXCEPT ![i] = child.left], i + 1, child.right)
               mid == Len(K2) \div 2
               lk == SubSeq(K2, 1, mid)
               lc == SubSeq(C2, 1, mid + 1)
               rk == From(K2, mid + 2)
               rc == From(C2, mid + 2)
               a == Write(s, Internal(lk, lc))
               b == Write(a, Internal(rk, rc))
               out == Above(p, k, child)
    <2>1. /\ e \in Part(ks, R, i) /\ Has(t, child.left, l - 1, Below(Part(ks, R, i), e))
          /\ Has(t, child.right, l - 1, AtLeast(Part(ks, R, i), e))
      BY <1>7 DEF Outcome, node
    <2>2. child.left \in Nat /\ child.right \in Nat /\ Below(Part(ks, R, i), e) # {}
      <3>1. Forest(G, t, m) /\ G \in Seq(Node)
        BY DEF Built, Fits, Pending
      <3>2. NodeOK(G[child.left], l - 1, Below(Part(ks, R, i), e), t, m)
        BY <2>1, <3>1 DEF Has, Forest
      <3>3. child.left \in DOMAIN G /\ child.right \in DOMAIN G
        BY <2>1, <3>1 DEF Has, Forest
      <3> QED BY <3>1, <3>2, <3>3 DEF NodeOK
    <2>3. Divides(K2, C2, R, l, t) /\ Len(K2) = Len(ks) + 1
      <3> HIDE DEF e, i
      <3>1. cs \in Seq(Nat) /\ Len(cs) = Len(ks) + 1 /\ i \in 1..Len(cs) /\ Separators(ks, R)
        BY <1>3, <1>4
      <3>2. R \subseteq Key
        BY <1>2
      <3> HIDE DEF K2, C2
      <3>3. K2 = InsertAt(ks, i, e) /\ C2 = InsertAt([cs EXCEPT ![i] = child.left], i + 1, child.right)
        BY DEF K2, C2
      <3> HIDE DEF ks, cs
      <3> QED BY ZenonT(30), <1>5, <2>1, <2>2, <3>1, <3>2, <3>3, InnerInsert
    <2>4. out = IF Len(K2) <= InternalCap THEN Replaced(s, p, Internal(K2, C2))
                ELSE Split(b, p, Written(a), K2[mid + 1], Written(b))
      BY <1>7 DEF Above, insert_split, node
    <2> HIDE DEF K2, C2, e, i, out
    <2>5. InternalCap \in Nat /\ InternalCap >= 1
      BY CowTreeAssumption
    <2>6. CASE Len(K2) <= InternalCap
      <3>1. NodeOK(Internal(K2, C2), l, R, t, m)
        BY <1>2, <2>3, <2>6, InnerIsOK
      <3>2. Rises(Replaced(s, p, Internal(K2, C2)), s, p, K, t0, pages, c, l, R, m)
        BY <1>2, <3>1, ReplacedRises
      <3> QED BY <1>7, <2>4, <2>6, <3>2 DEF out
    <2>7. CASE ~(Len(K2) <= InternalCap)
      <3>1. Len(K2) \in Nat /\ Len(K2) >= 2 /\ Len(K2) <= InternalCap + 1
        BY <1>2, <1>3, <2>3, <2>5, <2>7
      <3>2. mid \in 1..(Len(K2) - 1) /\ mid <= InternalCap /\ Len(K2) - mid - 1 <= InternalCap
        BY <2>5, <3>1
      <3> DEFINE x == K2[mid + 1]
      <3>0. InnerHalves(K2, C2, mid, x, lk, lc, rk, rc)
        <4>1. Len(C2) = Len(K2) + 1
          BY <2>3 DEF Divides
        <4>2. /\ mid \in 0..Len(K2) /\ mid + 1 \in 0..Len(K2) /\ mid + 1 \in 0..Len(C2)
              /\ (mid + 1) + 1 = mid + 2
          BY <3>1, <3>2, <4>1
        <4> HIDE DEF mid
        <4> QED BY <3>2, <4>2 DEF InnerHalves, Ends
      <3> HIDE DEF mid, x, lk, lc, rk, rc
      <3>3. /\ Divides(lk, lc, Below(R, x), l, t)
            /\ Divides(rk, rc, AtLeast(R, x), l, t)
            /\ x \in R /\ Below(R, x) # {} /\ AtLeast(R, x) # {}
            /\ Len(lk) = mid /\ Len(rk) = Len(K2) - mid - 1
        <4>1. R \subseteq Key /\ Divides(K2, C2, R, l, t) /\ InnerHalves(K2, C2, mid, x, lk, lc, rk, rc)
          BY <1>2, <2>3, <3>0
        <4>2. InnersOf(R, x, mid, Len(K2), lk, lc, rk, rc, l, t)
          BY <4>1, InnerSplit
        <4> QED BY <4>2 DEF InnersOf
      <3>4. Below(R, x) \subseteq Key /\ AtLeast(R, x) \subseteq Key
        BY <1>2 DEF Below, AtLeast
      <3>5. NodeOK(Internal(lk, lc), l, Below(R, x), t, m)
        BY <1>2, <3>2, <3>3, <3>4, InnerIsOK
      <3>6. NodeOK(Internal(rk, rc), l, AtLeast(R, x), t, m)
        BY <1>2, <3>2, <3>3, <3>4, InnerIsOK
      <3>7. PICK G2, t2 : /\ Built(b, K, t0, pages, c, G2, t2, m)
                          /\ Has(t2, Written(a), l, Below(R, x))
                          /\ Has(t2, Written(b), l, AtLeast(R, x)) /\ b.frees = s.frees
        BY <3>5, <3>6, AddTwo
      <3> HIDE DEF a, b
      <3>8. Rises(Split(b, p, Written(a), x, Written(b)), s, p, K, t0, pages, c, l, R, m)
        BY <1>2, <3>3, <3>7, SplitRises
      <3>9. out = Split(b, p, Written(a), x, Written(b))
        BY <2>4, <2>7 DEF x, a, b, lk, lc, rk, rc, mid
      <3> QED BY <1>7, <3>8, <3>9 DEF out
    <2> QED BY <2>6, <2>7
  <1> QED BY <1>6, <1>7


-----------------------------------------------------------------------------
(* The freelist                                                            *)

NextOf(c, i) == IF i < Len(c) THEN c[i + 1] ELSE Null

\* The freelist of the file f that starts at h is c.
Chain(f, c, h) ==
    /\ FreePages(c, Len(f)) /\ h = NextOf(c, 0)
    /\ \A i \in 1..Len(c) : f[c[i]].kids[1] = NextOf(c, i)

LEMMA FewFree ==
    ASSUME NEW n \in Nat, NEW c, FreePages(c, n)
    PROVE  Len(c) \in Nat /\ Len(c) <= n
  <1>1. Len(c) \in Nat /\ \A i \in 1..Len(c) : c[i] \in 1..n
    BY DEF FreePages
  <1>2. SUFFICES ASSUME Len(c) > n PROVE FALSE
    BY <1>1
  <1> DEFINE g == [i \in 1..Len(c) |-> c[i]]
  <1>3. g \in [1..Len(c) -> 1..n]
    BY <1>1
  <1>4. /\ IsFiniteSet(1..Len(c)) /\ Cardinality(1..Len(c)) = Len(c)
        /\ IsFiniteSet(1..n) /\ Cardinality(1..n) = n
    BY <1>1, CardOfInterval
  <1>5. PICK x, y \in 1..Len(c) : x # y /\ g[x] = g[y]
    <2> HIDE DEF g
    <2>1. Cardinality(1..n) < Cardinality(1..Len(c))
      BY <1>1, <1>2, <1>4
    <2> QED BY <1>3, <1>4, <2>1, FS_PigeonHole
  <1> QED BY <1>5 DEF FreePages, Distinct

LEMMA ChainIs ==
    ASSUME NEW f \in Seq(Node), NEW c, NEW h, Chain(f, c, h)
    PROVE  FreeChain(f, h) = c
  <1> DEFINE n == Len(f)
             Body(g) == [i \in 0..n |-> IF i = 0 THEN h
                            ELSE LET q == g[i - 1] IN IF q = Null THEN Null ELSE f[q].kids[1]]
             g0 == [i \in 0..n |-> NextOf(c, i)]
             link == CHOOSE g : g = Body(g)
  <1>1. n \in Nat /\ Len(c) \in Nat /\ Len(c) <= n
    BY FewFree DEF Chain
  <1>2. /\ h = NextOf(c, 0) /\ \A i \in 1..Len(c) : f[c[i]].kids[1] = NextOf(c, i)
        /\ \A i \in 1..Len(c) : c[i] # Null
    BY DEF Chain, FreePages, Null
  <1>3. g0 = Body(g0)
    <2>1. \A i \in 0..n : g0[i] = IF i = 0 THEN h
                ELSE LET q == g0[i - 1] IN IF q = Null THEN Null ELSE f[q].kids[1]
      <3> TAKE i \in 0..n
      <3>1. CASE i = 0
        BY <1>2, <3>1
      <3>2. CASE i # 0
        <4>1. i - 1 \in 0..n /\ (i - 1) + 1 = i /\ g0[i] = NextOf(c, i) /\ g0[i - 1] = NextOf(c, i - 1)
          BY <1>1, <3>2
        <4>2. CASE i <= Len(c)
          <5>1. i \in 1..Len(c) /\ NextOf(c, i - 1) = c[i]
            BY <1>1, <3>2, <4>1, <4>2 DEF NextOf
          <5> HIDE DEF g0
          <5> QED BY <1>2, <3>2, <4>1, <5>1
        <4>3. CASE ~(i <= Len(c))
          <5>1. NextOf(c, i - 1) = Null /\ NextOf(c, i) = Null
            BY <1>1, <4>1, <4>3 DEF NextOf
          <5> HIDE DEF g0
          <5> QED BY <3>2, <4>1, <5>1
        <4> QED BY <4>2, <4>3
      <3> QED BY <3>1, <3>2
    <2>2. Body(g0) = [i \in 0..n |-> g0[i]]
      <3> HIDE DEF g0
      <3> QED BY <2>1
    <2> QED BY <2>2
  <1>4. link = Body(link)
    <2> HIDE DEF Body, g0
    <2> QED BY <1>3
  <1>5. \A i \in 0..n : link[i] = IF i = 0 THEN h
                ELSE LET q == link[i - 1] IN IF q = Null THEN Null ELSE f[q].kids[1]
    <2> HIDE DEF link
    <2> QED BY <1>4
  <1> HIDE DEF link
  <1>6. 0..n \subseteq {i \in 0..n : link[i] = NextOf(c, i)}
    <2> DEFINE U == {i \in 0..n : link[i] = NextOf(c, i)}
    <2>1. 0 \in U
      BY <1>1, <1>2, <1>5
    <2>2. ASSUME NEW i \in 1..n, i - 1 \in U PROVE i \in U
      <3>1. i \in 0..n /\ i # 0 /\ (i - 1) + 1 = i /\ link[i - 1] = NextOf(c, i - 1)
        BY <1>1, <2>2
      <3>2. link[i] = IF NextOf(c, i - 1) = Null THEN Null ELSE f[NextOf(c, i - 1)].kids[1]
        BY <1>5, <3>1
      <3>3. CASE i <= Len(c)
        <4>1. i \in 1..Len(c) /\ NextOf(c, i - 1) = c[i]
          BY <1>1, <3>1, <3>3 DEF NextOf
        <4> QED BY <1>2, <3>1, <3>2, <4>1
      <3>4. CASE ~(i <= Len(c))
        <4>1. NextOf(c, i - 1) = Null /\ NextOf(c, i) = Null
          BY <1>1, <3>1, <3>4 DEF NextOf
        <4> QED BY <3>1, <3>2, <4>1
      <3> QED BY <3>3, <3>4
    <2> HIDE DEF U
    <2>3. 0..n \subseteq U
      BY <1>1, <2>1, <2>2, UpTo
    <2> QED BY <2>3 DEF U
  <1>7. \A i \in 0..n : link[i] = NextOf(c, i)
    BY <1>6
  <1>8. Cardinality({i \in 0..n : link[i] # Null}) = Len(c)
    <2>1. {i \in 0..n : link[i] # Null} = 0..(Len(c) - 1)
      <3>1. \A i \in 0..n : link[i] # Null <=> i < Len(c)
        <4> TAKE i \in 0..n
        <4>1. CASE i < Len(c)
          <5>1. i + 1 \in 1..Len(c)
            BY <1>1, <4>1
          <5> QED BY <1>2, <1>7, <4>1, <5>1 DEF NextOf
        <4>2. CASE ~(i < Len(c))
          BY <1>7, <4>2 DEF NextOf
        <4> QED BY <4>1, <4>2
      <3> QED BY <1>1, <3>1
    <2> QED BY <1>1, <2>1, CardOfInterval
  <1>9. FreeChain(f, h) = [i \in 1..Cardinality({j \in 0..n : link[j] # Null}) |-> link[i - 1]]
    BY DEF FreeChain, link
  <1>10. FreeChain(f, h) = [i \in 1..Len(c) |-> link[i - 1]]
    BY <1>8, <1>9
  <1>11. \A i \in 1..Len(c) : link[i - 1] = c[i]
    <2> TAKE i \in 1..Len(c)
    <2>1. i - 1 \in 0..n /\ (i - 1) + 1 = i /\ i - 1 < Len(c)
      BY <1>1
    <2> QED BY <1>7, <2>1 DEF NextOf
  <1>12. c = [i \in 1..Len(c) |-> c[i]]
    BY DEF Chain, FreePages
  <1> QED BY <1>10, <1>11, <1>12

-----------------------------------------------------------------------------
(* The pages below a page, and the forest without the pages on a way       *)

Only(t, T) == [T |-> T, lev |-> t.lev, rng |-> t.rng]

LEMMA KidsAre ==
    ASSUME NEW f, NEW t, NEW m, Forest(f, t, m), NEW q \in t.T
    PROVE  /\ f[q].kids \in Seq(Nat) /\ DOMAIN f[q].kids = 1..Len(f[q].kids)
           /\ t.lev[q] = 0 => f[q].kids = <<>>
           /\ t.lev[q] > 0 => /\ Divides(f[q].keys, f[q].kids, t.rng[q], t.lev[q], t)
                              /\ ToSet(f[q].kids) \subseteq t.T
                              /\ \A x \in ToSet(f[q].kids) : t.lev[x] = t.lev[q] - 1
  <1>1. NodeOK(f[q], t.lev[q], t.rng[q], t, m)
    BY DEF Forest
  <1>2. f[q].kids \in Seq(Nat) /\ t.lev[q] = 0 => f[q].kids = <<>>
    BY <1>1 DEF NodeOK, LeafOK
  <1>3. f[q].kids \in Seq(Nat)
    BY <1>1 DEF NodeOK, Node
  <1>4. DOMAIN f[q].kids = 1..Len(f[q].kids)
    BY <1>3
  <1>5. ASSUME t.lev[q] > 0
        PROVE  /\ Divides(f[q].keys, f[q].kids, t.rng[q], t.lev[q], t)
               /\ \A x \in ToSet(f[q].kids) : x \in t.T /\ t.lev[x] = t.lev[q] - 1
    <2>1. Divides(f[q].keys, f[q].kids, t.rng[q], t.lev[q], t)
      BY <1>1, <1>5 DEF NodeOK, InnerOK
    <2>2. \A i \in 1..Len(f[q].kids) : f[q].kids[i] \in t.T /\ t.lev[f[q].kids[i]] = t.lev[q] - 1
      BY <2>1 DEF Divides, Has
    <2>3. \A x \in ToSet(f[q].kids) : \E i \in 1..Len(f[q].kids) : x = f[q].kids[i]
      BY <1>4 DEF ToSet
    <2> QED BY <2>1, <2>2, <2>3
  <1> QED BY <1>2, <1>3, <1>4, <1>5

\* Reach stays in the tree and is closed: it is a forest of its own.
LEMMA ReachIs ==
    ASSUME NEW f \in Seq(Node), NEW t, NEW m, Forest(f, t, m), NEW p \in t.T
    PROVE  /\ p \in Reach(f, p) /\ Reach(f, p) \subseteq t.T
           /\ Forest(f, Only(t, Reach(f, p)), m)
  <1> DEFINE n == Len(f)
             kids(S) == UNION {ToSet(f[q].kids) : q \in S}
             Body(g) == [j \in 0..n |-> IF j = 0 THEN {p} \ {Null}
                            ELSE LET S == g[j - 1] IN S \cup UNION {ToSet(f[q].kids) : q \in S}]
             X == SUBSET t.T
             F == [x \in X \X (1..n) |-> x[1] \cup kids(x[1])]
             down == CHOOSE g : g = Body(g)
  <1>1. n \in Nat /\ t.T \subseteq 1..n /\ p # Null
    <2>1. n \in Nat /\ DOMAIN f = 1..n
      OBVIOUS
    <2> QED BY <2>1 DEF Forest, Null
  <1>2. \A q \in t.T : ToSet(f[q].kids) \subseteq t.T
    <2> SUFFICES ASSUME NEW q \in t.T PROVE ToSet(f[q].kids) \subseteq t.T
      OBVIOUS
    <2>1. t.lev[q] \in Nat
      BY TypeOfPage
    <2>2. CASE t.lev[q] = 0
      BY <2>2, KidsAre DEF ToSet
    <2>3. CASE t.lev[q] > 0
      BY <2>3, KidsAre
    <2> QED BY <2>1, <2>2, <2>3
  <1>3. \A S \in X : S \cup kids(S) \in X
    BY <1>2
  <1> HIDE DEF kids
  <1>4. F \in [X \X (1..n) -> X]
    <2>1. \A x \in X \X (1..n) : x[1] \cup kids(x[1]) \in X
      BY <1>3
    <2> QED BY <2>1
  <1>5. {p} \ {Null} = {p} /\ {p} \in X
    BY <1>1
  <1> HIDE DEF X
  <1>6. PICK g : /\ g = [j \in 0..n |-> IF j = 0 THEN {p} ELSE F[<<g[j - 1], j>>]]
                 /\ \A j \in 0..n : g[j] \in X
    <2> HIDE DEF F, n
    <2>1. \E g : Iteration(g, X, {p}, n, F)
      BY <1>1, <1>4, <1>5, Fixpoint
    <2> QED BY <2>1 DEF Iteration
  <1>7. g = Body(g)
    <2>1. ASSUME NEW j \in 0..n, j # 0
          PROVE  F[<<g[j - 1], j>>] = g[j - 1] \cup UNION {ToSet(f[q].kids) : q \in g[j - 1]}
      <3>1. j \in 1..n /\ j - 1 \in 0..n
        BY <1>1, <2>1
      <3>2. g[j - 1] \in X
        BY <1>6, <3>1
      <3>3. F[<<g[j - 1], j>>] = g[j - 1] \cup kids(g[j - 1])
        BY <3>1, <3>2
      <3> QED BY <3>3 DEF kids
    <2> HIDE DEF F
    <2>2. Body(g) = [j \in 0..n |-> IF j = 0 THEN {p} ELSE F[<<g[j - 1], j>>]]
      BY <1>5, <2>1
    <2> HIDE DEF Body
    <2> QED BY <1>6, <2>2
  <1>8. down = Body(down)
    <2> HIDE DEF Body
    <2> QED BY <1>7
  <1>9. down[0] = {p} /\ \A j \in 1..n : down[j] = down[j - 1] \cup kids(down[j - 1])
    <2> HIDE DEF down
    <2>1. \A j \in 0..n : down[j] = IF j = 0 THEN {p} \ {Null}
                 ELSE down[j - 1] \cup UNION {ToSet(f[q].kids) : q \in down[j - 1]}
      BY <1>8
    <2>2. 0 \in 0..n /\ \A j \in 1..n : j \in 0..n /\ j # 0
      BY <1>1
    <2> QED BY <1>5, <2>1, <2>2 DEF kids
  <1>10. Reach(f, p) = down[n]
    BY DEF Reach
  <1> HIDE DEF down, F
  <1> DEFINE d == t.lev[p]
             Shut(j) == /\ p \in down[j] /\ down[j] \subseteq t.T
                        /\ \A q \in down[j] : t.lev[q] > d - j => ToSet(f[q].kids) \subseteq down[j]
             U == {j \in 0..n : Shut(j)}
  <1>11. 0 \in U
    <2>1. d \in Nat
      BY TypeOfPage
    <2> QED BY <1>1, <1>9, <2>1
  <1>12. ASSUME NEW j \in 1..n, j - 1 \in U PROVE j \in U
    <2> DEFINE S == down[j - 1]
    <2>0. p \in S /\ S \subseteq t.T
          /\ \A q \in S : t.lev[q] > d - (j - 1) => ToSet(f[q].kids) \subseteq S
      BY <1>12
    <2>1. down[j] = S \cup kids(S)
      BY <1>9
    <2>2. \A q \in S : ToSet(f[q].kids) \subseteq down[j]
      BY <2>1 DEF kids
    <2>3. down[j] \subseteq t.T
      BY <1>2, <2>0, <2>1 DEF kids
    <2>4. ASSUME NEW q \in down[j], t.lev[q] > d - j PROVE ToSet(f[q].kids) \subseteq down[j]
      <3>1. CASE q \in S
        BY <2>2, <3>1
      <3>2. CASE q \notin S
        <4>1. PICK x \in S : q \in ToSet(f[x].kids)
          BY <2>1, <3>2 DEF kids
        <4>2. t.lev[x] \in Nat /\ t.lev[q] \in Nat /\ d \in Nat
          BY <2>0, <2>3, TypeOfPage
        <4>3. t.lev[x] # 0
          BY <2>0, <4>1, KidsAre DEF ToSet
        <4>4. t.lev[q] = t.lev[x] - 1
          BY <2>0, <4>1, <4>2, <4>3, KidsAre
        <4>5. t.lev[x] > d - (j - 1)
          BY <2>4, <4>2, <4>4
        <4>6. q \in S
          BY <2>0, <4>1, <4>5
        <4> QED BY <3>2, <4>6
      <3> QED BY <3>1, <3>2
    <2>5. p \in down[j]
      BY <2>0, <2>1
    <2> QED BY <1>1, <2>3, <2>4, <2>5
  <1>13. 0..n \subseteq U
    <2> HIDE DEF U
    <2> QED BY <1>1, <1>11, <1>12, UpTo
  <1>14. Shut(n)
    BY <1>1, <1>13
  <1>15. d \in Nat /\ d < n
    <2>1. NodeOK(f[p], t.lev[p], t.rng[p], t, m)
      BY DEF Forest
    <2>2. PICK k : k \in t.rng[p]
      BY <2>1 DEF NodeOK
    <2>3. Way(Descent(f, p, k), f, p, k)
      BY <2>2, DescentWalks
    <2> QED BY <2>2, <2>3, FewLevels
  <1> DEFINE T == down[n]
  <1>16. p \in T /\ T \subseteq t.T /\ \A q \in T : ToSet(f[q].kids) \subseteq T
    <2>1. \A q \in T : t.lev[q] > d - n
      <3> TAKE q \in T
      <3>1. t.lev[q] \in Nat
        BY <1>14, TypeOfPage
      <3> QED BY <1>1, <1>15, <3>1
    <2> QED BY <1>14, <2>1
  <1> HIDE DEF T, Shut, U
  <1>17. Forest(f, Only(t, T), m)
    <2> DEFINE t1 == Only(t, T)
    <2>1. t1.T = T /\ t1.lev = t.lev /\ t1.rng = t.rng
      BY DEF Only
    <2> HIDE DEF t1
    <2>2. ASSUME NEW q \in T PROVE NodeOK(f[q], t.lev[q], t.rng[q], t1, m)
      <3>1. NodeOK(f[q], t.lev[q], t.rng[q], t, m)
        BY <1>16 DEF Forest
      <3>2. DOMAIN f[q].kids = 1..Len(f[q].kids)
        BY <1>16, KidsAre
      <3>3. ASSUME Divides(f[q].keys, f[q].kids, t.rng[q], t.lev[q], t)
            PROVE  Divides(f[q].keys, f[q].kids, t.rng[q], t.lev[q], t1)
        <4>1. ASSUME NEW i \in 1..Len(f[q].kids)
              PROVE  Has(t1, f[q].kids[i], t.lev[q] - 1, Part(f[q].keys, t.rng[q], i))
          <5>1. f[q].kids[i] \in T
            BY <1>16, <3>2 DEF ToSet
          <5>2. Has(t, f[q].kids[i], t.lev[q] - 1, Part(f[q].keys, t.rng[q], i))
            BY <3>3 DEF Divides
          <5> QED BY <2>1, <5>1, <5>2 DEF Has
        <4> QED BY <3>3, <4>1 DEF Divides
      <3> QED BY <3>1, <3>3 DEF NodeOK, InnerOK
    <2>3. T \subseteq DOMAIN f
      BY <1>16 DEF Forest
    <2>4. \A q \in t1.T : NodeOK(f[q], t1.lev[q], t1.rng[q], t1, m)
      BY <2>1, <2>2
    <2>5. Forest(f, t1, m)
      BY <2>1, <2>3, <2>4 DEF Forest
    <2> QED BY <2>5 DEF t1
  <1> QED BY <1>10, <1>16, <1>17 DEF T

\* No page is below no page.
LEMMA ReachNull ==
    ASSUME NEW f \in Seq(Node)
    PROVE  Reach(f, Null) = {}
  <1> DEFINE n == Len(f)
             Body(g) == [j \in 0..n |-> IF j = 0 THEN {Null} \ {Null}
                            ELSE LET S == g[j - 1] IN S \cup UNION {ToSet(f[q].kids) : q \in S}]
             g0 == [j \in 0..n |-> {}]
             down == CHOOSE g : g = Body(g)
  <1>1. n \in Nat
    OBVIOUS
  <1>2. g0 = Body(g0)
    <2>1. ASSUME NEW j \in 0..n, j # 0
          PROVE  g0[j - 1] \cup UNION {ToSet(f[q].kids) : q \in g0[j - 1]} = {}
      <3>1. j - 1 \in 0..n
        BY <1>1, <2>1
      <3>2. g0[j - 1] = {}
        BY <3>1
      <3> HIDE DEF g0
      <3> QED BY <3>2
    <2>2. Body(g0) = [j \in 0..n |-> {}]
      <3> HIDE DEF g0
      <3> QED BY <2>1
    <2> QED BY <2>2
  <1>3. down = Body(down)
    <2> HIDE DEF Body, g0
    <2> QED BY <1>2
  <1>4. /\ 0 \in 0..n => down[0] = {}
        /\ \A j \in 1..n : down[j] = down[j - 1] \cup UNION {ToSet(f[q].kids) : q \in down[j - 1]}
    <2> HIDE DEF down
    <2>1. \A j \in 0..n : down[j] = IF j = 0 THEN {Null} \ {Null}
                 ELSE down[j - 1] \cup UNION {ToSet(f[q].kids) : q \in down[j - 1]}
      BY <1>3
    <2>2. \A j \in 1..n : j \in 0..n /\ j # 0
      BY <1>1
    <2> QED BY <2>1, <2>2
  <1>5. Reach(f, Null) = down[n]
    BY DEF Reach
  <1> HIDE DEF down
  <1>6. down[0] \in {{}}
    BY <1>1, <1>4
  <1>7. \A j \in 1..n : down[j - 1] \in {{}} => down[j] \in {{}}
    <2> SUFFICES ASSUME NEW j \in 1..n, down[j - 1] = {} PROVE down[j] = {}
      OBVIOUS
    <2> QED BY <1>4
  <1>8. \A j \in 0..n : down[j] \in {{}}
    <2> HIDE DEF n
    <2> QED BY <1>1, <1>6, <1>7, StaysIn
  <1> QED BY <1>1, <1>5, <1>8

-----------------------------------------------------------------------------
(* insert and delete                                                       *)

\* The pages of t that a descent for k does not pass
Beside(t, k) == {x \in t.T : k \notin t.rng[x]}

LEMMA BesideIs ==
    ASSUME NEW f, NEW t, NEW m \in Maps, Forest(f, t, m), NEW k \in Key, NEW v
    PROVE  Forest(f, Only(t, Beside(t, k)), [m EXCEPT ![k] = v])
  <1> DEFINE T == Beside(t, k)
             t1 == Only(t, T)
             m1 == [m EXCEPT ![k] = v]
  <1>1. t1.T = T /\ t1.lev = t.lev /\ t1.rng = t.rng
    BY DEF Only
  <1>2. \A x \in Key : x # k => m1[x] = m[x]
    BY DEF Maps
  <1> HIDE DEF t1, m1
  <1>3. T \subseteq t.T /\ \A x \in t.T : x \in T <=> k \notin t.rng[x]
    BY DEF Beside
  <1> HIDE DEF T
  <1>4. ASSUME NEW q \in T PROVE NodeOK(f[q], t.lev[q], t.rng[q], t1, m1)
    <2>1. NodeOK(f[q], t.lev[q], t.rng[q], t, m) /\ k \notin t.rng[q]
      BY <1>3 DEF Forest
    <2>2. t.rng[q] \subseteq Key
      BY <2>1 DEF NodeOK
    <2> DEFINE R == t.rng[q]
    <2>3. \A x \in R : m1[x] = m[x]
      BY <1>2, <2>1, <2>2
    <2>4. ASSUME LeafOK(f[q], R, m) PROVE LeafOK(f[q], R, m1)
      <3>1. /\ \A i \in 1..Len(f[q].keys) : f[q].keys[i] \in R /\ m[f[q].keys[i]] = f[q].vals[i]
            /\ \A x \in R : m[x] # None => \E i \in 1..Len(f[q].keys) : f[q].keys[i] = x
        BY <2>4 DEF LeafOK, Holds
      <3>2. \A i \in 1..Len(f[q].keys) : f[q].keys[i] \in R /\ m1[f[q].keys[i]] = f[q].vals[i]
        BY <2>3, <3>1
      <3>3. \A x \in R : m1[x] # None => \E i \in 1..Len(f[q].keys) : f[q].keys[i] = x
        BY <2>3, <3>1
      <3> HIDE DEF R
      <3> QED BY <2>4, <3>2, <3>3 DEF LeafOK, Holds
    <2>5. ASSUME Divides(f[q].keys, f[q].kids, R, t.lev[q], t)
          PROVE  Divides(f[q].keys, f[q].kids, R, t.lev[q], t1)
      <3>1. ASSUME NEW i \in 1..Len(f[q].kids)
            PROVE  Has(t1, f[q].kids[i], t.lev[q] - 1, Part(f[q].keys, R, i))
        <4>1. Has(t, f[q].kids[i], t.lev[q] - 1, Part(f[q].keys, R, i))
          BY <2>5 DEF Divides
        <4>2. k \notin Part(f[q].keys, R, i)
          BY <2>1 DEF Part
        <4>3. f[q].kids[i] \in T
          BY <1>3, <4>1, <4>2 DEF Has
        <4> QED BY <1>1, <4>1, <4>3 DEF Has
      <3> QED BY <2>5, <3>1 DEF Divides
    <2> HIDE DEF R
    <2>6. NodeOK(f[q], t.lev[q], R, t, m)
      BY <2>1 DEF R
    <2>7. NodeOK(f[q], t.lev[q], R, t1, m1)
      BY <2>4, <2>5, <2>6 DEF NodeOK, InnerOK
    <2> QED BY <2>7 DEF R
  <1>5. T \subseteq DOMAIN f
    BY <1>3 DEF Forest
  <1>6. \A q \in t1.T : NodeOK(f[q], t1.lev[q], t1.rng[q], t1, m1)
    BY <1>1, <1>4
  <1>7. Forest(f, t1, m1)
    BY <1>1, <1>5, <1>6 DEF Forest
  <1> QED BY <1>7 DEF t1, m1, T

\* A page of the file is in the tree, on the freelist, or neither.
Apart(T, c) == \A i \in 1..Len(c) : c[i] \notin T

\* The tree at the page p is a forest that has the map m.
Tree(f, t, p, m) ==
    /\ Forest(f, t, m)
    /\ p = Null => t.T = {} /\ \A x \in Key : m[x] = None
    /\ p # Null => p \in t.T /\ t.rng[p] = Key

Store(t, c) ==
    /\ pages \in Seq(Node) /\ map \in Maps
    /\ Chain(pages, c, hdr.free) /\ Tree(pages, t, hdr.root, map) /\ Apart(t.T, c)

\* An operation on k starts from the pages beside its way.
Starts(s, t, c, k, m) ==
    /\ Kept(Beside(t, k), pages, c) /\ s.frees = <<>>
    /\ Built(s, Beside(t, k), t, pages, c, pages, Only(t, Beside(t, k)), m)

LEMMA StartIs ==
    ASSUME NEW t, NEW c, Store(t, c), NEW k \in Key, NEW v
    PROVE  Starts(NoPlan, t, c, k, [map EXCEPT ![k] = v])
  <1> DEFINE s == NoPlan
             K == Beside(t, k)
             m == [map EXCEPT ![k] = v]
  <1>1. /\ pages \in Seq(Node) /\ map \in Maps /\ FreePages(c, Len(pages)) /\ Forest(pages, t, map)
        /\ Apart(t.T, c) /\ FreeChain(pages, hdr.free) = c
    <2>1. /\ pages \in Seq(Node) /\ map \in Maps /\ Chain(pages, c, hdr.free)
          /\ Tree(pages, t, hdr.root, map) /\ Apart(t.T, c)
      BY DEF Store
    <2>2. FreeChain(pages, hdr.free) = c
      BY <2>1, ChainIs
    <2> QED BY <2>1, <2>2 DEF Chain, Tree
  <1>2. s = [avail |-> c, count |-> Len(pages), writes |-> <<>>, frees |-> <<>>]
    BY <1>1 DEF NoPlan
  <1> HIDE DEF s
  <1>3. Len(c) \in Nat /\ c \in Seq(Nat) /\ Len(pages) \in Nat
    <2>1. Len(pages) \in Nat
      BY <1>1
    <2>2. c \in Seq(1..Len(pages)) /\ 1..Len(pages) \subseteq Nat
      BY <1>1 DEF FreePages
    <2>3. c \in Seq(Nat)
      BY <2>2, SeqMonotonic
    <2> QED BY <2>1, <2>3
  <1>4. s.frees = <<>> /\ s.writes = <<>> /\ s.avail = c /\ s.count = Len(pages)
    BY <1>2
  <1>5. s \in Plan
    <2>1. <<>> \in Seq(Written1) /\ <<>> \in Seq(Nat)
      BY EmptySeq
    <2> HIDE DEF Written1
    <2> QED BY <1>2, <1>3, <2>1 DEF Plan
  <1>6. Fits(s, pages, c, pages)
    <2>1. <<>> \in Seq(Written1) /\ Len(<<>>) = 0
      BY EmptySeq
    <2>2. Pending(<<>>, pages, c, pages)
      <3> HIDE DEF Written1
      <3> QED BY <1>1, <1>3, <2>1 DEF Pending
    <2> QED BY <1>3, <1>4, <1>5, <2>1, <2>2 DEF Fits
  <1>7. New(s.writes) = {}
    BY <1>4 DEF New
  <1>8. Kept(K, pages, c) /\ K \subseteq t.T
    <2>1. K \subseteq t.T
      BY DEF Beside
    <2>2. DOMAIN pages = 1..Len(pages)
      BY <1>1
    <2> QED BY <1>1, <2>1, <2>2 DEF Kept, Apart, Forest
  <1>9. Forest(pages, Only(t, K), m)
    BY <1>1, BesideIs
  <1>10. Only(t, K).T = K /\ \A p \in K : Has(Only(t, K), p, t.lev[p], t.rng[p])
    BY DEF Only, Has
  <1> HIDE DEF K, m
  <1>11. Built(s, K, t, pages, c, pages, Only(t, K), m)
    BY <1>6, <1>7, <1>9, <1>10 DEF Built
  <1> QED BY <1>4, <1>8, <1>11 DEF Starts, K, m, s

\* What has been done on the way from the leaf up to its j-th page
Lifted(r, j, at, d, K, t, c, m, split) ==
    /\ Len(r.plan.frees) = j + 1
    /\ \A i \in 1..(j + 1) : r.plan.frees[i] = at[d + 1 - i]
    /\ \E G, t2 : Built(r.plan, K, t, pages, c, G, t2, m) /\ Outcome(r, t2, j, t.rng[at[d - j]])
    /\ r.split => split

\* The way from the root to the leaf of k
OnWay(at, d, t, k) ==
    /\ d \in Nat
    /\ \A n \in 0..d : at[n] \in t.T /\ k \in t.rng[at[n]] /\ t.lev[at[n]] = d - n
    /\ \A n \in 1..d : at[n] = pages[at[n - 1]].kids[child_idx(pages[at[n - 1]], k)]

LEMMA LiftOne ==
    ASSUME pages \in Seq(Node), NEW c, FreePages(c, Len(pages)), NEW t, NEW m0, Forest(pages, t, m0),
           NEW k, NEW K, K = Beside(t, k), Kept(K, pages, c), NEW m,
           NEW at, NEW d, OnWay(at, d, t, k), NEW split, NEW j \in 1..d,
           NEW r, Lifted(r, j - 1, at, d, K, t, c, m, split)
    PROVE  Lifted(Above(at[d - j], k, r), j, at, d, K, t, c, m, split)
  <1> DEFINE p == at[d - j]
             R == t.rng[p]
             out == Above(p, k, r)
  <1>1. d \in Nat /\ j \in Nat /\ d - j \in 0..d /\ d - j + 1 \in 1..d /\ d - (j - 1) = d - j + 1
        /\ (d - j + 1) - 1 = d - j /\ d - (d - j) = j
    BY DEF OnWay
  <1>2. p \in t.T /\ k \in t.rng[p] /\ t.lev[p] = j
    BY <1>1 DEF OnWay
  <1>3. at[d - (j - 1)] = pages[p].kids[child_idx(pages[p], k)]
    BY <1>1 DEF OnWay
  <1>4. t.rng[at[d - (j - 1)]] = Part(pages[p].keys, R, child_idx(pages[p], k))
    <2>1. j > 0
      OBVIOUS
    <2>2. Divides(pages[p].keys, pages[p].kids, R, j, t)
      BY <1>1, <1>2, <2>1, KidsAre
    <2>3. child_idx(pages[p], k) \in 1..Len(pages[p].kids)
      BY <1>2, <2>1, ChildOf
    <2> QED BY <1>3, <2>2, <2>3 DEF Divides, Has
  <1>5. PICK G, t2 : /\ Built(r.plan, K, t, pages, c, G, t2, m)
                     /\ Outcome(r, t2, j - 1, t.rng[at[d - (j - 1)]])
    BY DEF Lifted
  <1>6. Outcome(r, t2, j - 1, Part(pages[p].keys, R, child_idx(pages[p], k)))
    BY <1>4, <1>5
  <1>7. \A x \in t.T : k \notin t.rng[x] => x \in K
    BY DEF Beside
  <1>8. j > 0 /\ j = t.lev[p] /\ R = t.rng[p]
    BY <1>2
  <1> HIDE DEF p, R
  <1>9. /\ Rises(Above(p, k, r), r.plan, p, K, t, pages, c, j, R, m)
        /\ ~r.split => ~Above(p, k, r).split
    BY <1>2, <1>5, <1>6, <1>7, <1>8, AboveRises
  <1> HIDE DEF out
  <1>10. /\ out.plan.frees = Append(r.plan.frees, p)
         /\ \E G2, t3 : Built(out.plan, K, t, pages, c, G2, t3, m) /\ Outcome(out, t3, j, R)
    BY <1>9 DEF Rises, out
  <1>11. out.split => split
    BY <1>9 DEF Lifted, out
  <1>12. /\ Len(out.plan.frees) = j + 1
         /\ \A i \in 1..(j + 1) : out.plan.frees[i] = at[d + 1 - i]
    <2> DEFINE fr == r.plan.frees
    <2>1. fr \in Seq(Nat) /\ Len(fr) = j /\ \A i \in 1..j : fr[i] = at[d + 1 - i]
      <3>1. fr \in Seq(Nat)
        BY <1>5 DEF Built, Fits, Plan
      <3>2. (j - 1) + 1 = j
        OBVIOUS
      <3> QED BY <3>1, <3>2 DEF Lifted
    <2>2. p \in Nat
      BY <1>2 DEF Forest
    <2> HIDE DEF fr
    <2>3. Len(Append(fr, p)) = j + 1 /\ Append(fr, p)[j + 1] = p /\ \A i \in 1..j : Append(fr, p)[i] = fr[i]
      BY <2>1, <2>2
    <2>4. d + 1 - (j + 1) = d - j
      BY <1>1
    <2>5. out.plan.frees = Append(fr, p)
      BY <1>10 DEF fr
    <2>6. \A i \in 1..(j + 1) : out.plan.frees[i] = at[d + 1 - i]
      <3> TAKE i \in 1..(j + 1)
      <3>1. CASE i = j + 1
        BY <2>3, <2>4, <2>5, <3>1 DEF p
      <3>2. CASE i # j + 1
        <4>1. i \in 1..j
          BY <3>2
        <4> QED BY <2>1, <2>3, <2>5, <4>1
      <3> QED BY <3>1, <3>2
    <2> QED BY <2>3, <2>5, <2>6
  <1>13. Lifted(out, j, at, d, K, t, c, m, split)
    BY <1>10, <1>11, <1>12 DEF Lifted, R, p
  <1> QED BY <1>13 DEF out, p

Climbs(up, at, d, k, leaf) ==
    /\ up[0] = leaf /\ up[d] = Climb(at, d, k, leaf)
    /\ \A j \in 1..d : up[j] = Above(at[d - j], k, up[j - 1])

LEMMA ClimbIs ==
    ASSUME NEW at, NEW d \in Nat, NEW k, NEW leaf
    PROVE  \E up : Climbs(up, at, d, k, leaf)
  <1> DEFINE Body(g, n) == [j \in 0..n |-> IF j = 0 THEN leaf ELSE Above(at[d - j], k, g[j - 1])]
             U == {n \in 0..d : \E g : g = Body(g, n)}
             up == CHOOSE g : g = Body(g, d)
  <1>1. 0 \in U
    <2> DEFINE g == [j \in 0..0 |-> leaf]
    <2>1. g = Body(g, 0)
      <3>1. \A j \in 0..0 : j = 0
        OBVIOUS
      <3>2. Body(g, 0) = [j \in 0..0 |-> leaf]
        <4> HIDE DEF g
        <4> QED BY <3>1
      <3> QED BY <3>2
    <2> HIDE DEF g, Body
    <2> QED BY <2>1
  <1>2. ASSUME NEW n \in 1..d, n - 1 \in U PROVE n \in U
    <2>1. PICK g : g = Body(g, n - 1)
      BY <1>2
    <2>2. \A j \in 0..(n - 1) : g[j] = IF j = 0 THEN leaf ELSE Above(at[d - j], k, g[j - 1])
      BY <2>1
    <2> DEFINE h == [j \in 0..n |-> IF j = n THEN Above(at[d - n], k, g[n - 1]) ELSE g[j]]
    <2>3. \A j \in 0..n : h[j] = IF j = 0 THEN leaf ELSE Above(at[d - j], k, h[j - 1])
      <3> TAKE j \in 0..n
      <3>1. CASE j = n
        <4>1. n - 1 \in 0..n /\ n - 1 # n /\ n # 0 /\ n \in 0..n
          OBVIOUS
        <4>2. h[n - 1] = g[n - 1] /\ h[n] = Above(at[d - n], k, g[n - 1])
          BY <4>1
        <4> HIDE DEF h
        <4> QED BY <3>1, <4>1, <4>2
      <3>2. CASE j # n /\ j # 0
        <4>1. j \in 0..(n - 1) /\ j - 1 \in 0..n /\ j - 1 # n
          BY <3>2
        <4>2. h[j] = g[j] /\ h[j - 1] = g[j - 1]
          BY <3>2, <4>1
        <4> HIDE DEF h
        <4> QED BY <2>2, <3>2, <4>1, <4>2
      <3>3. CASE j # n /\ j = 0
        <4>1. h[j] = g[j] /\ j \in 0..(n - 1)
          BY <3>3
        <4> HIDE DEF h
        <4> QED BY <2>2, <3>3, <4>1
      <3> QED BY <3>1, <3>2, <3>3
    <2>4. h = [j \in 0..n |-> h[j]]
      OBVIOUS
    <2> HIDE DEF h
    <2>5. h = Body(h, n)
      BY <2>3, <2>4
    <2> HIDE DEF Body
    <2> QED BY <2>5
  <1>3. \E g : g = Body(g, d)
    <2>1. 0..d \subseteq U
      <3> HIDE DEF U
      <3> QED BY <1>1, <1>2, UpTo
    <2> HIDE DEF Body
    <2> QED BY <2>1
  <1>4. up = Body(up, d)
    <2> HIDE DEF Body
    <2> QED BY <1>3
  <1>5. up[d] = Climb(at, d, k, leaf)
    BY DEF Climb
  <1> HIDE DEF up
  <1>6. \A j \in 0..d : up[j] = IF j = 0 THEN leaf ELSE Above(at[d - j], k, up[j - 1])
    BY <1>4
  <1>7. up[0] = leaf /\ \A j \in 1..d : up[j] = Above(at[d - j], k, up[j - 1])
    <2>1. 0 \in 0..d /\ \A j \in 1..d : j \in 0..d /\ j # 0
      OBVIOUS
    <2> QED BY <1>6, <2>1
  <1> QED BY <1>5, <1>7 DEF Climbs

LEMMA ClimbRises ==
    ASSUME pages \in Seq(Node), NEW c, FreePages(c, Len(pages)), NEW t, NEW m0, Forest(pages, t, m0),
           NEW k, NEW K, K = Beside(t, k), Kept(K, pages, c), NEW m,
           NEW at, NEW d, OnWay(at, d, t, k), NEW split,
           NEW leaf, Lifted(leaf, 0, at, d, K, t, c, m, split)
    PROVE  Lifted(Climb(at, d, k, leaf), d, at, d, K, t, c, m, split)
  <1>1. d \in Nat
    BY DEF OnWay
  <1>0. PICK up : Climbs(up, at, d, k, leaf)
    BY <1>1, ClimbIs
  <1>2. /\ up[0] = leaf /\ up[d] = Climb(at, d, k, leaf)
        /\ \A j \in 1..d : up[j] = Above(at[d - j], k, up[j - 1])
    BY <1>0 DEF Climbs
  <1> DEFINE U == {j \in 0..d : Lifted(up[j], j, at, d, K, t, c, m, split)}
  <1>3. 0 \in U
    BY <1>1, <1>2
  <1>4. ASSUME NEW j \in 1..d, j - 1 \in U PROVE j \in U
    <2>1. Lifted(up[j - 1], j - 1, at, d, K, t, c, m, split)
      BY <1>4
    <2>2. Lifted(Above(at[d - j], k, up[j - 1]), j, at, d, K, t, c, m, split)
      BY <2>1, LiftOne
    <2>3. j \in 0..d
      BY <1>1
    <2> QED BY <1>2, <2>2, <2>3
  <1>5. 0..d \subseteq U
    <2> HIDE DEF U
    <2> QED BY <1>1, <1>3, <1>4, UpTo
  <1>6. d \in 0..d
    BY <1>1
  <1> QED BY <1>2, <1>5, <1>6

\* The pages fr may be given back: they are neither in T nor on the freelist.
Releases(fr, f, T, c) ==
    /\ fr \in Seq(1..Len(f)) /\ Distinct(fr) /\ Apart(T, fr)
    /\ \A i \in 1..Len(fr) : Apart({fr[i]}, c)

\* The pages of t2 are not among those of c the writes ws leave there.
Takes(ws, c, t2) == \A j \in 1..Len(c) : j > Len(ws) => c[j] \notin t2.T

\* The writes ws build a tree at root that has the map m.
Plans(ws, fr, root, m, f, c, G, t2) ==
    /\ Pending(ws, f, c, G) /\ Tree(G, t2, root, m) /\ root # Null
    /\ Takes(ws, c, t2) /\ Releases(fr, f, t2.T, c)

Planned(ws, fr, root, m, f, c) == \E G, t2 : Plans(ws, fr, root, m, f, c, G, t2)

\* The pages that go are on the way of k, each one once.
Gone(fr, t, k) ==
    Distinct(fr) /\ \A i \in 1..Len(fr) : fr[i] \in t.T /\ k \in t.rng[fr[i]]

LEMMA SeqMapped ==
    ASSUME NEW V, NEW s \in Seq(V), NEW W, \A i \in 1..Len(s) : s[i] \in W
    PROVE  s \in Seq(W)
  <1>1. Len(s) \in Nat /\ s \in [1..Len(s) -> V]
    BY LenProperties
  <1>2. s \in [1..Len(s) -> W]
    BY <1>1
  <1> QED BY <1>1, <1>2, SeqDef

LEMMA BuiltIsPlanned ==
    ASSUME NEW t, NEW c, Store(t, c), NEW k, NEW K, K = Beside(t, k), NEW m,
           NEW s, NEW G, NEW t2, Built(s, K, t, pages, c, G, t2, m),
           NEW root, root \in t2.T, t2.rng[root] = Key, Gone(s.frees, t, k)
    PROVE  Planned(s.writes, s.frees, root, m, pages, c)
  <1> DEFINE n == Len(pages)
             ws == s.writes
             fr == s.frees
  <1>1. /\ FreePages(c, n) /\ n \in Nat /\ t.T \subseteq 1..n
        /\ \A i \in 1..Len(c) : c[i] \notin t.T
    <2>1. n \in Nat /\ DOMAIN pages = 1..n
      BY DEF Store
    <2> QED BY <2>1 DEF Store, Chain, Tree, Forest, Apart
  <1>2. /\ Fits(s, pages, c, G) /\ Forest(G, t2, m) /\ t2.T = K \cup New(ws)
        /\ K \subseteq t.T /\ \A x \in t.T : k \in t.rng[x] => x \notin K
    BY DEF Built, Beside
  <1>3. /\ Pending(ws, pages, c, G) /\ ws \in Seq(Written1) /\ fr \in Seq(Nat)
        /\ \A j \in 1..Len(ws) : ws[j].page = Supply(c, n, j)
    BY <1>2 DEF Fits, Pending, Plan
  <1>4. Len(ws) \in Nat /\ Len(c) \in Nat /\ Len(fr) \in Nat
    BY <1>1, <1>3 DEF FreePages
  <1>5. \A x \in New(ws) : \E j \in Nat : j > 0 /\ j <= Len(ws) /\ x = Supply(c, n, j)
    BY <1>3, <1>4 DEF New
  <1>6. \A x \in New(ws) : x \notin t.T
    <2> SUFFICES ASSUME NEW x \in New(ws), x \in t.T PROVE FALSE
      OBVIOUS
    <2>1. PICK j \in Nat : j > 0 /\ x = Supply(c, n, j)
      BY <1>5
    <2>2. /\ j <= Len(c) => j \in 1..Len(c) /\ x = c[j]
          /\ j > Len(c) => x > n
      BY <1>1, <1>4, <2>1, SupplyIs
    <2>3. CASE j <= Len(c)
      BY <1>1, <2>2, <2>3
    <2>4. CASE j > Len(c)
      BY <1>1, <2>2, <2>4
    <2> QED BY <1>4, <2>3, <2>4
  <1>7. Takes(ws, c, t2)
    <2> SUFFICES ASSUME NEW j \in 1..Len(c), j > Len(ws), c[j] \in t2.T PROVE FALSE
      BY DEF Takes
    <2>1. c[j] \in New(ws)
      BY <1>1, <1>2
    <2>2. PICK i \in Nat : i > 0 /\ i <= Len(ws) /\ c[j] = Supply(c, n, i)
      BY <1>5, <2>1
    <2>3. j \in Nat /\ j > 0 /\ j <= Len(c)
      BY <1>4
    <2>4. Supply(c, n, j) = c[j]
      BY <1>1, <2>3, SupplyIs
    <2>5. i = j
      BY <1>1, <2>2, <2>3, <2>4, SupplyIs
    <2> QED BY <1>4, <2>2, <2>5
  <1>8. Releases(fr, pages, t2.T, c)
    <2>1. \A i \in 1..Len(fr) : fr[i] \in t.T /\ fr[i] \notin t2.T
      BY <1>2, <1>6 DEF Gone
    <2>2. fr \in Seq(1..n)
      <3>1. \A i \in 1..Len(fr) : fr[i] \in 1..n
        BY <1>1, <2>1
      <3> HIDE DEF fr, n
      <3> QED BY <1>3, <3>1, SeqMapped
    <2>3. \A i \in 1..Len(fr) : Apart({fr[i]}, c)
      BY <1>1, <2>1 DEF Apart
    <2> QED BY <2>1, <2>2, <2>3 DEF Releases, Apart, Gone
  <1>9. root # Null
    <2>1. DOMAIN G = 1..Len(G)
      BY <1>3 DEF Pending
    <2> QED BY <1>2, <2>1 DEF Forest, Null
  <1>10. Tree(G, t2, root, m)
    BY <1>2, <1>9 DEF Tree
  <1> QED BY <1>3, <1>7, <1>8, <1>9, <1>10 DEF Planned, Plans

LEMMA LiftedGone ==
    ASSUME NEW r, NEW at, NEW d, NEW K, NEW t, NEW c, NEW m, NEW split, NEW k, OnWay(at, d, t, k),
           Lifted(r, d, at, d, K, t, c, m, split)
    PROVE  Gone(r.plan.frees, t, k)
  <1> DEFINE fr == r.plan.frees
  <1>1. d \in Nat /\ Len(fr) = d + 1 /\ \A i \in 1..(d + 1) : fr[i] = at[d + 1 - i]
    BY DEF Lifted, OnWay
  <1>2. \A i \in 1..(d + 1) : fr[i] \in t.T /\ k \in t.rng[fr[i]] /\ t.lev[fr[i]] = i - 1
    <2> TAKE i \in 1..(d + 1)
    <2>1. d + 1 - i \in 0..d /\ d - (d + 1 - i) = i - 1
      BY <1>1
    <2>2. fr[i] = at[d + 1 - i]
      BY <1>1
    <2> HIDE DEF fr
    <2> QED BY <2>1, <2>2 DEF OnWay
  <1> HIDE DEF fr
  <1>3. Distinct(fr)
    <2> SUFFICES ASSUME NEW i \in 1..Len(fr), NEW j \in 1..Len(fr), fr[i] = fr[j] PROVE i = j
      BY DEF Distinct
    <2>1. i \in 1..(d + 1) /\ j \in 1..(d + 1)
      BY <1>1
    <2>2. t.lev[fr[i]] = i - 1 /\ t.lev[fr[j]] = j - 1
      BY <1>2, <2>1
    <2>3. i - 1 = j - 1
      BY <2>2
    <2> QED BY <1>1, <2>1, <2>3
  <1> QED BY <1>1, <1>2, <1>3 DEF Gone, fr

LEMMA WayIs ==
    ASSUME NEW t, NEW c, Store(t, c), NEW k \in Key, hdr.root # Null,
           NEW at, at = Descent(pages, hdr.root, k), NEW d, d = Depth(pages, at)
    PROVE  /\ OnWay(at, d, t, k) /\ d = t.lev[hdr.root] /\ at[0] = hdr.root
           /\ LeafOK(pages[at[d]], t.rng[at[d]], map) /\ t.rng[at[d]] \subseteq Key
           /\ k \in t.rng[at[d]] /\ at[d] \in Nat
  <1>1. /\ pages \in Seq(Node) /\ Forest(pages, t, map) /\ hdr.root \in t.T /\ k \in t.rng[hdr.root]
    BY DEF Store, Tree
  <1> DEFINE l == t.lev[hdr.root]
  <1>2. /\ l \in Nat /\ d = l /\ at[0] = hdr.root
        /\ \A n \in 0..l : at[n] \in t.T /\ k \in t.rng[at[n]] /\ t.lev[at[n]] = l - n
        /\ \A n \in 1..l : at[n] = pages[at[n - 1]].kids[child_idx(pages[at[n - 1]], k)]
    BY <1>1, TheWay
  <1> HIDE DEF l
  <1>3. OnWay(at, d, t, k)
    BY <1>2 DEF OnWay
  <1>4. at[d] \in t.T /\ t.lev[at[d]] = 0 /\ k \in t.rng[at[d]]
    BY <1>2
  <1>5. LeafOK(pages[at[d]], t.rng[at[d]], map) /\ t.rng[at[d]] \subseteq Key
    BY <1>1, <1>4 DEF Forest, NodeOK
  <1>6. at[d] \in Nat
    BY <1>1, <1>4 DEF Forest
  <1> QED BY <1>2, <1>3, <1>4, <1>5, <1>6 DEF l

\* What the call on the leaf returns is where the climb starts.
LEMMA RisesIsLifted ==
    ASSUME NEW r, NEW s, s.frees = <<>>, NEW at, NEW d \in Nat, NEW K, NEW t, NEW c, NEW m,
           NEW split, r.split => split,
           Rises(r, s, at[d], K, t, pages, c, 0, t.rng[at[d]], m)
    PROVE  Lifted(r, 0, at, d, K, t, c, m, split)
  <1>1. r.plan.frees = <<at[d]>>
    BY DEF Rises
  <1>2. Len(r.plan.frees) = 0 + 1 /\ \A i \in 1..(0 + 1) : r.plan.frees[i] = at[d + 1 - i]
    <2>1. \A i \in 1..(0 + 1) : i = 1 /\ d + 1 - i = d
      OBVIOUS
    <2> QED BY <1>1, <2>1
  <1>3. d - 0 = d
    OBVIOUS
  <1>4. \E G, t2 : Built(r.plan, K, t, pages, c, G, t2, m) /\ Outcome(r, t2, 0, t.rng[at[d - 0]])
    BY <1>3 DEF Rises
  <1> QED BY <1>2, <1>4 DEF Lifted

LEMMA DeletePlanned ==
    ASSUME NEW t, NEW c, Store(t, c), NEW k \in Key, hdr.root # Null,
           get(pages, hdr.root, k) # None
    PROVE  Planned(delete_rec(k).plan.writes, delete_rec(k).plan.frees, delete_rec(k).left,
                   [map EXCEPT ![k] = None], pages, c)
  <1> DEFINE at == Descent(pages, hdr.root, k)
             d == Depth(pages, at)
             s == NoPlan
             K == Beside(t, k)
             m == [map EXCEPT ![k] = None]
             leaf == delete_leaf(s, at[d], k)
             r == Climb(at, d, k, leaf)
  <1>1. /\ OnWay(at, d, t, k) /\ d = t.lev[hdr.root] /\ at[0] = hdr.root
        /\ LeafOK(pages[at[d]], t.rng[at[d]], map) /\ t.rng[at[d]] \subseteq Key
        /\ k \in t.rng[at[d]] /\ at[d] \in Nat
    BY WayIs
  <1>2. /\ pages \in Seq(Node) /\ FreePages(c, Len(pages)) /\ Forest(pages, t, map) /\ map \in Maps
        /\ hdr.root \in t.T /\ t.rng[hdr.root] = Key
    BY DEF Store, Tree, Chain
  <1>3. map[k] # None
    BY <1>2, GetIs
  <1>4. /\ Kept(K, pages, c) /\ s.frees = <<>>
        /\ Built(s, K, t, pages, c, pages, Only(t, K), m)
    BY StartIs DEF Starts
  <1>9. delete_rec(k) = r
    BY DEF delete_rec
  <1> HIDE DEF at, d, s, K
  <1>5. Rises(leaf, s, at[d], K, t, pages, c, 0, t.rng[at[d]], m) /\ ~leaf.split
    BY <1>1, <1>2, <1>3, <1>4, DeleteLeafRises
  <1> HIDE DEF m, leaf
  <1>6. Lifted(leaf, 0, at, d, K, t, c, m, FALSE)
    <2>1. d \in Nat
      BY <1>1 DEF OnWay
    <2> QED BY <1>4, <1>5, <2>1, RisesIsLifted
  <1>7. Lifted(r, d, at, d, K, t, c, m, FALSE)
    <2>1. K = Beside(t, k)
      BY DEF K
    <2> QED BY <1>1, <1>2, <1>4, <1>6, <2>1, ClimbRises
  <1> HIDE DEF r
  <1>8. PICK G, t2 : /\ Built(r.plan, K, t, pages, c, G, t2, m)
                     /\ Outcome(r, t2, d, t.rng[at[d - d]]) /\ ~r.split
    BY <1>7 DEF Lifted
  <1>10. r.left \in t2.T /\ t2.rng[r.left] = Key
    <2>1. d - d = 0
      <3>1. d \in Nat
        BY <1>1 DEF OnWay
      <3> QED BY <3>1
    <2> QED BY <1>1, <1>2, <1>8, <2>1 DEF Outcome, Has
  <1>11. Gone(r.plan.frees, t, k)
    BY <1>1, <1>7, LiftedGone
  <1>12. K = Beside(t, k)
    BY DEF K
  <1>13. Planned(r.plan.writes, r.plan.frees, r.left, m, pages, c)
    BY <1>8, <1>10, <1>11, <1>12, BuiltIsPlanned
  <1> QED BY <1>9, <1>13 DEF m

LEMMA InsertPlanned ==
    ASSUME NEW t, NEW c, Store(t, c), NEW k \in Key, NEW v \in Value
    PROVE  Planned(insert(k, v).plan.writes, insert(k, v).plan.frees, insert(k, v).root,
                   [map EXCEPT ![k] = v], pages, c)
  <1> DEFINE at == Descent(pages, hdr.root, k)
             d == Depth(pages, at)
             s == NoPlan
             K == Beside(t, k)
             m == [map EXCEPT ![k] = v]
  <1>2. /\ pages \in Seq(Node) /\ FreePages(c, Len(pages)) /\ Forest(pages, t, map) /\ map \in Maps
        /\ hdr.root # Null => hdr.root \in t.T /\ t.rng[hdr.root] = Key
        /\ hdr.root = Null => t.T = {} /\ \A x \in Key : map[x] = None
    BY DEF Store, Tree, Chain
  <1>4. /\ Kept(K, pages, c) /\ s.frees = <<>>
        /\ Built(s, K, t, pages, c, pages, Only(t, K), m)
    BY StartIs DEF Starts
  <1>0. K = Beside(t, k)
    OBVIOUS
  <1>20. Key # {} /\ Key \subseteq Key
    OBVIOUS
  <1>3. CASE hdr.root = Null
    <2> DEFINE leaf == Leaf(<<k>>, <<v>>)
               s2 == Write(s, leaf)
    <2>1. Holds(<<k>>, <<v>>, Key, m)
      <3>1. m[k] = v /\ \A x \in Key : x # k => m[x] = None
        BY <1>2, <1>3 DEF Maps
      <3> HIDE DEF m
      <3> QED BY <3>1 DEF Holds, Sorted
    <2>2. NodeOK(leaf, 0, Key, Only(t, K), m)
      <3>1. Len(<<k>>) <= LeafCap
        BY CowTreeAssumption
      <3> HIDE DEF m
      <3> QED BY <1>20, <2>1, <3>1, LeafIsOK
    <2> HIDE DEF leaf, m, K, s
    <2>3. PICK G2, t2 : /\ Built(s2, K, t, pages, c, G2, t2, m)
                        /\ Has(t2, Written(s2), 0, Key) /\ s2.frees = s.frees
      BY <1>2, <1>4, <2>2, AddPage
    <2>4. Gone(s2.frees, t, k)
      BY <1>4, <2>3 DEF Gone, Distinct
    <2>5. insert(k, v) = [plan |-> s2, root |-> Written(s2)]
      BY <1>3 DEF insert, leaf, s
    <2> HIDE DEF s2
    <2>6. Planned(s2.writes, s2.frees, Written(s2), m, pages, c)
      BY <1>0, <2>3, <2>4, BuiltIsPlanned DEF Has
    <2> QED BY <2>5, <2>6 DEF m
  <1>5. CASE hdr.root # Null
    <2> DEFINE leaf == insert_leaf(s, at[d], k, v)
               r == Climb(at, d, k, leaf)
    <2>1. /\ OnWay(at, d, t, k) /\ d = t.lev[hdr.root] /\ at[0] = hdr.root
          /\ LeafOK(pages[at[d]], t.rng[at[d]], map) /\ t.rng[at[d]] \subseteq Key
          /\ k \in t.rng[at[d]] /\ at[d] \in Nat
      BY <1>5, WayIs
    <2>9. insert_rec(k, v) = r
      BY DEF insert_rec
    <2> HIDE DEF at, d, s, K
    <2>5. Rises(leaf, s, at[d], K, t, pages, c, 0, t.rng[at[d]], m)
      BY <1>2, <1>4, <2>1, InsertLeafRises
    <2> HIDE DEF m, leaf
    <2>6. Lifted(leaf, 0, at, d, K, t, c, m, TRUE)
      <3>1. d \in Nat
        BY <2>1 DEF OnWay
      <3> QED BY <1>4, <2>5, <3>1, RisesIsLifted
    <2>7. Lifted(r, d, at, d, K, t, c, m, TRUE)
      BY <1>0, <1>2, <1>4, <2>1, <2>6, ClimbRises
    <2> HIDE DEF r
    <2>8. PICK G, t2 : /\ Built(r.plan, K, t, pages, c, G, t2, m)
                       /\ Outcome(r, t2, d, Key)
      <3>1. d - d = 0
        <4>1. d \in Nat
          BY <2>1 DEF OnWay
        <4> QED BY <4>1
      <3> QED BY <1>2, <1>5, <2>1, <2>7, <3>1 DEF Lifted
    <2>11. Gone(r.plan.frees, t, k)
      BY <2>1, <2>7, LiftedGone
    <2>12. CASE ~r.split
      <3>1. r.left \in t2.T /\ t2.rng[r.left] = Key
        BY <2>8, <2>12 DEF Outcome, Has
      <3>2. Planned(r.plan.writes, r.plan.frees, r.left, m, pages, c)
        BY <1>0, <2>8, <2>11, <3>1, BuiltIsPlanned
      <3>3. insert(k, v) = [plan |-> r.plan, root |-> r.left]
        BY <1>5, <2>9, <2>12 DEF insert
      <3> QED BY <3>2, <3>3 DEF m
    <2>13. CASE r.split
      <3> DEFINE e == r.sep
                 ks == <<e>>
                 cs == <<r.left, r.right>>
                 node == Internal(ks, cs)
                 s2 == Write(r.plan, node)
      <3>1. /\ e \in Key /\ Has(t2, r.left, d, Below(Key, e)) /\ Has(t2, r.right, d, AtLeast(Key, e))
        BY <2>8, <2>13 DEF Outcome
      <3>2. r.left \in Nat /\ r.right \in Nat
        BY <2>8, <3>1 DEF Built, Forest, Fits, Pending, Has
      <3> HIDE DEF e
      <3>3. Part(ks, Key, 1) = Below(Key, e) /\ Part(ks, Key, 2) = AtLeast(Key, e)
        <4>1. Key \subseteq Int /\ e \in Int
          BY <3>1, CowTreeAssumption
        <4>2. /\ \A x \in Key : x < e <=> ~(e <= x)
              /\ \A x \in Key : x >= e <=> e <= x
          BY <4>1
        <4>3. /\ \A x \in Key : (\A j \in 1..Len(ks) : ks[j] <= x <=> j < 1) <=> ~(e <= x)
              /\ \A x \in Key : (\A j \in 1..Len(ks) : ks[j] <= x <=> j < 2) <=> e <= x
          OBVIOUS
        <4> HIDE DEF ks
        <4> QED BY <4>2, <4>3 DEF Part, Below, AtLeast
      <3>4. Divides(ks, cs, Key, d + 1, t2)
        <4>1. d \in Nat /\ (d + 1) - 1 = d
          <5>1. d \in Nat
            BY <2>1 DEF OnWay
          <5> QED BY <5>1
        <4>2. Separators(ks, Key)
          BY <3>1 DEF Separators, Sorted
        <4>3. cs \in Seq(Nat) /\ Len(cs) = Len(ks) + 1
          BY <3>2
        <4>4. \A i \in 1..Len(cs) : Has(t2, cs[i], d, Part(ks, Key, i))
          <5> TAKE i \in 1..Len(cs)
          <5>1. i = 1 \/ i = 2
            OBVIOUS
          <5>2. cs[1] = r.left /\ cs[2] = r.right
            OBVIOUS
          <5> HIDE DEF cs, ks
          <5> QED BY <3>1, <3>3, <5>1, <5>2
        <4> HIDE DEF cs, ks
        <4> QED BY <4>1, <4>2, <4>3, <4>4 DEF Divides
      <3>5. NodeOK(node, d + 1, Key, t2, m)
        <4>1. Len(ks) <= InternalCap
          BY CowTreeAssumption
        <4>2. d + 1 \in Nat /\ d + 1 > 0
          <5>1. d \in Nat
            BY <2>1 DEF OnWay
          <5> QED BY <5>1
        <4> HIDE DEF ks, cs
        <4> QED BY <1>20, <3>4, <4>1, <4>2, InnerIsOK
      <3> HIDE DEF node
      <3>6. PICK G2, t3 : /\ Built(s2, K, t, pages, c, G2, t3, m)
                          /\ Has(t3, Written(s2), d + 1, Key) /\ s2.frees = r.plan.frees
        BY <1>2, <1>4, <2>8, <3>5, AddPage
      <3>7. Gone(s2.frees, t, k)
        BY <2>11, <3>6
      <3>8. insert(k, v) = [plan |-> s2, root |-> Written(s2)]
        BY <1>5, <2>9, <2>13 DEF insert, node, e
      <3> HIDE DEF s2
      <3>9. Planned(s2.writes, s2.frees, Written(s2), m, pages, c)
        BY <1>0, <3>6, <3>7, BuiltIsPlanned DEF Has
      <3> QED BY <3>8, <3>9 DEF m
    <2> QED BY <2>12, <2>13
  <1> QED BY <1>3, <1>5

-----------------------------------------------------------------------------
(* One write to the file                                                   *)

LEMMA ForestStays ==
    ASSUME NEW f, NEW f2, NEW t, NEW m, Forest(f, t, m), t.T \subseteq DOMAIN f2,
           \A p \in t.T : f2[p] = f[p]
    PROVE  Forest(f2, t, m)
  BY DEF Forest

LEMMA TreeStays ==
    ASSUME NEW f, NEW f2, NEW t, NEW m, NEW p, Tree(f, t, p, m), t.T \subseteq DOMAIN f2,
           \A x \in t.T : f2[x] = f[x]
    PROVE  Tree(f2, t, p, m)
  BY ForestStays DEF Tree

\* From the file f with the freelist c to f2 with c2: what is not on the
\* freelist and is not the page p stays as it is.
Spares(f, c, f2, c2, p) ==
    /\ f2 \in Seq(Node) /\ Len(f) <= Len(f2)
    /\ \A x \in 1..Len(f) : x # p => f2[x] = f[x]
    /\ \A i \in 1..Len(c2) : c2[i] = p \/ \E j \in 1..Len(c) : c2[i] = c[j]

LEMMA SparedForest ==
    ASSUME NEW f \in Seq(Node), NEW c, NEW f2, NEW c2, NEW p, Spares(f, c, f2, c2, p),
           NEW t, NEW m, Forest(f, t, m), p \notin t.T, Apart(t.T, c)
    PROVE  Forest(f2, t, m) /\ Apart(t.T, c2)
  <1>1. /\ DOMAIN f = 1..Len(f) /\ DOMAIN f2 = 1..Len(f2) /\ t.T \subseteq 1..Len(f)
        /\ Len(f) \in Nat /\ Len(f2) \in Nat
    BY DEF Forest, Spares
  <1>2. t.T \subseteq DOMAIN f2
    BY <1>1 DEF Spares
  <1>3. \A x \in t.T : f2[x] = f[x]
    BY <1>1 DEF Spares
  <1>4. Apart(t.T, c2)
    BY DEF Apart, Spares
  <1> QED BY <1>2, <1>3, <1>4, ForestStays

\* The freelist c without its first page, if it has one
Rest(c) == IF c = <<>> THEN c ELSE Tail(c)

LEMMA RestIs ==
    ASSUME NEW n \in Nat, NEW c, FreePages(c, n)
    PROVE  /\ FreePages(Rest(c), n) /\ Len(c) \in Nat /\ Len(Rest(c)) \in Nat
           /\ c # <<>> => /\ Len(c) > 0 /\ Len(Rest(c)) = Len(c) - 1
                          /\ \A i \in 1..(Len(c) - 1) : Rest(c)[i] = c[i + 1]
           /\ c = <<>> => Len(c) = 0 /\ Rest(c) = <<>>
           /\ \A i \in 1..Len(Rest(c)) : \E j \in 1..Len(c) : Rest(c)[i] = c[j]
  <1>1. /\ c \in Seq(1..n) /\ Len(c) \in Nat
        /\ \A i, j \in 1..Len(c) : c[i] = c[j] => i = j
    BY DEF FreePages, Distinct
  <1>2. CASE c = <<>>
    BY <1>2 DEF Rest
  <1>3. CASE c # <<>>
    <2>1. /\ Tail(c) \in Seq(1..n) /\ Len(Tail(c)) = Len(c) - 1 /\ Len(c) > 0
          /\ \A i \in 1..(Len(c) - 1) : Tail(c)[i] = c[i + 1]
      BY <1>1, <1>3, HeadTailProperties
    <2>2. Rest(c) = Tail(c)
      BY <1>3 DEF Rest
    <2>3. \A i \in 1..(Len(c) - 1) : i + 1 \in 1..Len(c) /\ i \in Nat
      BY <1>1
    <2>4. \A i, j \in 1..(Len(c) - 1) : Tail(c)[i] = Tail(c)[j] => i = j
      <3> SUFFICES ASSUME NEW i \in 1..(Len(c) - 1), NEW j \in 1..(Len(c) - 1),
                          Tail(c)[i] = Tail(c)[j]
                   PROVE  i = j
        OBVIOUS
      <3>1. i + 1 = j + 1
        BY <1>1, <2>1, <2>3
      <3> QED BY <2>3, <3>1
    <2>5. FreePages(Tail(c), n)
      BY <2>1, <2>4 DEF FreePages, Distinct
    <2> QED BY <1>1, <1>3, <2>1, <2>2, <2>3, <2>5
  <1> QED BY <1>2, <1>3

\* The node is on the page p, the first one there is to take.
Placed(f, c, f2, h2, p, node) ==
    /\ Spares(f, c, f2, Rest(c), p) /\ Chain(f2, Rest(c), h2)
    /\ p \in 1..Len(f2) /\ f2[p] = node
    /\ c # <<>> => p = c[1] /\ Len(f2) = Len(f)
    /\ c = <<>> => p = Len(f) + 1 /\ Len(f2) = Len(f) + 1

LEMMA WriteOnto ==
    ASSUME NEW f \in Seq(Node), NEW c, NEW h, Chain(f, c, h),
           NEW p, p = Supply(c, Len(f), 1), NEW node \in Node,
           NEW f2, f2 = IF p \in DOMAIN f THEN [f EXCEPT ![p] = node] ELSE Append(f, node),
           NEW h2, h2 = IF p = h THEN f[p].kids[1] ELSE h
    PROVE  Placed(f, c, f2, h2, p, node)
  <1> DEFINE n == Len(f)
             c2 == Rest(c)
  <1>1. /\ n \in Nat /\ DOMAIN f = 1..n /\ FreePages(c, n) /\ h = NextOf(c, 0)
        /\ \A i \in 1..Len(c) : f[c[i]].kids[1] = NextOf(c, i)
    BY DEF Chain
  <1>2. /\ FreePages(c2, n) /\ Len(c) \in Nat /\ Len(c2) \in Nat
        /\ c # <<>> => /\ Len(c) > 0 /\ Len(c2) = Len(c) - 1
                       /\ \A i \in 1..(Len(c) - 1) : c2[i] = c[i + 1]
        /\ c = <<>> => Len(c) = 0 /\ c2 = <<>>
        /\ \A i \in 1..Len(c2) : \E j \in 1..Len(c) : c2[i] = c[j]
    BY <1>1, RestIs
  <1>3. CASE c # <<>>
    <2>1. p = c[1] /\ p \in 1..n /\ p = h /\ 1 \in 1..Len(c)
      <3>1. 1 \in 1..Len(c) /\ 0 + 1 = 1 /\ 0 < Len(c)
        BY <1>2, <1>3
      <3>2. c[1] \in 1..n
        BY <3>1 DEF Chain, FreePages
      <3> QED BY <1>1, <1>2, <1>3, <3>1, <3>2 DEF Supply, NextOf
    <2>2. /\ f2 \in Seq(Node) /\ Len(f2) = n
          /\ \A j \in 1..n : f2[j] = IF j = p THEN node ELSE f[j]
      <3>1. f2 = [f EXCEPT ![p] = node]
        BY <1>1, <2>1
      <3> QED BY <2>1, <3>1, ExceptSeq
    <2>3. h2 = NextOf(c, 1)
      BY <1>1, <2>1
    <2>4. Chain(f2, c2, h2)
      <3>1. FreePages(c2, Len(f2))
        BY <1>2, <2>2
      <3>2. \A i \in 0..Len(c2) : NextOf(c2, i) = NextOf(c, i + 1)
        <4> TAKE i \in 0..Len(c2)
        <4>1. (i < Len(c2) <=> i + 1 < Len(c)) /\ (i < Len(c2) => i + 1 \in 1..(Len(c) - 1))
          BY <1>2, <1>3
        <4>2. i < Len(c2) => c2[i + 1] = c[(i + 1) + 1]
          BY <1>2, <1>3, <4>1
        <4> QED BY <4>1, <4>2 DEF NextOf
      <3>3. h2 = NextOf(c2, 0)
        <4>1. 0 \in 0..Len(c2) /\ 0 + 1 = 1
          BY <1>2
        <4> QED BY <2>3, <3>2, <4>1
      <3>4. \A i \in 1..Len(c2) : f2[c2[i]].kids[1] = NextOf(c2, i)
        <4> TAKE i \in 1..Len(c2)
        <4>1. i \in 1..(Len(c) - 1) /\ i + 1 \in 1..Len(c) /\ i + 1 # 1 /\ i \in 0..Len(c2)
          BY <1>2, <1>3
        <4>5. c2[i] = c[i + 1]
          BY <1>2, <1>3, <4>1
        <4>6. c \in Seq(1..n) /\ Distinct(c)
          BY <1>1 DEF FreePages
        <4>7. c[i + 1] \in 1..n
          BY <4>1, <4>6
        <4>8. c[i + 1] # c[1]
          BY <2>1, <4>1, <4>6 DEF Distinct
        <4>2. c2[i] = c[i + 1] /\ c[i + 1] \in 1..n /\ c[i + 1] # c[1]
          BY <4>5, <4>7, <4>8
        <4>3. f2[c2[i]] = f[c[i + 1]]
          BY <2>1, <2>2, <4>2
        <4>4. f[c[i + 1]].kids[1] = NextOf(c, i + 1)
          BY <1>1, <4>1
        <4> QED BY <3>2, <4>1, <4>3, <4>4
      <3> HIDE DEF c2
      <3> QED BY <3>1, <3>3, <3>4 DEF Chain
    <2>5. Spares(f, c, f2, c2, p)
      <3>1. \A x \in 1..Len(f) : x # p => f2[x] = f[x]
        BY <2>2
      <3>2. Len(f) <= Len(f2)
        <4>1. n = Len(f) /\ Len(f2) = n /\ n \in Nat
          BY <1>1, <2>2
        <4> QED BY <4>1
      <3> HIDE DEF c2
      <3> QED BY <1>2, <2>2, <3>1, <3>2 DEF Spares
    <2> QED BY <1>1, <1>3, <2>1, <2>2, <2>4, <2>5 DEF Placed
  <1>4. CASE c = <<>>
    <2>1. p = n + 1 /\ h = Null /\ Len(c) = 0
      BY <1>1, <1>2, <1>4 DEF Supply, NextOf
    <2>2. /\ f2 \in Seq(Node) /\ Len(f2) = n + 1 /\ f2[n + 1] = node
          /\ \A j \in 1..n : f2[j] = f[j]
      <3>1. f2 = Append(f, node)
        <4>1. p \notin DOMAIN f
          BY <1>1, <2>1
        <4> QED BY <4>1
      <3> QED BY <3>1
    <2>3. h2 = Null
      BY <1>1, <2>1 DEF Null
    <2>4. c2 = <<>> /\ Len(c2) = 0
      BY <1>2, <1>4
    <2>5. FreePages(c2, n + 1)
      <3>1. <<>> \in Seq(1..(n + 1))
        BY EmptySeq
      <3> HIDE DEF c2
      <3> QED BY <2>4, <3>1 DEF FreePages, Distinct
    <2> HIDE DEF c2
    <2>6. Chain(f2, c2, h2)
      BY <2>2, <2>3, <2>4, <2>5 DEF Chain, NextOf
    <2>7. Spares(f, c, f2, c2, p)
      BY <1>1, <2>2, <2>4 DEF Spares
    <2> QED BY <1>1, <1>4, <2>1, <2>2, <2>6, <2>7 DEF c2, Placed
  <1> QED BY <1>3, <1>4

\* The first write is in the file, the others are still to come.
Wrote(ws, fr, root, m, f, c, p, f2, h2) ==
    /\ Spares(f, c, f2, Rest(c), p) /\ Chain(f2, Rest(c), h2)
    /\ \A T : T \subseteq 1..Len(f) /\ Apart(T, c) => p \notin T
    /\ Planned(Tail(ws), fr, root, m, f2, Rest(c))

LEMMA WriteDone ==
    ASSUME NEW f \in Seq(Node), NEW c, NEW h, Chain(f, c, h),
           NEW ws, NEW fr, NEW root, NEW m, Planned(ws, fr, root, m, f, c), ws # <<>>,
           NEW p, p = Head(ws).page,
           NEW f2, f2 = IF p \in DOMAIN f THEN [f EXCEPT ![p] = Head(ws).node]
                        ELSE Append(f, Head(ws).node),
           NEW h2, h2 = IF p = h THEN f[p].kids[1] ELSE h
    PROVE  Wrote(ws, fr, root, m, f, c, p, f2, h2)
  <1> DEFINE n == Len(f)
             c2 == Rest(c)
             n2 == Len(f2)
             node == Head(ws).node
             ws2 == Tail(ws)
  <1>1. PICK G, t2 : Plans(ws, fr, root, m, f, c, G, t2)
    BY DEF Planned
  <1>2. /\ ws \in Seq(Written1) /\ G \in Seq(Node)
        /\ Len(G) = IF Len(ws) <= Len(c) THEN n ELSE n + Len(ws) - Len(c)
        /\ \A j \in 1..Len(ws) : ws[j].page = Supply(c, n, j) /\ G[ws[j].page] = ws[j].node
        /\ \A x \in 1..n : (\A j \in 1..Len(ws) : ws[j].page # x) => G[x] = f[x]
        /\ Tree(G, t2, root, m) /\ root # Null /\ Takes(ws, c, t2) /\ Releases(fr, f, t2.T, c)
    BY <1>1 DEF Plans, Pending
  <1>3. /\ Head(ws) = ws[1] /\ 1 \in 1..Len(ws) /\ Len(ws) \in Nat /\ Len(ws) > 0
        /\ ws2 \in Seq(Written1) /\ Len(ws2) = Len(ws) - 1
        /\ \A j \in 1..(Len(ws) - 1) : ws2[j] = ws[j + 1]
    BY <1>2, HeadTailProperties
  <1>4. p = Supply(c, n, 1) /\ node \in Node /\ G[p] = node
    <2>1. ws[1] \in Written1
      BY <1>2, <1>3
    <2> QED BY <1>2, <1>3, <2>1 DEF Written1
  <1> HIDE DEF node, ws2
  <1>0. f2 = IF p \in DOMAIN f THEN [f EXCEPT ![p] = node] ELSE Append(f, node)
    BY DEF node
  <1>5. /\ Spares(f, c, f2, c2, p) /\ Chain(f2, c2, h2) /\ p \in 1..n2 /\ f2[p] = node
        /\ c # <<>> => p = c[1] /\ n2 = n
        /\ c = <<>> => p = n + 1 /\ n2 = n + 1
    <2>1. Placed(f, c, f2, h2, p, node)
      <3>1. p = Supply(c, Len(f), 1) /\ node \in Node
        BY <1>4
      <3> QED BY <1>0, <3>1, WriteOnto
    <2> QED BY <2>1 DEF Placed
  <1>6. /\ FreePages(c, n) /\ n \in Nat /\ n2 \in Nat /\ Len(c) \in Nat /\ Len(c2) \in Nat
        /\ c # <<>> => /\ Len(c) > 0 /\ Len(c2) = Len(c) - 1
                       /\ \A i \in 1..(Len(c) - 1) : c2[i] = c[i + 1]
        /\ c = <<>> => Len(c) = 0 /\ c2 = <<>> /\ Len(c2) = 0
    <2>1. FreePages(c, n) /\ n \in Nat /\ n2 \in Nat
      BY <1>5 DEF Chain, Spares
    <2> QED BY <2>1, RestIs
  <1> HIDE DEF c2, n2
  <1>7. \A T : T \subseteq 1..n /\ Apart(T, c) => p \notin T
    <2> SUFFICES ASSUME NEW T, T \subseteq 1..n, Apart(T, c) PROVE p \notin T
      OBVIOUS
    <2>1. CASE c # <<>>
      <3>1. 1 \in 1..Len(c)
        BY <1>6, <2>1
      <3> QED BY <1>5, <2>1, <3>1 DEF Apart
    <2>2. CASE c = <<>>
      <3>1. n + 1 \notin 1..n
        BY <1>6
      <3> QED BY <1>5, <2>2, <3>1
    <2> QED BY <2>1, <2>2
  <1>8. Pending(ws2, f2, c2, G)
    <2>1. Len(G) = IF Len(ws2) <= Len(c2) THEN n2 ELSE n2 + Len(ws2) - Len(c2)
      <3>1. CASE c # <<>>
        <4>1. /\ Len(c) \in Nat /\ Len(c2) = Len(c) - 1 /\ n2 = n /\ n \in Nat
              /\ Len(ws) \in Nat /\ Len(ws2) = Len(ws) - 1
              /\ Len(G) = IF Len(ws) <= Len(c) THEN n ELSE n + Len(ws) - Len(c)
          BY <1>2, <1>3, <1>5, <1>6, <3>1
        <4> QED BY <4>1
      <3>2. CASE c = <<>>
        <4>1. Len(G) = n + Len(ws)
          BY <1>2, <1>3, <1>6, <3>2
        <4>2. Len(c2) = 0 /\ n2 = n + 1
          BY <1>5, <1>6, <3>2
        <4> QED BY <1>3, <1>6, <4>1, <4>2
      <3> QED BY <3>1, <3>2
    <2>2. \A j \in 1..Len(ws2) : ws2[j].page = Supply(c2, n2, j) /\ G[ws2[j].page] = ws2[j].node
      <3> TAKE j \in 1..Len(ws2)
      <3>1. j \in 1..(Len(ws) - 1) /\ j + 1 \in 1..Len(ws) /\ j \in Nat /\ j > 0
        BY <1>3
      <3>2. ws2[j] = ws[j + 1] /\ ws[j + 1].page = Supply(c, n, j + 1)
            /\ G[ws[j + 1].page] = ws[j + 1].node
        BY <1>2, <1>3, <3>1
      <3>3. Supply(c2, n2, j) = Supply(c, n, j + 1)
        <4>1. CASE c # <<>>
          <5>0. Len(c) \in Nat /\ Len(c2) = Len(c) - 1 /\ j \in Nat /\ j > 0 /\ n \in Nat
            BY <1>6, <3>1, <4>1
          <5>1. /\ j <= Len(c2) <=> j + 1 <= Len(c)
                /\ j <= Len(c2) => j \in 1..(Len(c) - 1)
                /\ n + j - Len(c2) = n + (j + 1) - Len(c)
            BY <5>0
          <5>2. j <= Len(c2) => c2[j] = c[j + 1]
            BY <1>6, <4>1, <5>1
          <5> QED BY <1>5, <4>1, <5>1, <5>2 DEF Supply
        <4>2. CASE c = <<>>
          <5>1. ~(j <= Len(c2)) /\ ~(j + 1 <= Len(c)) /\ n2 + j - Len(c2) = n + (j + 1) - Len(c)
            BY <1>5, <1>6, <3>1, <4>2
          <5> QED BY <5>1 DEF Supply
        <4> QED BY <4>1, <4>2
      <3> QED BY <3>2, <3>3
    <2>3. \A x \in 1..n2 : (\A j \in 1..Len(ws2) : ws2[j].page # x) => G[x] = f2[x]
      <3> SUFFICES ASSUME NEW x \in 1..n2, \A j \in 1..Len(ws2) : ws2[j].page # x
                   PROVE  G[x] = f2[x]
        OBVIOUS
      <3>1. CASE x = p
        BY <1>4, <1>5, <3>1
      <3>2. CASE x # p
        <4>1. x \in 1..n
          <5>1. CASE c # <<>>
            BY <1>5, <5>1
          <5>2. CASE c = <<>>
            BY <1>5, <1>6, <3>2, <5>2
          <5> QED BY <5>1, <5>2
        <4>2. f2[x] = f[x]
          BY <1>5, <3>2, <4>1 DEF Spares
        <4>3. \A j \in 1..Len(ws) : ws[j].page # x
          <5> TAKE j \in 1..Len(ws)
          <5>1. CASE j = 1
            BY <1>3, <3>2, <5>1
          <5>2. CASE j # 1
            <6>1. j - 1 \in 1..Len(ws2) /\ j - 1 \in 1..(Len(ws) - 1) /\ (j - 1) + 1 = j
              BY <1>3, <5>2
            <6>2. ws2[j - 1] = ws[j]
              BY <1>3, <6>1
            <6> QED BY <6>1, <6>2
          <5> QED BY <5>1, <5>2
        <4> QED BY <1>2, <4>1, <4>2, <4>3
      <3> QED BY <3>1, <3>2
    <2> QED BY <1>2, <1>3, <2>1, <2>2, <2>3 DEF Pending, n2
  <1>9. Takes(ws2, c2, t2)
    <2> SUFFICES ASSUME NEW j \in 1..Len(c2), j > Len(ws2) PROVE c2[j] \notin t2.T
      BY DEF Takes
    <2>1. c # <<>>
      BY <1>6
    <2>2. j \in 1..(Len(c) - 1) /\ j + 1 \in 1..Len(c) /\ j + 1 > Len(ws)
      BY <1>3, <1>6, <2>1
    <2>3. c2[j] = c[j + 1]
      BY <1>6, <2>1, <2>2
    <2> QED BY <1>2, <2>2, <2>3 DEF Takes
  <1>10. Releases(fr, f2, t2.T, c2)
    <2>1. fr \in Seq(1..n2)
      <3>1. 1..n \subseteq 1..n2
        BY <1>5, <1>6
      <3>2. fr \in Seq(1..n)
        BY <1>2 DEF Releases
      <3> QED BY <3>1, <3>2, SeqMonotonic
    <2>2. \A i \in 1..Len(fr) : Apart({fr[i]}, c2)
      <3> TAKE i \in 1..Len(fr)
      <3>1. Apart({fr[i]}, c)
        BY <1>2 DEF Releases
      <3>2. \A j \in 1..Len(c2) : \E g \in 1..Len(c) : c2[j] = c[g]
        BY <1>6, RestIs DEF c2
      <3> QED BY <3>1, <3>2 DEF Apart
    <2> QED BY <1>2, <2>1, <2>2 DEF Releases, n2
  <1>11. Planned(ws2, fr, root, m, f2, c2)
    BY <1>2, <1>8, <1>9, <1>10 DEF Planned, Plans
  <1> QED BY <1>5, <1>7, <1>11 DEF ws2, c2, Wrote

\* When every page is written, the plan's tree is there.
LEMMA AllWritten ==
    ASSUME NEW f \in Seq(Node), NEW c, Len(c) \in Nat, NEW ws, ws = <<>>, NEW fr, NEW root, NEW m,
           Planned(ws, fr, root, m, f, c)
    PROVE  \E t : Tree(f, t, root, m) /\ root # Null /\ Apart(t.T, c) /\ Releases(fr, f, t.T, c)
  <1>1. PICK G, t : Plans(ws, fr, root, m, f, c, G, t)
    BY DEF Planned
  <1>2. /\ Pending(ws, f, c, G) /\ Tree(G, t, root, m) /\ root # Null
        /\ Takes(ws, c, t) /\ Releases(fr, f, t.T, c) /\ Len(ws) = 0 /\ Len(f) \in Nat
    BY <1>1 DEF Plans
  <1>3. G = f
    <2>1. G \in Seq(Node) /\ Len(G) = Len(f)
      BY <1>2 DEF Pending
    <2>2. \A x \in 1..Len(f) : G[x] = f[x]
      BY <1>2 DEF Pending
    <2> QED BY <2>1, <2>2, SeqEqual
  <1>4. Apart(t.T, c)
    BY <1>2 DEF Takes, Apart
  <1> QED BY <1>2, <1>3, <1>4

\* A page given back goes in front of the freelist.
LEMMA GiveBack ==
    ASSUME NEW f \in Seq(Node), NEW c, NEW h, Chain(f, c, h),
           NEW fr, NEW T, Releases(fr, f, T, c), fr # <<>>, NEW p, p = Head(fr),
           NEW f2, f2 = [f EXCEPT ![p] = FreeLink(h)]
    PROVE  /\ p \in 1..Len(f) /\ p \notin T
           /\ Spares(f, c, f2, <<p>> \o c, p) /\ Chain(f2, <<p>> \o c, p)
           /\ Releases(Tail(fr), f2, T, <<p>> \o c)
  <1> DEFINE n == Len(f)
             c2 == <<p>> \o c
  <1>1. /\ n \in Nat /\ FreePages(c, n) /\ h = NextOf(c, 0)
        /\ \A i \in 1..Len(c) : f[c[i]].kids[1] = NextOf(c, i)
        /\ c \in Seq(1..n) /\ Distinct(c) /\ Len(c) \in Nat
    BY DEF Chain, FreePages
  <1>2. /\ fr \in Seq(1..n) /\ Distinct(fr) /\ Apart(T, fr)
        /\ \A i \in 1..Len(fr) : Apart({fr[i]}, c)
    BY DEF Releases
  <1>3. /\ p = fr[1] /\ 1 \in 1..Len(fr) /\ Len(fr) \in Nat /\ p \in 1..n
        /\ Tail(fr) \in Seq(1..n) /\ Len(Tail(fr)) = Len(fr) - 1
        /\ \A i \in 1..(Len(fr) - 1) : Tail(fr)[i] = fr[i + 1]
    BY <1>2, HeadTailProperties
  <1>4. p \notin T /\ \A i \in 1..Len(c) : c[i] # p
    BY <1>2, <1>3 DEF Apart
  <1>5. /\ c2 \in Seq(1..n) /\ Len(c2) = Len(c) + 1 /\ c2[1] = p
        /\ \A i \in 2..(Len(c) + 1) : c2[i] = c[i - 1]
    <2>1. <<p>> \in Seq(1..n) /\ Len(<<p>>) = 1 /\ <<p>>[1] = p
      BY <1>3
    <2>2. /\ c2 \in Seq(1..n) /\ Len(c2) = 1 + Len(c)
          /\ \A j \in 1..1 : c2[j] = <<p>>[j]
          /\ \A j \in (1 + 1)..(1 + Len(c)) : c2[j] = c[j - 1]
      BY <1>1, <2>1, ConcatIs
    <2> HIDE DEF c2
    <2> QED BY <1>1, <2>1, <2>2
  <1> HIDE DEF c2
  <1>6. FreeLink(h) \in Node
    <2>1. h \in Nat
      <3>1. 0 < Len(c) => 0 + 1 \in 1..Len(c)
        BY <1>1
      <3> QED BY <1>1, <3>1 DEF NextOf, Null
    <2>2. <<>> \in Seq(Key) /\ <<>> \in Seq(Value) /\ <<h>> \in Seq(Nat)
      BY <2>1, EmptySeq
    <2> QED BY <2>2 DEF FreeLink, Node
  <1>7. /\ f2 \in Seq(Node) /\ Len(f2) = n
        /\ \A j \in 1..n : f2[j] = IF j = p THEN FreeLink(h) ELSE f[j]
    BY <1>3, <1>6, ExceptSeq
  <1>8. Distinct(c2)
    <2> SUFFICES ASSUME NEW i \in 1..Len(c2), NEW j \in 1..Len(c2), c2[i] = c2[j] PROVE i = j
      BY DEF Distinct
    <2>1. \A x \in 1..Len(c2) : x # 1 =>
             x - 1 \in 1..Len(c) /\ x \in 2..(Len(c) + 1) /\ c2[x] = c[x - 1] /\ c2[x] # p
      <3> SUFFICES ASSUME NEW x \in 1..Len(c2), x # 1
                   PROVE  x - 1 \in 1..Len(c) /\ x \in 2..(Len(c) + 1) /\ c2[x] = c[x - 1] /\ c2[x] # p
        OBVIOUS
      <3>1. x - 1 \in 1..Len(c) /\ x \in 2..(Len(c) + 1)
        BY <1>1, <1>5
      <3> QED BY <1>4, <1>5, <3>1
    <2>2. CASE i = 1 \/ j = 1
      BY <1>5, <2>1, <2>2
    <2>3. CASE i # 1 /\ j # 1
      <3>1. i - 1 = j - 1
        BY <1>1, <2>1, <2>3 DEF Distinct
      <3> QED BY <3>1
    <2> QED BY <2>2, <2>3
  <1>9. Chain(f2, c2, p)
    <2>1. FreePages(c2, Len(f2))
      BY <1>5, <1>7, <1>8 DEF FreePages
    <2>2. p = NextOf(c2, 0)
      <3>1. 0 < Len(c2) /\ 0 + 1 = 1
        BY <1>1, <1>5
      <3> QED BY <1>5, <3>1 DEF NextOf
    <2>3. \A i \in 1..Len(c2) : NextOf(c2, i) = NextOf(c, i - 1)
      <3> TAKE i \in 1..Len(c2)
      <3>1. /\ i < Len(c2) <=> i - 1 < Len(c)
            /\ i < Len(c2) => i + 1 \in 2..(Len(c) + 1)
            /\ (i + 1) - 1 = (i - 1) + 1
        BY <1>1, <1>5
      <3>2. i < Len(c2) => c2[i + 1] = c[(i - 1) + 1]
        BY <1>5, <3>1
      <3> QED BY <3>1, <3>2 DEF NextOf
    <2>4. \A i \in 1..Len(c2) : f2[c2[i]].kids[1] = NextOf(c2, i)
      <3> TAKE i \in 1..Len(c2)
      <3>1. CASE i = 1
        <4>1. f2[c2[i]] = FreeLink(h)
          BY <1>3, <1>5, <1>7, <3>1
        <4>2. FreeLink(h).kids[1] = h
          BY DEF FreeLink
        <4>3. NextOf(c2, i) = NextOf(c, 0)
          <5>1. i - 1 = 0
            BY <3>1
          <5> QED BY <2>3, <5>1
        <4> QED BY <1>1, <4>1, <4>2, <4>3
      <3>2. CASE i # 1
        <4>1. i - 1 \in 1..Len(c) /\ i \in 2..(Len(c) + 1)
          BY <1>1, <1>5, <3>2
        <4>2. c2[i] = c[i - 1] /\ c[i - 1] # p /\ c[i - 1] \in 1..n
          <5>1. c2[i] = c[i - 1]
            BY <1>5, <4>1
          <5>2. c[i - 1] # p
            BY <1>4, <4>1
          <5>3. c[i - 1] \in 1..n
            BY <1>1, <4>1
          <5> QED BY <5>1, <5>2, <5>3
        <4>3. f2[c2[i]] = f[c[i - 1]]
          BY <1>7, <4>2
        <4>4. f[c[i - 1]].kids[1] = NextOf(c, i - 1)
          BY <1>1, <4>1
        <4> QED BY <2>3, <4>3, <4>4
      <3> QED BY <3>1, <3>2
    <2> QED BY <2>1, <2>2, <2>4 DEF Chain
  <1>10. Spares(f, c, f2, c2, p)
    <2>1. \A i \in 1..Len(c2) : c2[i] = p \/ \E j \in 1..Len(c) : c2[i] = c[j]
      <3> TAKE i \in 1..Len(c2)
      <3>1. CASE i = 1
        BY <1>5, <3>1
      <3>2. CASE i # 1
        <4>1. i - 1 \in 1..Len(c) /\ i \in 2..(Len(c) + 1)
          BY <1>1, <1>5, <3>2
        <4> QED BY <1>5, <4>1
      <3> QED BY <3>1, <3>2
    <2> QED BY <1>1, <1>7, <2>1 DEF Spares
  <1>11. Releases(Tail(fr), f2, T, c2)
    <2> DEFINE fr2 == Tail(fr)
    <2>1. \A i \in 1..Len(fr2) : i + 1 \in 1..Len(fr) /\ fr2[i] = fr[i + 1] /\ fr2[i] # p
      <3> TAKE i \in 1..Len(fr2)
      <3>1. i + 1 \in 1..Len(fr) /\ i \in 1..(Len(fr) - 1) /\ i + 1 # 1
        BY <1>3
      <3>2. fr[i + 1] # fr[1]
        BY <1>2, <1>3, <3>1 DEF Distinct
      <3> QED BY <1>3, <3>1, <3>2
    <2>0. fr2 \in Seq(1..Len(f2))
      BY <1>3, <1>7
    <2> HIDE DEF fr2
    <2>2. Distinct(fr2)
      <3> SUFFICES ASSUME NEW i \in 1..Len(fr2), NEW j \in 1..Len(fr2), fr2[i] = fr2[j] PROVE i = j
        BY DEF Distinct
      <3>1. i + 1 = j + 1
        BY <1>2, <2>1 DEF Distinct
      <3> QED BY <3>1
    <2>3. Apart(T, fr2)
      BY <1>2, <2>1 DEF Apart
    <2>4. \A i \in 1..Len(fr2) : Apart({fr2[i]}, c2)
      <3> TAKE i \in 1..Len(fr2)
      <3>1. Apart({fr2[i]}, c) /\ fr2[i] # p
        BY <1>2, <2>1
      <3> QED BY <1>10, <3>1 DEF Apart, Spares
    <2> QED BY <2>0, <2>2, <2>3, <2>4 DEF Releases, fr2
  <1> QED BY <1>3, <1>4, <1>9, <1>10, <1>11 DEF c2

-----------------------------------------------------------------------------
(* The invariant                                                           *)

OpIs(o) == [step |-> o.step, writes |-> o.writes, frees |-> o.frees, root |-> o.root,
            map |-> o.map]

\* m2 is m with one key put or taken away.
Edit(m, m2) == \E k \in Key, v \in Value \cup {None} : m2 = [m EXCEPT ![k] = v]

\* What is under way: nothing, a plan being written, or pages going back
Working(c, T) ==
    \/ op = Idle
    \/ /\ op = OpIs(op) /\ op.step = "write" /\ Edit(map, op.map)
       /\ Planned(op.writes, op.frees, op.root, op.map, pages, c)
    \/ /\ op = OpIs(op) /\ op.step = "free"
       /\ op.frees # <<>> /\ Releases(op.frees, pages, T, c)

RdIs(r) == [step |-> r.step, page |-> r.page, key |-> r.key, mapped |-> r.mapped,
            stale |-> r.stale, tree |-> r.tree, expect |-> r.expect]

\* The tree of the reader r is a forest that is still in the file.
Reads(r, f, c, t, m) ==
    /\ Forest(f, t, m) /\ t.T = r.tree /\ Apart(r.tree, c)
    /\ r.step = "walk" => r.page \in r.tree /\ r.key \in t.rng[r.page] /\ m[r.key] = r.expect
    /\ r.step = "done" => r.page = r.expect
    /\ r.step = "failed" => \E p \in r.tree : p > r.mapped

Steps == {"open", "walk", "done", "failed"}

Reading(c) ==
    \/ rd = NoReader
    \/ /\ rd = RdIs(rd) /\ rd.step \in Steps /\ rd.stale \in BOOLEAN
       /\ rd.step = "open" => rd.tree = {} /\ rd.key \in Key
       /\ rd.step # "open" /\ ~rd.stale => \E t, m : Reads(rd, pages, c, t, m)

TreeInv ==
    /\ hdr = [root |-> hdr.root, free |-> hdr.free] /\ ops \in 0..MaxOps
    /\ \E t, c : Store(t, c) /\ Working(c, t.T) /\ Reading(c)

LEMMA EmptyFile == Init => TreeInv
  <1> SUFFICES ASSUME Init PROVE TreeInv
    OBVIOUS
  <1> USE DEF Init
  <1> DEFINE t == [T |-> {}, lev |-> <<>>, rng |-> <<>>]
             c == <<>>
  <1>1. pages \in Seq(Node) /\ Len(pages) = 0
    <2> HIDE DEF Init
    <2>1. pages = <<>>
      BY DEF Init
    <2> QED BY <2>1, EmptySeq
  <1>2. map \in Maps /\ \A x \in Key : map[x] = None
    BY DEF Maps
  <1>3. Chain(pages, c, hdr.free)
    <2>1. <<>> \in Seq(1..Len(pages)) /\ Len(<<>>) = 0
      BY EmptySeq
    <2>2. hdr.free = Null
      OBVIOUS
    <2> HIDE DEF Init
    <2> QED BY <1>1, <2>1, <2>2 DEF Chain, FreePages, Distinct, NextOf
  <1>4. Tree(pages, t, hdr.root, map)
    <2>1. hdr.root = Null /\ t.T = {}
      OBVIOUS
    <2> HIDE DEF Init, t
    <2> QED BY <1>2, <2>1 DEF Tree, Forest
  <1>5. Store(t, c)
    <2>1. Len(c) = 0
      OBVIOUS
    <2> HIDE DEF Init, t, c
    <2> QED BY <1>1, <1>2, <1>3, <1>4, <2>1 DEF Store, Apart
  <1>6. Working(c, t.T) /\ Reading(c)
    BY DEF Working, Reading
  <1>7. hdr = [root |-> hdr.root, free |-> hdr.free] /\ ops \in 0..MaxOps
    BY CowTreeAssumption
  <1> HIDE DEF Init, t, c
  <1> QED BY <1>5, <1>6, <1>7 DEF TreeInv

\* A plan is put under way.
LEMMA BeginKeeps ==
    ASSUME TreeInv, op = Idle, ops < MaxOps, NEW plan, NEW root, NEW k \in Key,
           NEW v \in Value \cup {None},
           \A t, c : Store(t, c) =>
               Planned(plan.writes, plan.frees, root, [map EXCEPT ![k] = v], pages, c),
           Begin(plan, root, [map EXCEPT ![k] = v])
    PROVE  TreeInv'
  <1> DEFINE m == [map EXCEPT ![k] = v]
             o == [step |-> "write", writes |-> plan.writes, frees |-> plan.frees,
                   root |-> root, map |-> m]
  <1>1. /\ op' = o /\ ops' = ops + 1
        /\ pages' = pages /\ hdr' = hdr /\ map' = map /\ rd' = rd
    BY DEF Begin
  <1>2. PICK t, c : Store(t, c) /\ Working(c, t.T) /\ Reading(c)
    BY DEF TreeInv
  <1>3. Planned(plan.writes, plan.frees, root, m, pages, c) /\ Edit(map, m)
    BY <1>2 DEF Edit
  <1> HIDE DEF m
  <1>4. /\ o.step = "write" /\ o.writes = plan.writes /\ o.frees = plan.frees /\ o.root = root
        /\ o.map = m /\ o = OpIs(o)
    BY DEF OpIs
  <1> HIDE DEF o
  <1>5. Working(c, t.T)'
    BY <1>1, <1>3, <1>4 DEF Working, OpIs
  <1>6. Store(t, c)' /\ Reading(c)'
    BY <1>1, <1>2 DEF Store, Reading, RdIs
  <1>7. hdr' = [root |-> hdr'.root, free |-> hdr'.free] /\ ops' \in 0..MaxOps
    BY <1>1, CowTreeAssumption DEF TreeInv
  <1> QED BY <1>5, <1>6, <1>7 DEF TreeInv

LEMMA InsertKeeps == ASSUME TreeInv, NEW k \in Key, Insert(k, ops + 1) PROVE TreeInv'
  <1> DEFINE r == insert(k, ops + 1)
             v == ops + 1
  <1>1. op = Idle /\ ops < MaxOps /\ Begin(r.plan, r.root, [map EXCEPT ![k] = v])
    BY DEF Insert
  <1>2. v \in Value
    BY <1>1, CowTreeAssumption DEF TreeInv, Value
  <1>3. \A t, c : Store(t, c) =>
            Planned(r.plan.writes, r.plan.frees, r.root, [map EXCEPT ![k] = v], pages, c)
    <2> HIDE DEF v
    <2> QED BY <1>2, InsertPlanned DEF v
  <1> HIDE DEF r, v
  <1>4. v \in Value \cup {None}
    BY <1>2
  <1> QED BY <1>1, <1>3, <1>4, BeginKeeps

LEMMA DeleteKeeps == ASSUME TreeInv, NEW k \in Key, Delete(k) PROVE TreeInv'
  <1> DEFINE r == delete_rec(k)
  <1>1. /\ op = Idle /\ ops < MaxOps /\ hdr.root # Null /\ get(pages, hdr.root, k) # None
        /\ Begin(r.plan, r.left, [map EXCEPT ![k] = None])
    BY DEF Delete
  <1>2. \A t, c : Store(t, c) =>
            Planned(r.plan.writes, r.plan.frees, r.left, [map EXCEPT ![k] = None], pages, c)
    BY <1>1, DeletePlanned
  <1> HIDE DEF r
  <1>3. None \in Value \cup {None}
    OBVIOUS
  <1> QED BY <1>1, <1>2, <1>3, BeginKeeps

\* The reader keeps its tree when its pages are spared.
LEMMA ReadingSpared ==
    ASSUME pages \in Seq(Node), NEW c, Reading(c), NEW c2, NEW p,
           Spares(pages, c, pages', c2, p), rd' = rd,
           rd # NoReader => p \notin rd.tree \/ rd.stale
    PROVE  Reading(c2)'
  <1>1. CASE rd = NoReader
    BY <1>1 DEF Reading
  <1>2. CASE rd # NoReader /\ rd.stale
    BY <1>2 DEF Reading, RdIs
  <1>4. CASE rd # NoReader /\ rd.step = "open"
    BY <1>4 DEF Reading, RdIs
  <1>3. CASE rd # NoReader /\ ~rd.stale /\ rd.step # "open"
    <2>1. /\ rd = RdIs(rd) /\ rd.step \in Steps /\ rd.stale \in BOOLEAN
          /\ \E t, m : Reads(rd, pages, c, t, m)
      BY <1>3 DEF Reading
    <2>2. PICK t, m : Reads(rd, pages, c, t, m)
      BY <2>1
    <2>3. Forest(pages, t, m) /\ p \notin t.T /\ Apart(t.T, c)
      BY <1>3, <2>2 DEF Reads
    <2>4. Forest(pages', t, m) /\ Apart(t.T, c2)
      BY <2>3, SparedForest
    <2>5. Reads(rd, pages', c2, t, m)
      BY <2>2, <2>4 DEF Reads
    <2> QED BY <1>3, <2>1, <2>5 DEF Reading, RdIs
  <1> QED BY <1>1, <1>2, <1>3, <1>4

LEMMA WritePageKeeps == ASSUME TreeInv, WritePage PROVE TreeInv'
  <1> DEFINE w == Head(op.writes)
             p == w.page
  <1>1. PICK t, c : Store(t, c) /\ Working(c, t.T) /\ Reading(c)
    BY DEF TreeInv
  <1>2. /\ op.step = "write" /\ op.writes # <<>>
        /\ pages' = IF p \in DOMAIN pages THEN [pages EXCEPT ![p] = w.node] ELSE Append(pages, w.node)
        /\ hdr' = [hdr EXCEPT !.free = IF p = @ THEN pages[p].kids[1] ELSE @]
        /\ op' = [op EXCEPT !.writes = Tail(@)]
        /\ map' = map /\ rd' = rd /\ ops' = ops
    BY DEF WritePage
  <1>3. /\ op = OpIs(op) /\ Edit(map, op.map)
        /\ Planned(op.writes, op.frees, op.root, op.map, pages, c)
    BY <1>1, <1>2 DEF Working, Idle
  <1>4. hdr'.root = hdr.root /\ hdr'.free = (IF p = hdr.free THEN pages[p].kids[1] ELSE hdr.free)
        /\ hdr' = [root |-> hdr'.root, free |-> hdr'.free]
    <2>1. hdr = [root |-> hdr.root, free |-> hdr.free]
      BY DEF TreeInv
    <2> HIDE DEF p
    <2> QED BY <1>2, <2>1
  <1>5. op'.step = "write" /\ op'.writes = Tail(op.writes) /\ op'.frees = op.frees
        /\ op'.root = op.root /\ op'.map = op.map /\ op' = OpIs(op')
    BY <1>2, <1>3 DEF OpIs
  <1>6. /\ pages \in Seq(Node) /\ Chain(pages, c, hdr.free) /\ map \in Maps
        /\ Tree(pages, t, hdr.root, map) /\ Apart(t.T, c)
    BY <1>1 DEF Store
  <1>7. /\ Spares(pages, c, pages', Rest(c), p) /\ Chain(pages', Rest(c), hdr'.free)
        /\ \A T : T \subseteq 1..Len(pages) /\ Apart(T, c) => p \notin T
        /\ Planned(op'.writes, op'.frees, op'.root, op'.map, pages', Rest(c))
    <2> DEFINE ws == op.writes
               h2 == hdr'.free
    <2>1. /\ Planned(ws, op.frees, op.root, op.map, pages, c) /\ ws # <<>> /\ p = Head(ws).page
          /\ pages' = IF p \in DOMAIN pages THEN [pages EXCEPT ![p] = Head(ws).node]
                      ELSE Append(pages, Head(ws).node)
          /\ h2 = IF p = hdr.free THEN pages[p].kids[1] ELSE hdr.free
      BY <1>2, <1>3, <1>4
    <2>2. ws = op.writes
      OBVIOUS
    <2> HIDE DEF ws, h2, p, w
    <2>3. Wrote(ws, op.frees, op.root, op.map, pages, c, p, pages', h2)
      BY <1>6, <2>1, WriteDone
    <2> QED BY <1>5, <2>2, <2>3 DEF Wrote, h2
  <1> HIDE DEF p, w
  <1>8. p \notin t.T
    <2>1. t.T \subseteq 1..Len(pages)
      <3>1. DOMAIN pages = 1..Len(pages)
        BY <1>6
      <3> QED BY <1>6, <3>1 DEF Tree, Forest
    <2> QED BY <1>6, <1>7, <2>1
  <1>9. Forest(pages', t, map) /\ Apart(t.T, Rest(c))
    BY <1>6, <1>7, <1>8, SparedForest DEF Tree
  <1>10. Store(t, Rest(c))'
    BY <1>2, <1>4, <1>6, <1>7, <1>9 DEF Store, Tree, Spares
  <1>11. Reading(Rest(c))'
    <2>1. rd # NoReader => p \notin rd.tree \/ rd.stale
      <3> SUFFICES ASSUME rd # NoReader, ~rd.stale, rd.step # "open" PROVE p \notin rd.tree
        BY <1>1 DEF Reading
      <3>1. PICK t3, m3 : Reads(rd, pages, c, t3, m3)
        BY <1>1 DEF Reading
      <3>2. DOMAIN pages = 1..Len(pages)
        BY <1>6
      <3>3. rd.tree \subseteq 1..Len(pages) /\ Apart(rd.tree, c)
        BY <3>1, <3>2 DEF Reads, Forest
      <3> QED BY <1>7, <3>3
    <2> QED BY <1>1, <1>2, <1>6, <1>7, <2>1, ReadingSpared
  <1>12. Working(Rest(c), t.T)'
    BY <1>2, <1>3, <1>5, <1>7 DEF Working
  <1> QED BY <1>2, <1>4, <1>10, <1>11, <1>12 DEF TreeInv

LEMMA PublishKeeps == ASSUME TreeInv, publish_root PROVE TreeInv'
  <1>1. PICK t, c : Store(t, c) /\ Working(c, t.T) /\ Reading(c)
    BY DEF TreeInv
  <1>2. /\ op.step = "write" /\ op.writes = <<>>
        /\ hdr' = [hdr EXCEPT !.root = op.root] /\ map' = op.map
        /\ op' = IF op.frees = <<>> THEN Idle ELSE [op EXCEPT !.step = "free"]
        /\ pages' = pages /\ rd' = rd /\ ops' = ops
    BY DEF publish_root
  <1>3. /\ op = OpIs(op) /\ Edit(map, op.map)
        /\ Planned(op.writes, op.frees, op.root, op.map, pages, c)
    BY <1>1, <1>2 DEF Working, Idle
  <1>4. /\ hdr'.root = op.root /\ hdr'.free = hdr.free
        /\ hdr' = [root |-> hdr'.root, free |-> hdr'.free]
    <2>1. hdr = [root |-> hdr.root, free |-> hdr.free]
      BY DEF TreeInv
    <2> QED BY <1>2, <2>1
  <1>5. pages \in Seq(Node) /\ Chain(pages, c, hdr.free) /\ map \in Maps /\ Len(c) \in Nat
    <2>1. pages \in Seq(Node) /\ Chain(pages, c, hdr.free) /\ map \in Maps
      BY <1>1 DEF Store
    <2>2. c \in Seq(1..Len(pages))
      BY <2>1 DEF Chain, FreePages
    <2> QED BY <2>1, <2>2
  <1>6. PICK t2 : /\ Tree(pages, t2, op.root, op.map) /\ Apart(t2.T, c)
                  /\ Releases(op.frees, pages, t2.T, c)
    BY <1>2, <1>3, <1>5, AllWritten
  <1>7. op.map \in Maps
    <2>1. PICK k \in Key, v \in Value \cup {None} : op.map = [map EXCEPT ![k] = v]
      BY <1>3 DEF Edit
    <2> QED BY <1>5, <2>1 DEF Maps
  <1>8. Store(t2, c)'
    BY <1>2, <1>4, <1>5, <1>6, <1>7 DEF Store
  <1>9. Working(c, t2.T)'
    <2>1. CASE op.frees = <<>>
      BY <1>2, <2>1 DEF Working
    <2>2. CASE op.frees # <<>>
      <3>1. op'.step = "free" /\ op'.frees = op.frees /\ op' = OpIs(op')
        BY <1>2, <1>3, <2>2 DEF OpIs
      <3> QED BY <1>2, <1>6, <2>2, <3>1 DEF Working
    <2> QED BY <2>1, <2>2
  <1>10. Reading(c)'
    BY <1>1, <1>2 DEF Reading, RdIs
  <1> QED BY <1>2, <1>4, <1>8, <1>9, <1>10 DEF TreeInv

LEMMA FreeKeeps == ASSUME TreeInv, free_page PROVE TreeInv'
  <1> DEFINE p == Head(op.frees)
             fr == op.frees
  <1>1. PICK t, c : Store(t, c) /\ Working(c, t.T) /\ Reading(c)
    BY DEF TreeInv
  <1>2. /\ op.step = "free"
        /\ pages' = [pages EXCEPT ![p] = FreeLink(hdr.free)]
        /\ hdr' = [hdr EXCEPT !.free = p]
        /\ rd' = IF rd # NoReader /\ p \in rd.tree THEN [rd EXCEPT !.stale = TRUE] ELSE rd
        /\ op' = IF Len(fr) = 1 THEN Idle ELSE [op EXCEPT !.frees = Tail(@)]
        /\ map' = map /\ ops' = ops
    BY DEF free_page
  <1>3. op = OpIs(op) /\ fr # <<>> /\ Releases(fr, pages, t.T, c)
    BY <1>1, <1>2 DEF Working, Idle
  <1>4. /\ hdr'.root = hdr.root /\ hdr'.free = p
        /\ hdr' = [root |-> hdr'.root, free |-> hdr'.free]
    <2>1. hdr = [root |-> hdr.root, free |-> hdr.free]
      BY DEF TreeInv
    <2> HIDE DEF p
    <2> QED BY <1>2, <2>1
  <1>14. PICK c2 : c2 = <<p>> \o c
    OBVIOUS
  <1>6. /\ pages \in Seq(Node) /\ Chain(pages, c, hdr.free) /\ map \in Maps
        /\ Tree(pages, t, hdr.root, map) /\ Apart(t.T, c)
    BY <1>1 DEF Store
  <1>7. /\ p \in 1..Len(pages) /\ p \notin t.T
        /\ Spares(pages, c, pages', c2, p) /\ Chain(pages', c2, p)
        /\ Releases(Tail(fr), pages', t.T, c2)
    BY <1>2, <1>3, <1>6, <1>14, GiveBack
  <1>8. fr \in Seq(1..Len(pages))
    BY <1>3 DEF Releases
  <1>13. fr = op.frees
    OBVIOUS
  <1> HIDE DEF p, fr
  <1>9. Forest(pages', t, map) /\ Apart(t.T, c2)
    BY <1>6, <1>7, SparedForest DEF Tree
  <1>10. Store(t, c2)'
    <2>1. Tree(pages', t, hdr'.root, map')
      BY <1>2, <1>4, <1>6, <1>9 DEF Tree
    <2>2. pages' \in Seq(Node) /\ map' \in Maps /\ Chain(pages', c2, hdr'.free)
      BY <1>2, <1>4, <1>6, <1>7 DEF Spares
    <2> QED BY <1>9, <2>1, <2>2 DEF Store
  <1>11. Reading(c2)'
    <2>1. CASE rd # NoReader /\ p \in rd.tree
      <3>1. /\ rd = RdIs(rd) /\ rd.step \in Steps
            /\ rd.step = "open" => rd.tree = {} /\ rd.key \in Key
        BY <1>1, <2>1 DEF Reading
      <3>2. /\ rd' = [step |-> rd.step, page |-> rd.page, key |-> rd.key, mapped |-> rd.mapped,
                      stale |-> TRUE, tree |-> rd.tree, expect |-> rd.expect]
        BY <1>2, <2>1, <3>1 DEF RdIs
      <3> QED BY <3>1, <3>2 DEF Reading, RdIs
    <2>2. CASE ~(rd # NoReader /\ p \in rd.tree)
      <3>1. rd' = rd /\ (rd # NoReader => p \notin rd.tree \/ rd.stale)
        BY <1>2, <2>2
      <3>2. pages \in Seq(Node) /\ Reading(c) /\ Spares(pages, c, pages', c2, p)
        BY <1>1, <1>6, <1>7
      <3> QED BY <3>1, <3>2, ReadingSpared
    <2> QED BY <2>1, <2>2
  <1>12. Working(c2, t.T)'
    <2>1. CASE Len(fr) = 1
      BY <1>2, <2>1 DEF Working
    <2>2. CASE Len(fr) # 1
      <3>1. Tail(fr) # <<>>
        <4>1. Len(fr) \in Nat /\ Len(fr) # 0 /\ Len(Tail(fr)) = Len(fr) - 1
          BY <1>3, <1>8, EmptySeq, HeadTailProperties
        <4>2. Len(Tail(fr)) # 0
          BY <2>2, <4>1
        <4> QED BY <4>2, EmptySeq
      <3>2. op'.step = "free" /\ op'.frees = Tail(fr) /\ op' = OpIs(op')
        BY <1>2, <1>3, <1>13, <2>2 DEF OpIs
      <3> QED BY <1>7, <3>1, <3>2 DEF Working
    <2> QED BY <2>1, <2>2
  <1> QED BY <1>2, <1>4, <1>10, <1>11, <1>12 DEF TreeInv

LEMMA OpenKeeps == ASSUME TreeInv, NEW k \in ReadKeys, OpenReader(k) PROVE TreeInv'
  <1>1. PICK t, c : Store(t, c) /\ Working(c, t.T) /\ Reading(c)
    BY DEF TreeInv
  <1>2. PICK n : /\ rd' = [step |-> "open", page |-> Null, key |-> k, mapped |-> n,
                          stale |-> FALSE, tree |-> {}, expect |-> None]
                /\ UNCHANGED <<pages, hdr, op, map, ops, crashes>>
    BY DEF OpenReader
  <1>3. k \in Key
    BY CowTreeAssumption
  <1>4. Reading(c)'
    BY <1>2, <1>3 DEF Reading, RdIs, Steps
  <1>5. Store(t, c)' /\ Working(c, t.T)'
    BY <1>1, <1>2 DEF Store, Working, OpIs
  <1> QED BY <1>2, <1>4, <1>5 DEF TreeInv

LEMMA HeaderKeeps == ASSUME TreeInv, ReadHeader PROVE TreeInv'
  <1>1. PICK t, c : Store(t, c) /\ Working(c, t.T) /\ Reading(c)
    BY DEF TreeInv
  <1> DEFINE T == Reach(pages, hdr.root)
             t3 == Only(t, T)
             step == IF hdr.root = Null THEN "done" ELSE "walk"
             page == IF hdr.root = Null THEN None ELSE hdr.root
  <1>2. /\ rd.step = "open"
        /\ rd' = [rd EXCEPT !.step = step, !.page = page, !.tree = T, !.expect = map[rd.key]]
        /\ UNCHANGED <<pages, hdr, op, map, ops, crashes>>
    BY DEF ReadHeader
  <1>3. rd = RdIs(rd) /\ rd.stale \in BOOLEAN /\ rd.key \in Key
    BY <1>1, <1>2 DEF Reading, NoReader
  <1>4. pages \in Seq(Node) /\ Tree(pages, t, hdr.root, map) /\ Apart(t.T, c)
    BY <1>1 DEF Store
  <1> HIDE DEF T, t3, step, page
  <1>5. /\ rd' = RdIs(rd') /\ rd'.step = step /\ rd'.page = page /\ rd'.key = rd.key
        /\ rd'.stale = rd.stale /\ rd'.tree = T /\ rd'.expect = map[rd.key]
    BY <1>2, <1>3 DEF RdIs
  <1>6. ASSUME hdr.root = Null PROVE rd'.step \in {"walk", "done"} /\ \E u, m : Reads(rd', pages, c, u, m)
    <2>1. T = {} /\ t.T = {} /\ map[rd.key] = None /\ Forest(pages, t, map)
      BY <1>3, <1>4, <1>6, ReachNull DEF T, Tree
    <2>2. rd'.step = "done" /\ rd'.page = None
      BY <1>5, <1>6 DEF step, page
    <2>3. Reads(rd', pages, c, t, map)
      BY <1>5, <2>1, <2>2 DEF Reads, Apart
    <2> QED BY <2>2, <2>3
  <1>7. ASSUME hdr.root # Null PROVE rd'.step \in {"walk", "done"} /\ \E u, m : Reads(rd', pages, c, u, m)
    <2>1. /\ Forest(pages, t, map) /\ hdr.root \in t.T /\ t.rng[hdr.root] = Key
      BY <1>4, <1>7 DEF Tree
    <2>2. hdr.root \in T /\ T \subseteq t.T /\ Forest(pages, t3, map)
      BY <1>4, <2>1, ReachIs DEF T, t3
    <2>3. t3.T = T /\ t3.rng = t.rng
      BY DEF Only, t3
    <2>4. rd'.step = "walk" /\ rd'.page = hdr.root
      BY <1>5, <1>7 DEF step, page
    <2>5. Reads(rd', pages, c, t3, map)
      BY <1>3, <1>4, <1>5, <2>1, <2>2, <2>3, <2>4 DEF Reads, Apart
    <2> QED BY <2>4, <2>5
  <1>8. rd'.step \in {"walk", "done"} /\ \E u, m : Reads(rd', pages, c, u, m)
    BY <1>6, <1>7
  <1>9. Reading(c)'
    BY <1>2, <1>3, <1>5, <1>8 DEF Reading, Steps
  <1>10. Store(t, c)' /\ Working(c, t.T)'
    BY <1>1, <1>2 DEF Store, Working, OpIs
  <1> QED BY <1>2, <1>9, <1>10 DEF TreeInv

LEMMA ReadPageKeeps == ASSUME TreeInv, ReadPage PROVE TreeInv'
  <1> DEFINE node == pages[rd.page]
             next == node.kids[child_idx(node, rd.key)]
             bad == rd.page > rd.mapped \/ node.type \notin {"internal", "leaf"}
  <1>1. PICK t, c : Store(t, c) /\ Working(c, t.T) /\ Reading(c)
    BY DEF TreeInv
  <1>2. /\ rd.step = "walk"
        /\ rd' = IF bad THEN [rd EXCEPT !.step = "failed"]
                 ELSE IF node.type = "internal" THEN [rd EXCEPT !.page = next]
                 ELSE [rd EXCEPT !.step = "done", !.page = lookup(node, rd.key)]
        /\ UNCHANGED <<pages, hdr, op, map, ops, crashes>>
    BY DEF ReadPage
  <1>3. rd = RdIs(rd) /\ rd.stale \in BOOLEAN
    BY <1>1, <1>2 DEF Reading, NoReader
  <1>8. ~bad => node.type \in {"internal", "leaf"}
    OBVIOUS
  <1>9. bad => rd.page > rd.mapped \/ node.type \notin {"internal", "leaf"}
    OBVIOUS
  <1> HIDE DEF node, next, bad
  <1>4. /\ rd' = RdIs(rd') /\ rd'.stale = rd.stale /\ rd'.tree = rd.tree
        /\ rd'.expect = rd.expect /\ rd'.key = rd.key /\ rd'.mapped = rd.mapped
        /\ bad => rd'.step = "failed"
        /\ ~bad /\ node.type = "internal" => rd'.step = "walk" /\ rd'.page = next
        /\ ~bad /\ node.type = "leaf" => rd'.step = "done" /\ rd'.page = lookup(node, rd.key)
        /\ rd'.step \in {"walk", "done", "failed"}
    <2>1. CASE bad
      <3>1. rd' = [rd EXCEPT !.step = "failed"]
        BY <1>2, <2>1
      <3> QED BY <1>2, <1>3, <2>1, <3>1 DEF RdIs
    <2>2. CASE ~bad /\ node.type = "internal"
      <3>1. rd' = [rd EXCEPT !.page = next]
        BY <1>2, <2>2
      <3> QED BY <1>2, <1>3, <2>2, <3>1 DEF RdIs
    <2>3. CASE ~bad /\ node.type = "leaf"
      <3>1. rd' = [rd EXCEPT !.step = "done", !.page = lookup(node, rd.key)]
        BY <1>2, <2>3
      <3> QED BY <1>2, <1>3, <2>3, <3>1 DEF RdIs
    <2> QED BY <1>8, <2>1, <2>2, <2>3
  <1>5. ASSUME ~rd.stale
        PROVE  \E t3, m3 : Reads(rd', pages, c, t3, m3)
    <2>1. PICK t3, m3 : Reads(rd, pages, c, t3, m3)
      BY <1>1, <1>2, <1>5 DEF Reading, NoReader
    <2>2. /\ Forest(pages, t3, m3) /\ t3.T = rd.tree /\ Apart(rd.tree, c)
          /\ rd.page \in t3.T /\ rd.key \in t3.rng[rd.page] /\ m3[rd.key] = rd.expect
      BY <1>2, <2>1 DEF Reads
    <2>3. /\ t3.lev[rd.page] \in Nat /\ t3.rng[rd.page] \subseteq Key
          /\ t3.lev[rd.page] > 0 <=> node.type = "internal"
          /\ t3.lev[rd.page] = 0 <=> node.type = "leaf"
      BY <2>2, TypeOfPage DEF node
    <2>6. CASE bad
      <3>1. rd.page > rd.mapped
        BY <1>9, <2>3, <2>6
      <3>2. rd'.step = "failed"
        BY <1>4, <2>6
      <3>3. Reads(rd', pages, c, t3, m3)
        BY <1>4, <2>2, <3>1, <3>2 DEF Reads
      <3> QED BY <3>3
    <2>4. CASE ~bad /\ t3.lev[rd.page] > 0
      <3>1. next \in t3.T /\ rd.key \in t3.rng[next]
        BY <2>2, <2>4, ChildOf DEF node, next
      <3>2. rd'.step = "walk" /\ rd'.page = next
        BY <1>4, <2>3, <2>4
      <3>3. Reads(rd', pages, c, t3, m3)
        BY <1>4, <2>2, <3>1, <3>2 DEF Reads
      <3> QED BY <3>3
    <2>5. CASE ~bad /\ t3.lev[rd.page] = 0
      <3>1. LeafOK(node, t3.rng[rd.page], m3)
        BY <2>2, <2>5 DEF Forest, NodeOK, node
      <3>2. lookup(node, rd.key) = m3[rd.key]
        BY <2>2, <2>3, <3>1, LookupIs
      <3>3. rd'.step = "done" /\ rd'.page = lookup(node, rd.key)
        BY <1>4, <2>3, <2>5
      <3>4. Reads(rd', pages, c, t3, m3)
        BY <1>4, <2>2, <3>2, <3>3 DEF Reads
      <3> QED BY <3>4
    <2> QED BY <2>3, <2>4, <2>5, <2>6
  <1>6. Reading(c)'
    BY <1>2, <1>3, <1>4, <1>5 DEF Reading, Steps
  <1>7. Store(t, c)' /\ Working(c, t.T)'
    BY <1>1, <1>2 DEF Store, Working, OpIs
  <1> QED BY <1>2, <1>6, <1>7 DEF TreeInv

LEMMA TreeStep == TreeInv /\ [Next]_vars => TreeInv'
  <1> SUFFICES ASSUME TreeInv, [Next]_vars PROVE TreeInv'
    OBVIOUS
  <1>1. ASSUME NEW k \in Key, Delete(k) PROVE TreeInv'
    BY <1>1, DeleteKeeps
  <1>2. ASSUME NEW k \in Key, Insert(k, ops + 1) PROVE TreeInv'
    BY <1>2, InsertKeeps
  <1>3. ASSUME NEW k \in ReadKeys, OpenReader(k) PROVE TreeInv'
    BY <1>3, OpenKeeps
  <1>10. CASE ReadHeader
    BY <1>10, HeaderKeeps
  <1>4. CASE WritePage
    BY <1>4, WritePageKeeps
  <1>5. CASE publish_root
    BY <1>5, PublishKeeps
  <1>6. CASE free_page
    BY <1>6, FreeKeeps
  <1>7. CASE Crash
    <2>1. PICK t, c : Store(t, c) /\ Working(c, t.T) /\ Reading(c)
      BY DEF TreeInv
    <2>2. op' = Idle /\ UNCHANGED <<pages, hdr, map, rd, ops>>
      BY <1>7 DEF Crash
    <2>3. Store(t, c)' /\ Working(c, t.T)' /\ Reading(c)'
      BY <2>1, <2>2 DEF Store, Working, Reading, RdIs
    <2> QED BY <2>2, <2>3 DEF TreeInv
  <1>8. CASE ReadPage
    BY <1>8, ReadPageKeeps
  <1>9. CASE UNCHANGED vars
    <2>1. PICK t, c : Store(t, c) /\ Working(c, t.T) /\ Reading(c)
      BY DEF TreeInv
    <2>2. UNCHANGED <<pages, hdr, op, map, rd, ops>>
      BY <1>9 DEF vars
    <2>3. Store(t, c)' /\ Working(c, t.T)' /\ Reading(c)'
      BY <2>1, <2>2 DEF Store, Working, OpIs, Reading, RdIs
    <2> QED BY <2>2, <2>3 DEF TreeInv
  <1> QED BY <1>1, <1>2, <1>3, <1>4, <1>5, <1>6, <1>7, <1>8, <1>9, <1>10 DEF Next

\* The invariant: the pages of the file are the tree of the published map,
\* the freelist, the pages of the operation under way, and leaked ones, and
\* these never meet; the pages an operation has still to write complete its
\* tree (insert, delete, publish_root, free_page of btree.rs and pager.rs).
THEOREM TreeInvariant == Spec => []TreeInv
  <1>1. Init => TreeInv
    BY EmptyFile
  <1>2. TreeInv /\ [Next]_vars => TreeInv'
    BY TreeStep
  <1> QED BY <1>1, <1>2, PTL DEF Spec

\* allocate_page and free_page never hand out a page of the tree, nor a page
\* twice, whatever crash fell between the writes of an operation.
THEOREM FreelistSound == Spec => []FreelistIsSound
  <1>1. TreeInv => FreelistIsSound
    <2> SUFFICES ASSUME TreeInv PROVE FreelistIsSound
      OBVIOUS
    <2>1. PICK t, c : Store(t, c)
      BY DEF TreeInv
    <2>2. /\ pages \in Seq(Node) /\ Chain(pages, c, hdr.free)
          /\ Tree(pages, t, hdr.root, map) /\ Apart(t.T, c)
      BY <2>1 DEF Store
    <2>3. FreeChain(pages, hdr.free) = c
      BY <2>2, ChainIs
    <2>4. c \in Seq(1..Len(pages)) /\ DOMAIN c = 1..Len(c) /\ Distinct(c)
      <3>1. c \in Seq(1..Len(pages)) /\ Distinct(c)
        BY <2>2 DEF Chain, FreePages
      <3> QED BY <3>1
    <2>5. Reach(pages, hdr.root) \subseteq t.T
      <3>1. CASE hdr.root = Null
        BY <2>2, <3>1, ReachNull
      <3>2. CASE hdr.root # Null
        BY <2>2, <3>2, ReachIs DEF Tree
      <3> QED BY <3>1, <3>2
    <2>6. IsInjective(c)
      BY <2>4 DEF IsInjective, Distinct
    <2>7. ToSet(c) \cap Reach(pages, hdr.root) = {}
      BY <2>2, <2>4, <2>5 DEF ToSet, Apart
    <2> QED BY <2>3, <2>6, <2>7 DEF FreelistIsSound
  <1> QED BY <1>1, TreeInvariant, PTL

\* A get in another process on the root it opened with (BTree::open, get)
\* returns what was published when it read the header, while the writer
\* inserts, deletes and dies, until a page of that tree goes back to the
\* freelist; it fails only when a page of that tree lies beyond the length
\* the file had when the reader mapped it, before it read the header.
THEOREM ReaderExact == Spec => []ReaderExactUnlessReclaimed
  <1>1. TreeInv => ReaderExactUnlessReclaimed
    <2> SUFFICES ASSUME TreeInv, rd # NoReader, ~rd.stale
                 PROVE  /\ rd.step = "done" => rd.page = rd.expect
                        /\ rd.step = "failed" => \E p \in rd.tree : p > rd.mapped
      BY DEF ReaderExactUnlessReclaimed
    <2>1. PICK t, c : Reading(c)
      BY DEF TreeInv
    <2>2. CASE rd.step # "open"
      <3>1. PICK t3, m3 : Reads(rd, pages, c, t3, m3)
        BY <2>1, <2>2 DEF Reading
      <3> QED BY <3>1 DEF Reads
    <2> QED BY <2>2
  <1> QED BY <1>1, TreeInvariant, PTL

LEMMA MapIs ==
    ASSUME NEW f \in Seq(Node), NEW t, NEW p, NEW m \in Maps, Tree(f, t, p, m)
    PROVE  [k \in Key |-> get(f, p, k)] = m
  <1>1. \A k \in Key : get(f, p, k) = m[k]
    <2> TAKE k \in Key
    <2>1. CASE p = Null
      BY <2>1 DEF Tree, get
    <2>2. CASE p # Null
      <3>1. Forest(f, t, m) /\ p \in t.T /\ k \in t.rng[p]
        BY <2>2 DEF Tree
      <3> QED BY <3>1, GetIs
    <2> QED BY <2>1, <2>2
  <1>2. m = [k \in Key |-> m[k]]
    BY DEF Maps
  <1> QED BY <1>1, <1>2

\* The tree in the file implements an atomic map: publish_root makes one
\* insert or delete visible to get, and no other write to the file, no page
\* given back and no crash changes what get returns.
THEOREM AtomicMap == Spec => IsAtomicMap
  <1> DEFINE g == [k \in Key |-> get(pages, hdr.root, k)]
  <1>1. Init => Map!Init
    <2> SUFFICES ASSUME Init PROVE g = [k \in Key |-> None]
      BY DEF Map!Init
    <2>1. \A k \in Key : get(pages, hdr.root, k) = None
      BY DEF Init, get
    <2> QED BY <2>1
  <1>2. TreeInv /\ TreeInv' /\ [Next]_vars => [Map!Next]_g
    <2> SUFFICES ASSUME TreeInv, TreeInv', [Next]_vars PROVE Map!Next \/ g' = g
      OBVIOUS
    <2>1. g = map
      <3>1. PICK t, c : Store(t, c)
        BY DEF TreeInv
      <3> QED BY <3>1, MapIs DEF Store
    <2>2. g' = map'
      <3>1. PICK t, c : Store(t, c)'
        BY DEF TreeInv
      <3>2. pages' \in Seq(Node) /\ map' \in Maps /\ Tree(pages', t, hdr'.root, map')
        BY <3>1 DEF Store
      <3>3. [k \in Key |-> get(pages', hdr'.root, k)] = map'
        BY <3>2, MapIs
      <3> QED BY <3>3
    <2> HIDE DEF g
    <2>3. ASSUME publish_root PROVE Map!Next
      <3>1. op.step = "write" /\ map' = op.map
        BY <2>3 DEF publish_root
      <3>2. Edit(map, op.map)
        BY <3>1 DEF TreeInv, Working, Idle
      <3>3. PICK k \in Key, v \in Value \cup {None} : map' = [map EXCEPT ![k] = v]
        BY <3>1, <3>2 DEF Edit
      <3>4. g' = [g EXCEPT ![k] = v]
        BY <2>1, <2>2, <3>3
      <3>5. v = None => Map!Delete(k)
        BY <3>4 DEF Map!Delete, g
      <3>6. v \in Value => Map!Insert(k, v)
        BY <3>4 DEF Map!Insert, g
      <3> QED BY <3>5, <3>6 DEF Map!Next, Value
    <2>4. CASE publish_root
      BY <2>3, <2>4
    <2>5. CASE ~publish_root
      <3>1. map' = map
        BY <2>5 DEF Next, vars, Delete, Insert, Begin, OpenReader, ReadHeader, WritePage,
                    free_page, Crash, ReadPage
      <3> QED BY <2>1, <2>2, <3>1
    <2> QED BY <2>4, <2>5
  <1> QED BY <1>1, <1>2, TreeInvariant, PTL DEF Spec, IsAtomicMap, Map!Spec

-----------------------------------------------------------------------------
(* scan_all                                                                *)

\* s is the first n of the sequences ss one after the other, and any two of
\* its elements are in the relation L.
Flat(s, V, ss, n, L) ==
    /\ s \in Seq(V)
    /\ \A x, y \in 1..Len(s) : x < y => <<s[x], s[y]>> \in L
    /\ \A x \in 1..Len(s) : \E i \in 1..n : \E a \in 1..Len(ss[i]) : s[x] = ss[i][a]
    /\ \A i \in 1..n : \A a \in 1..Len(ss[i]) : \E x \in 1..Len(s) : s[x] = ss[i][a]

\* The elements of the sequences ss are in the relation L, within each and
\* from one to a later one.
InOrder(ss, V, L) ==
    /\ ss \in Seq(Seq(V))
    /\ \A i \in 1..Len(ss) : \A a, b \in 1..Len(ss[i]) : a < b => <<ss[i][a], ss[i][b]>> \in L
    /\ \A i, j \in 1..Len(ss) : i < j =>
          \A a \in 1..Len(ss[i]) : \A b \in 1..Len(ss[j]) : <<ss[i][a], ss[j][b]>> \in L

LEMMA FlatOne ==
    ASSUME NEW V, NEW L, NEW ss, InOrder(ss, V, L), Len(ss) >= 1
    PROVE  Flat(ss[1], V, ss, 1, L)
  <1>1. 1 \in 1..Len(ss) /\ ss[1] \in Seq(V)
    <2>1. Len(ss) \in Nat /\ \A i \in 1..Len(ss) : ss[i] \in Seq(V)
      BY DEF InOrder
    <2> QED BY <2>1
  <1>2. \A i \in 1..1 : i = 1
    OBVIOUS
  <1>3. 1 \in 1..1
    OBVIOUS
  <1> QED BY <1>1, <1>2, <1>3 DEF Flat, InOrder

LEMMA FlatMore ==
    ASSUME NEW V, NEW L, NEW ss, InOrder(ss, V, L), NEW n \in 2..Len(ss), NEW s,
           Flat(s, V, ss, n - 1, L)
    PROVE  Flat(s \o ss[n], V, ss, n, L)
  <1> DEFINE b == ss[n]
             r == s \o b
             h == Len(s)
             g == Len(b)
  <1>0. Len(ss) \in Nat /\ ss \in Seq(Seq(V))
    BY DEF InOrder
  <1>1. /\ n \in 1..Len(ss) /\ n \in Nat /\ n - 1 \in 1..Len(ss)
        /\ \A i \in 1..(n - 1) : i \in 1..Len(ss) /\ i < n /\ i \in 1..n
    BY <1>0
  <1>2. s \in Seq(V) /\ b \in Seq(V) /\ h \in Nat /\ g \in Nat
    BY <1>0, <1>1 DEF Flat
  <1> HIDE DEF b
  <1>3. /\ r \in Seq(V) /\ Len(r) = h + g
        /\ \A j \in 1..h : r[j] = s[j]
        /\ \A j \in (h + 1)..(h + g) : r[j] = b[j - h]
    BY <1>2, ConcatIs
  <1> HIDE DEF r, h, g
  <1>4. \A j \in 1..(h + g) : j > h => j - h \in 1..g /\ r[j] = b[j - h]
    <2> SUFFICES ASSUME NEW j \in 1..(h + g), j > h PROVE j - h \in 1..g /\ r[j] = b[j - h]
      OBVIOUS
    <2>1. j - h \in 1..g /\ j \in (h + 1)..(h + g)
      BY <1>2
    <2> QED BY <1>3, <2>1
  <1>5. \A j \in 1..(h + g) : ~(j > h) => j \in 1..h /\ r[j] = s[j]
    <2> SUFFICES ASSUME NEW j \in 1..(h + g), ~(j > h) PROVE j \in 1..h /\ r[j] = s[j]
      OBVIOUS
    <2>1. j \in 1..h
      BY <1>2
    <2> QED BY <1>3, <2>1
  <1>6. /\ \A x, y \in 1..h : x < y => <<s[x], s[y]>> \in L
        /\ \A x \in 1..h : \E i \in 1..(n - 1) : \E a \in 1..Len(ss[i]) : s[x] = ss[i][a]
        /\ \A i \in 1..(n - 1) : \A a \in 1..Len(ss[i]) : \E x \in 1..h : s[x] = ss[i][a]
    BY DEF Flat, h
  <1>7. /\ \A x, y \in 1..g : x < y => <<b[x], b[y]>> \in L
        /\ \A i \in 1..(n - 1) : \A x \in 1..Len(ss[i]) : \A y \in 1..g : <<ss[i][x], b[y]>> \in L
    BY <1>1 DEF InOrder, b, g
  <1>8. ASSUME NEW x \in 1..(h + g), NEW y \in 1..(h + g), x < y
        PROVE  <<r[x], r[y]>> \in L
    <2>1. CASE x > h
      <3>1. y > h
        BY <1>2, <1>8, <2>1
      <3>2. x - h < y - h
        BY <1>2, <1>8
      <3> QED BY <1>4, <1>7, <2>1, <3>1, <3>2
    <2>2. CASE ~(x > h) /\ ~(y > h)
      BY <1>5, <1>6, <1>8, <2>2
    <2>3. CASE ~(x > h) /\ y > h
      <3>1. PICK i \in 1..(n - 1) : \E a \in 1..Len(ss[i]) : r[x] = ss[i][a]
        BY <1>5, <1>6, <2>3
      <3>2. y - h \in 1..g /\ r[y] = b[y - h]
        BY <1>4, <2>3
      <3> QED BY <1>7, <3>1, <3>2
    <2> QED BY <2>1, <2>2, <2>3
  <1>9. ASSUME NEW x \in 1..(h + g)
        PROVE  \E i \in 1..n : \E a \in 1..Len(ss[i]) : r[x] = ss[i][a]
    <2>1. CASE x > h
      <3>1. n \in 1..n /\ x - h \in 1..Len(ss[n]) /\ r[x] = ss[n][x - h]
        BY <1>1, <1>4, <2>1 DEF b, g
      <3> QED BY <3>1
    <2>2. CASE ~(x > h)
      <3>1. PICK i \in 1..(n - 1) : \E a \in 1..Len(ss[i]) : r[x] = ss[i][a]
        BY <1>5, <1>6, <2>2
      <3> QED BY <1>1, <3>1
    <2> QED BY <2>1, <2>2
  <1>10. ASSUME NEW i \in 1..n, NEW a \in 1..Len(ss[i])
         PROVE  \E x \in 1..(h + g) : r[x] = ss[i][a]
    <2>1. CASE i = n
      <3>1. a \in 1..g
        BY <2>1 DEF g, b
      <3>2. h + a \in (h + 1)..(h + g) /\ h + a \in 1..(h + g) /\ (h + a) - h = a
        BY <1>2, <3>1
      <3>3. r[h + a] = b[a]
        BY <1>3, <3>2
      <3> QED BY <2>1, <3>2, <3>3 DEF b
    <2>2. CASE i # n
      <3>1. i \in 1..(n - 1)
        BY <1>1, <2>2
      <3>2. PICK x \in 1..h : s[x] = ss[i][a]
        BY <1>6, <3>1
      <3>3. x \in 1..(h + g)
        BY <1>2
      <3> QED BY <1>3, <3>2, <3>3
    <2> QED BY <2>1, <2>2
  <1>11. Len(r) = h + g /\ r \in Seq(V)
    BY <1>3
  <1>12. \A x, y \in 1..Len(r) : x < y => <<r[x], r[y]>> \in L
    BY <1>8, <1>11
  <1>13. \A x \in 1..Len(r) : \E i \in 1..n : \E a \in 1..Len(ss[i]) : r[x] = ss[i][a]
    BY <1>9, <1>11
  <1>14. \A i \in 1..n : \A a \in 1..Len(ss[i]) : \E x \in 1..Len(r) : r[x] = ss[i][a]
    BY <1>10, <1>11
  <1>15. Flat(r, V, ss, n, L)
    BY <1>11, <1>12, <1>13, <1>14 DEF Flat
  <1> QED BY <1>15 DEF r, b

LEMMA FlattenIs ==
    ASSUME NEW V, NEW L, NEW ss, InOrder(ss, V, L)
    PROVE  Flat(FlattenSeq(ss), V, ss, Len(ss), L)
  <1> DEFINE n == Len(ss)
  <1>0. n \in Nat /\ ss \in Seq(Seq(V)) /\ \A i \in 1..n : ss[i] \in Seq(V)
    BY DEF InOrder
  <1>1. CASE n = 0
    <2>1. ss = <<>> /\ FlattenSeq(ss) = ss
      BY <1>0, <1>1 DEF FlattenSeq
    <2>2. <<>> \in Seq(V) /\ Len(<<>>) = 0
      BY EmptySeq
    <2>3. ss \in Seq(V) /\ 1..Len(ss) = {}
      BY <1>1, <2>1, <2>2
    <2>4. Flat(ss, V, ss, Len(ss), L)
      BY <2>3 DEF Flat
    <2> QED BY <2>1, <2>4
  <1>2. CASE n # 0
    <2> DEFINE S == Seq(V)
               k == n - 1
               F == [x \in S \X (1..k) |-> x[1] \o ss[x[2] + 1]]
               Body(u) == [i \in 1..n |-> IF i = 1 THEN ss[i] ELSE u[i - 1] \o ss[i]]
               flatten == CHOOSE u : u = Body(u)
    <2>1. k \in Nat /\ 1 \in 1..n /\ ss[1] \in S
      BY <1>0, <1>2
    <2>2. \A x \in S \X (1..k) : x[1] \o ss[x[2] + 1] \in S
      <3> TAKE x \in S \X (1..k)
      <3>1. x[1] \in S /\ x[2] + 1 \in 1..n
        BY <1>0, <2>1
      <3>2. ss[x[2] + 1] \in S
        BY <1>0, <3>1
      <3> QED BY <3>1, <3>2, ConcatIs
    <2>3. F \in [S \X (1..k) -> S]
      BY <2>2
    <2> HIDE DEF S, k
    <2>4. PICK g \in [0..k -> S] : g[0] = ss[1] /\ \A j \in 1..k : g[j] = F[<<g[j - 1], j>>]
      <3> DEFINE b == ss[1]
      <3>1. b \in S
        BY <2>1
      <3> HIDE DEF F, n, b
      <3>2. k \in Nat /\ F \in [S \X (1..k) -> S]
        BY <2>1, <2>3
      <3>3. \E g : Iteration(g, S, b, k, F)
        BY <3>1, <3>2, Fixpoint
      <3>4. PICK g : Iteration(g, S, b, k, F)
        BY <3>3
      <3>5. /\ g = [j \in 0..k |-> IF j = 0 THEN b ELSE F[<<g[j - 1], j>>]]
            /\ \A j \in 0..k : g[j] \in S
        BY <3>4 DEF Iteration
      <3>6. g \in [0..k -> S]
        BY <3>5
      <3>7. 0 \in 0..k /\ \A j \in 1..k : j \in 0..k /\ j # 0
        BY <2>1
      <3>8. g[0] = b /\ \A j \in 1..k : g[j] = F[<<g[j - 1], j>>]
        BY <3>5, <3>7
      <3> QED BY <3>6, <3>8 DEF b
    <2>5. \A j \in 1..k : g[j] = g[j - 1] \o ss[j + 1]
      <3> TAKE j \in 1..k
      <3>1. j - 1 \in 0..k
        BY <2>1
      <3>2. <<g[j - 1], j>> \in S \X (1..k)
        BY <3>1
      <3> QED BY <2>4, <3>2
    <2> HIDE DEF F
    <2> DEFINE u == [i \in 1..n |-> g[i - 1]]
    <2>6. u = Body(u)
      <3>1. \A i \in 1..n : u[i] = IF i = 1 THEN ss[i] ELSE u[i - 1] \o ss[i]
        <4> TAKE i \in 1..n
        <4>1. CASE i = 1
          BY <2>4, <4>1
        <4>2. CASE i # 1
          <5>1. i - 1 \in 1..k /\ i - 1 \in 1..n /\ (i - 1) + 1 = i
            BY <1>0, <4>2 DEF k
          <5>2. u[i] = g[i - 1] /\ u[i - 1] = g[(i - 1) - 1]
            BY <5>1
          <5> HIDE DEF u
          <5> QED BY <2>5, <4>2, <5>1, <5>2
        <4> QED BY <4>1, <4>2
      <3>2. u = [i \in 1..n |-> u[i]]
        OBVIOUS
      <3> HIDE DEF u
      <3> QED BY <3>1, <3>2
    <2>7. flatten = Body(flatten)
      <3> HIDE DEF Body, u
      <3> QED BY <2>6
    <2>8. FlattenSeq(ss) = flatten[n]
      BY <1>2 DEF FlattenSeq
    <2> HIDE DEF flatten
    <2>9. flatten[1] = ss[1] /\ \A i \in 2..n : flatten[i] = flatten[i - 1] \o ss[i]
      <3>1. \A i \in 1..n : flatten[i] = IF i = 1 THEN ss[i] ELSE flatten[i - 1] \o ss[i]
        BY <2>7
      <3>2. \A i \in 2..n : i \in 1..n /\ i # 1
        BY <1>0
      <3> QED BY <2>1, <3>1, <3>2
    <2> DEFINE U == {j \in 0..k : Flat(flatten[j + 1], V, ss, j + 1, L)}
    <2>10. 0 \in U
      <3>1. Flat(ss[1], V, ss, 1, L)
        <4>1. Len(ss) >= 1
          BY <1>0, <1>2
        <4> QED BY <4>1, FlatOne
      <3>2. 0 + 1 = 1 /\ 0 \in 0..k
        BY <2>1
      <3> QED BY <2>9, <3>1, <3>2
    <2>11. ASSUME NEW j \in 1..k, j - 1 \in U PROVE j \in U
      <3>1. (j - 1) + 1 = (j + 1) - 1 /\ j + 1 \in 2..n /\ j \in 0..k
        BY <1>0, <2>1 DEF k
      <3>2. Flat(flatten[(j + 1) - 1], V, ss, (j + 1) - 1, L)
        BY <2>11, <3>1
      <3> DEFINE i == j + 1
      <3>3. i \in 2..Len(ss) /\ Flat(flatten[i - 1], V, ss, i - 1, L)
        BY <3>1, <3>2
      <3>4. i = j + 1
        OBVIOUS
      <3> HIDE DEF i
      <3>5. Flat(flatten[i - 1] \o ss[i], V, ss, i, L)
        BY <3>3, FlatMore
      <3>6. Flat(flatten[i], V, ss, i, L)
        BY <2>9, <3>1, <3>4, <3>5
      <3> QED BY <3>1, <3>4, <3>6
    <2>12. 0..k \subseteq U
      <3> HIDE DEF U
      <3> QED BY <2>1, <2>10, <2>11, UpTo
    <2>13. k \in 0..k /\ k + 1 = n
      BY <1>0, <2>1 DEF k
    <2>14. Flat(flatten[n], V, ss, n, L)
      BY <2>12, <2>13
    <2> QED BY <2>8, <2>14
  <1> QED BY <1>1, <1>2

\* Every key in the range of one page is below every key in that of the other.
Before(t) == {e \in t.T \X t.T : \A x \in t.rng[e[1]] : \A y \in t.rng[e[2]] : x < y}

\* b is what page q becomes in the next row: its children, or a leaf itself.
Block(b, q, t) ==
    /\ b \in Seq(t.T)
    /\ \A x, y \in 1..Len(b) : x < y => <<b[x], b[y]>> \in Before(t)
    /\ \A a \in 1..Len(b) : /\ t.rng[b[a]] \subseteq t.rng[q]
                            /\ t.lev[b[a]] = IF t.lev[q] > 0 THEN t.lev[q] - 1 ELSE 0
    /\ \A x \in t.rng[q] : \E a \in 1..Len(b) : x \in t.rng[b[a]]

\* r is a row of the tree: its pages, in order, share out the keys R.
Row(r, t, R) ==
    /\ r \in Seq(t.T)
    /\ \A x, y \in 1..Len(r) : x < y => <<r[x], r[y]>> \in Before(t)
    /\ \A x \in R : \E a \in 1..Len(r) : x \in t.rng[r[a]]

Blocks(f, r) == [i \in DOMAIN r |-> IF f[r[i]].type = "internal" THEN f[r[i]].kids ELSE <<r[i]>>]

\* The pages of s are one level below pages of r, or leaves.
Sinks(s, r, t) ==
    \A x \in 1..Len(s) : \E i \in 1..Len(r) :
        t.lev[s[x]] = IF t.lev[r[i]] > 0 THEN t.lev[r[i]] - 1 ELSE 0

LEMMA OneIs == ASSUME NEW V, NEW q \in V PROVE <<q>> \in Seq(V) /\ Len(<<q>>) = 1 /\ <<q>>[1] = q
  OBVIOUS

LEMMA BlockIs ==
    ASSUME NEW f, NEW t, NEW m, Forest(f, t, m), NEW q \in t.T
    PROVE  Block(IF f[q].type = "internal" THEN f[q].kids ELSE <<q>>, q, t)
  <1>1. /\ t.lev[q] \in Nat /\ t.rng[q] \subseteq Key
        /\ t.lev[q] > 0 <=> f[q].type = "internal"
    BY TypeOfPage
  <1>2. CASE t.lev[q] > 0
    <2> DEFINE b == f[q].kids
               ks == f[q].keys
               R == t.rng[q]
    <2>1. Divides(ks, b, R, t.lev[q], t) /\ b \in Seq(Nat)
      BY <1>2, KidsAre
    <2>2. /\ ks \in Seq(Int) /\ Len(ks) \in Nat /\ Len(b) = Len(ks) + 1
          /\ \A i \in 1..Len(b) : b[i] \in t.T /\ t.lev[b[i]] = t.lev[q] - 1 /\ t.rng[b[i]] = Part(ks, R, i)
      <3>1. ks \in Seq(Int)
        BY <2>1, SeqOfKeys DEF Divides, Separators
      <3> QED BY <2>1, <3>1 DEF Divides, Has
    <2>3. b \in Seq(t.T)
      BY <2>1, <2>2, SeqMapped
    <2>4. ASSUME NEW x \in 1..Len(b), NEW y \in 1..Len(b), x < y
          PROVE  <<b[x], b[y]>> \in Before(t)
      <3>1. x \in 1..Len(ks) /\ ks[x] \in Int
        BY <2>2, <2>4
      <3>2. ASSUME NEW u \in Part(ks, R, x), NEW v \in Part(ks, R, y) PROVE u < v
        <4>1. u \in Int /\ v \in Int
          BY <1>1, CowTreeAssumption DEF Part
        <4>2. ~(ks[x] <= u) /\ ks[x] <= v
          BY <2>4, <3>1 DEF Part
        <4> QED BY <3>1, <4>1, <4>2
      <3> QED BY <2>2, <3>2 DEF Before
    <2>5. \A i \in 1..Len(b) : t.rng[b[i]] \subseteq R
      BY <2>2 DEF Part
    <2>6. ASSUME NEW x \in R PROVE \E a \in 1..Len(b) : x \in t.rng[b[a]]
      BY <1>2, ChildOf
    <2>7. Block(b, q, t)
      BY <1>2, <2>2, <2>3, <2>4, <2>5, <2>6 DEF Block
    <2> QED BY <1>1, <1>2, <2>7
  <1>3. CASE ~(t.lev[q] > 0)
    <2> DEFINE b == <<q>>
    <2>1. b \in Seq(t.T) /\ Len(b) = 1 /\ b[1] = q
      BY OneIs
    <2>2. t.lev[q] = 0
      BY <1>1, <1>3
    <2> HIDE DEF b
    <2>3. \A a \in 1..1 : a = 1
      OBVIOUS
    <2>4. 1 \in 1..1 /\ ~(1 < 1)
      OBVIOUS
    <2>5. Block(b, q, t)
      BY <2>1, <2>2, <2>3, <2>4 DEF Block
    <2> QED BY <1>1, <1>3, <2>5 DEF b
  <1> QED BY <1>2, <1>3

\* The blocks of a row are the next row, one level down.
LEMMA RowStep ==
    ASSUME NEW f, NEW t, NEW m, Forest(f, t, m), NEW r, NEW R, Row(r, t, R),
           NEW s, s = FlattenSeq(Blocks(f, r))
    PROVE  Row(s, t, R) /\ Sinks(s, r, t)
  <1> DEFINE n == Len(r)
             ss == Blocks(f, r)
  <1>1. n \in Nat /\ DOMAIN r = 1..n /\ \A i \in 1..n : r[i] \in t.T
    BY DEF Row
  <1>2. ss = [i \in 1..n |-> IF f[r[i]].type = "internal" THEN f[r[i]].kids ELSE <<r[i]>>]
    BY <1>1 DEF Blocks
  <1>3. \A i \in 1..n : Block(ss[i], r[i], t)
    <2> TAKE i \in 1..n
    <2>1. ss[i] = IF f[r[i]].type = "internal" THEN f[r[i]].kids ELSE <<r[i]>>
      BY <1>2
    <2> QED BY <1>1, <2>1, BlockIs
  <1>4. ss \in Seq(Seq(t.T)) /\ Len(ss) = n
    <2>1. \A i \in 1..n : ss[i] \in Seq(t.T)
      BY <1>3 DEF Block
    <2>2. ss \in [1..n -> Seq(t.T)]
      BY <1>2, <2>1
    <2> HIDE DEF ss, n
    <2> QED BY <1>1, <2>2
  <1> HIDE DEF ss, n
  <1> DEFINE L == Before(t)
  <1>5. \A i \in 1..n : \A a, b \in 1..Len(ss[i]) : a < b => <<ss[i][a], ss[i][b]>> \in L
    BY <1>3 DEF Block
  <1>6. ASSUME NEW i \in 1..n, NEW j \in 1..n, i < j,
               NEW a \in 1..Len(ss[i]), NEW b \in 1..Len(ss[j])
        PROVE  <<ss[i][a], ss[j][b]>> \in L
    <2>1. <<r[i], r[j]>> \in Before(t)
      BY <1>6 DEF Row, n
    <2>2. t.rng[ss[i][a]] \subseteq t.rng[r[i]] /\ t.rng[ss[j][b]] \subseteq t.rng[r[j]]
      BY <1>3 DEF Block
    <2>3. ss[i][a] \in t.T /\ ss[j][b] \in t.T
      <3>1. ss[i] \in Seq(t.T) /\ ss[j] \in Seq(t.T)
        BY <1>3 DEF Block
      <3> QED BY <3>1
    <2> QED BY <2>1, <2>2, <2>3 DEF Before
  <1>7. InOrder(ss, t.T, L)
    <2> HIDE DEF L
    <2> QED BY <1>4, <1>5, <1>6 DEF InOrder
  <1>8. Flat(s, t.T, ss, n, L)
    <2> HIDE DEF L
    <2>1. Flat(FlattenSeq(ss), t.T, ss, Len(ss), L)
      BY <1>7, FlattenIs
    <2> QED BY <1>4, <2>1 DEF ss
  <1>9. ASSUME NEW x \in R PROVE \E a \in 1..Len(s) : x \in t.rng[s[a]]
    <2>1. PICK i \in 1..n : x \in t.rng[r[i]]
      BY DEF Row, n
    <2>2. PICK b \in 1..Len(ss[i]) : x \in t.rng[ss[i][b]]
      BY <1>3, <2>1 DEF Block
    <2>3. PICK a \in 1..Len(s) : s[a] = ss[i][b]
      BY <1>8 DEF Flat
    <2> QED BY <2>2, <2>3
  <1>10. ASSUME NEW x \in 1..Len(s)
         PROVE  \E i \in 1..n : t.lev[s[x]] = IF t.lev[r[i]] > 0 THEN t.lev[r[i]] - 1 ELSE 0
    <2>1. PICK i \in 1..n : \E a \in 1..Len(ss[i]) : s[x] = ss[i][a]
      BY <1>8 DEF Flat
    <2> QED BY <1>3, <2>1 DEF Block
  <1>11. Row(s, t, R)
    BY <1>8, <1>9 DEF Flat, Row
  <1> QED BY <1>10, <1>11 DEF n, Sinks

\* Leaves is the row of level 0.
LEMMA LeavesAre ==
    ASSUME NEW f \in Seq(Node), NEW t, NEW m, Forest(f, t, m), NEW p \in t.T,
           NEW l, l = Leaves(f, p)
    PROVE  Row(l, t, t.rng[p]) /\ \A a \in 1..Len(l) : t.lev[l[a]] = 0
  <1> DEFINE n == Len(f)
             R == t.rng[p]
             d == t.lev[p]
             X == {r \in Seq(t.T) : Row(r, t, R)}
             F == [x \in X \X (1..n) |-> FlattenSeq(Blocks(f, x[1]))]
             Body(g) == [j \in 0..n |-> IF j = 0 THEN <<p>>
                            ELSE LET r == g[j - 1] IN
                                 FlattenSeq([i \in DOMAIN r |->
                                     IF f[r[i]].type = "internal" THEN f[r[i]].kids ELSE <<r[i]>>])]
             row == CHOOSE g : g = Body(g)
             b == <<p>>
  <1>1. n \in Nat /\ d \in Nat /\ d < n
    <2>1. NodeOK(f[p], t.lev[p], t.rng[p], t, m)
      BY DEF Forest
    <2>2. PICK k : k \in t.rng[p]
      BY <2>1 DEF NodeOK
    <2>3. Way(Descent(f, p, k), f, p, k)
      BY <2>2, DescentWalks
    <2>4. t.lev[p] \in Nat /\ t.lev[p] < Len(f)
      BY <2>2, <2>3, FewLevels
    <2> QED BY <2>4
  <1>2. Len(b) = 1 /\ b[1] = p /\ b \in Seq(t.T)
    BY OneIs
  <1> HIDE DEF b
  <1>3. b \in X
    <2>1. \A x, y \in 1..1 : ~(x < y)
      OBVIOUS
    <2>2. 1 \in 1..1
      OBVIOUS
    <2>3. Row(b, t, R)
      BY <1>2, <2>1, <2>2 DEF Row
    <2> QED BY <1>2, <2>3
  <1>4. F \in [X \X (1..n) -> X]
    <2>1. \A x \in X \X (1..n) : FlattenSeq(Blocks(f, x[1])) \in X
      <3> TAKE x \in X \X (1..n)
      <3>1. Row(x[1], t, R)
        OBVIOUS
      <3> DEFINE r == x[1]
                 s == FlattenSeq(Blocks(f, r))
      <3>2. s = FlattenSeq(Blocks(f, r)) /\ Row(r, t, R)
        BY <3>1
      <3> HIDE DEF r, s, R
      <3>3. Row(s, t, R)
        BY <3>2, RowStep
      <3>4. s \in Seq(t.T)
        BY <3>3 DEF Row
      <3> QED BY <3>3, <3>4 DEF s, r
    <2> QED BY <2>1
  <1> HIDE DEF X
  <1>5. PICK g : /\ g = [j \in 0..n |-> IF j = 0 THEN b ELSE F[<<g[j - 1], j>>]]
                 /\ \A j \in 0..n : g[j] \in X
    <2> HIDE DEF F, n
    <2>1. \E g : Iteration(g, X, b, n, F)
      BY <1>1, <1>3, <1>4, Fixpoint
    <2> QED BY <2>1 DEF Iteration
  <1>6. g = Body(g)
    <2>1. ASSUME NEW j \in 0..n, j # 0
          PROVE  F[<<g[j - 1], j>>] = FlattenSeq(Blocks(f, g[j - 1]))
      <3>1. j \in 1..n /\ j - 1 \in 0..n
        BY <1>1, <2>1
      <3>2. g[j - 1] \in X
        BY <1>5, <3>1
      <3> QED BY <3>1, <3>2
    <2> HIDE DEF F
    <2>2. Body(g) = [j \in 0..n |-> IF j = 0 THEN b ELSE F[<<g[j - 1], j>>]]
      BY <2>1 DEF Blocks, b
    <2> HIDE DEF Body
    <2> QED BY <1>5, <2>2
  <1>7. row = Body(row)
    <2> HIDE DEF Body
    <2> QED BY <1>6
  <1>8. row[0] = b /\ \A j \in 1..n : row[j] = FlattenSeq(Blocks(f, row[j - 1]))
    <2> HIDE DEF row
    <2>1. \A j \in 0..n : row[j] = IF j = 0 THEN b ELSE FlattenSeq(Blocks(f, row[j - 1]))
      BY <1>7 DEF Blocks, b
    <2>2. 0 \in 0..n /\ \A j \in 1..n : j \in 0..n /\ j # 0
      BY <1>1
    <2> QED BY <2>1, <2>2
  <1>9. Leaves(f, p) = row[n]
    BY DEF Leaves
  <1> HIDE DEF row, F
  <1> DEFINE Good(j) == /\ Row(row[j], t, R)
                        /\ \A a \in 1..Len(row[j]) : t.lev[row[j][a]] \in Nat
                        /\ \A a \in 1..Len(row[j]) : t.lev[row[j][a]] > 0 => t.lev[row[j][a]] <= d - j
             U == {j \in 0..n : Good(j)}
  <1>10. 0 \in U
    <2>1. Row(b, t, R)
      BY <1>3 DEF X
    <2>2. \A a \in 1..1 : a = 1
      OBVIOUS
    <2>3. \A a \in 1..Len(b) : t.lev[b[a]] = d
      BY <1>2, <2>2
    <2> HIDE DEF d, R
    <2> QED BY <1>1, <1>8, <2>1, <2>3
  <1>11. ASSUME NEW j \in 1..n, j - 1 \in U PROVE j \in U
    <2> DEFINE r == row[j - 1]
               s == row[j]
    <2>1. /\ Row(r, t, R) /\ s = FlattenSeq(Blocks(f, r))
          /\ \A a \in 1..Len(r) : t.lev[r[a]] \in Nat
          /\ \A a \in 1..Len(r) : t.lev[r[a]] > 0 => t.lev[r[a]] <= d - (j - 1)
      BY <1>8, <1>11
    <2> HIDE DEF r, s, R
    <2>2. Row(s, t, R) /\ Sinks(s, r, t)
      BY <2>1, RowStep
    <2>3. ASSUME NEW x \in 1..Len(s)
          PROVE  t.lev[s[x]] \in Nat /\ (t.lev[s[x]] > 0 => t.lev[s[x]] <= d - j)
      <3>1. PICK i \in 1..Len(r) : t.lev[s[x]] = IF t.lev[r[i]] > 0 THEN t.lev[r[i]] - 1 ELSE 0
        BY <2>2 DEF Sinks
      <3>2. t.lev[r[i]] \in Nat /\ (t.lev[r[i]] > 0 => t.lev[r[i]] <= d - (j - 1))
        BY <2>1
      <3> HIDE DEF d
      <3> QED BY SMTT(30), <1>1, <3>1, <3>2
    <2>4. j \in 0..n
      BY <1>1
    <2> QED BY <2>2, <2>3, <2>4 DEF s
  <1>12. 0..n \subseteq U
    <2> HIDE DEF U
    <2> QED BY <1>1, <1>10, <1>11, UpTo
  <1>13. Good(n)
    BY <1>1, <1>12
  <1>14. \A a \in 1..Len(row[n]) : t.lev[row[n][a]] = 0
    <2> TAKE a \in 1..Len(row[n])
    <2>1. t.lev[row[n][a]] \in Nat /\ (t.lev[row[n][a]] > 0 => t.lev[row[n][a]] <= d - n)
      BY <1>13
    <2> HIDE DEF d, n
    <2> QED BY <1>1, <2>1
  <1> QED BY <1>9, <1>13, <1>14

\* scan_all lists the map in the order of its keys.
Lists(s, m) ==
    /\ \A i, j \in DOMAIN s : i < j => s[i][1] < s[j][1]
    /\ ToSet(s) = {<<k, m[k]>> : k \in {j \in Key : m[j] # None}}

LEMMA EntriesAre ==
    ASSUME NEW node, NEW R, NEW m, LeafOK(node, R, m)
    PROVE  /\ Entries(node) \in Seq(Key \X Value) /\ Len(Entries(node)) = Len(node.keys)
           /\ \A i \in 1..Len(node.keys) : Entries(node)[i] = <<node.keys[i], node.vals[i]>>
  <1> DEFINE n == Len(node.keys)
             e == [i \in 1..n |-> <<node.keys[i], node.vals[i]>>]
  <1>1. /\ n \in Nat /\ DOMAIN node.keys = 1..n /\ \A i \in 1..n : node.keys[i] \in Key
        /\ Len(node.vals) = n /\ node.vals \in Seq(Value)
    BY DEF LeafOK, Holds
  <1>2. \A i \in 1..n : node.vals[i] \in Value
    BY <1>1
  <1>3. Entries(node) = e
    BY <1>1 DEF Entries
  <1> HIDE DEF n
  <1>4. e \in [1..n -> Key \X Value]
    BY <1>1, <1>2
  <1>5. \A i \in 1..n : e[i] = <<node.keys[i], node.vals[i]>>
    OBVIOUS
  <1> HIDE DEF e
  <1>6. e \in Seq(Key \X Value) /\ Len(e) = n
    BY <1>1, <1>4
  <1> QED BY <1>3, <1>5, <1>6 DEF n

LEMMA ScanIs ==
    ASSUME NEW f \in Seq(Node), NEW t, NEW p, NEW m \in Maps, Tree(f, t, p, m)
    PROVE  Lists(scan_all(f, p), m)
  <1>1. CASE p = Null
    <2>1. scan_all(f, p) = <<>> /\ \A k \in Key : m[k] = None
      BY <1>1 DEF Tree, scan_all
    <2>2. DOMAIN <<>> = {} /\ ToSet(<<>>) = {}
      BY DEF ToSet
    <2> QED BY <2>1, <2>2 DEF Lists
  <1>2. CASE p # Null
    <2> DEFINE l == Leaves(f, p)
               n == Len(l)
               ss == [i \in DOMAIN l |-> Entries(f[l[i]])]
               V == Key \X Value
               L == {e \in V \X V : e[1][1] < e[2][1]}
               s == FlattenSeq(ss)
    <2>1. Forest(f, t, m) /\ p \in t.T /\ t.rng[p] = Key
      BY <1>2 DEF Tree
    <2>2. Row(l, t, Key) /\ \A a \in 1..n : t.lev[l[a]] = 0
      BY <2>1, LeavesAre
    <2>3. scan_all(f, p) = s
      BY <1>2 DEF scan_all
    <2> HIDE DEF l
    <2>4. n \in Nat /\ DOMAIN l = 1..n /\ \A i \in 1..n : l[i] \in t.T
      BY <2>2 DEF Row
    <2>5. \A i \in 1..n : LeafOK(f[l[i]], t.rng[l[i]], m)
      BY <2>1, <2>2, <2>4 DEF Forest, NodeOK
    <2>6. \A i \in 1..n : /\ ss[i] \in Seq(V) /\ Len(ss[i]) = Len(f[l[i]].keys)
                          /\ \A a \in 1..Len(ss[i]) : ss[i][a] = <<f[l[i]].keys[a], f[l[i]].vals[a]>>
      <3> TAKE i \in 1..n
      <3>1. ss[i] = Entries(f[l[i]])
        BY <2>4
      <3> QED BY <2>5, <3>1, EntriesAre
    <2>7. ss \in Seq(Seq(V)) /\ Len(ss) = n
      <3>1. ss = [i \in 1..n |-> Entries(f[l[i]])]
        BY <2>4
      <3>2. ss \in [1..n -> Seq(V)]
        BY <2>6, <3>1
      <3> HIDE DEF ss, V, n
      <3> QED BY <2>4, <3>2
    <2> HIDE DEF ss, n
    <2>8. ASSUME NEW i \in 1..n, NEW a \in 1..Len(ss[i])
          PROVE  /\ a \in 1..Len(f[l[i]].keys) /\ ss[i][a] \in V
                 /\ ss[i][a][1] = f[l[i]].keys[a] /\ ss[i][a][2] = m[ss[i][a][1]]
                 /\ ss[i][a][1] \in t.rng[l[i]]
      <3>1. ss[i] \in Seq(V) /\ a \in 1..Len(f[l[i]].keys)
        BY <2>6
      <3>2. ss[i][a] \in V
        BY <3>1
      <3>3. f[l[i]].keys[a] \in t.rng[l[i]] /\ m[f[l[i]].keys[a]] = f[l[i]].vals[a]
        BY <2>5, <3>1 DEF LeafOK, Holds
      <3>4. ss[i][a] = <<f[l[i]].keys[a], f[l[i]].vals[a]>>
        BY <2>6
      <3> QED BY <3>1, <3>2, <3>3, <3>4
    <2>9. ASSUME NEW i \in 1..n, NEW a \in 1..Len(ss[i]), NEW b \in 1..Len(ss[i]), a < b
          PROVE  <<ss[i][a], ss[i][b]>> \in L
      <3>1. f[l[i]].keys[a] < f[l[i]].keys[b]
        BY <2>5, <2>8, <2>9 DEF LeafOK, Holds, Sorted
      <3>2. ss[i][a] \in V /\ ss[i][b] \in V /\ ss[i][a][1] < ss[i][b][1]
        BY <2>8, <3>1
      <3> QED BY <3>2
    <2>10. ASSUME NEW i \in 1..n, NEW j \in 1..n, i < j,
                  NEW a \in 1..Len(ss[i]), NEW b \in 1..Len(ss[j])
           PROVE  <<ss[i][a], ss[j][b]>> \in L
      <3>1. <<l[i], l[j]>> \in Before(t)
        BY <2>2, <2>10 DEF Row, n
      <3>2. ss[i][a][1] < ss[j][b][1]
        BY <2>8, <3>1 DEF Before
      <3>3. ss[i][a] \in V /\ ss[j][b] \in V
        BY <2>8
      <3> QED BY <3>2, <3>3
    <2>11. InOrder(ss, V, L)
      <3> HIDE DEF V, L
      <3> QED BY <2>7, <2>9, <2>10 DEF InOrder
    <2>12. Flat(s, V, ss, n, L)
      <3> HIDE DEF V, L
      <3>1. Flat(FlattenSeq(ss), V, ss, Len(ss), L)
        BY <2>11, FlattenIs
      <3> QED BY <2>7, <3>1
    <2> HIDE DEF s
    <2>13. /\ s \in Seq(V)
           /\ \A x, y \in 1..Len(s) : x < y => <<s[x], s[y]>> \in L
           /\ \A x \in 1..Len(s) : \E i \in 1..n : \E a \in 1..Len(ss[i]) : s[x] = ss[i][a]
           /\ \A i \in 1..n : \A a \in 1..Len(ss[i]) : \E x \in 1..Len(s) : s[x] = ss[i][a]
      <3> HIDE DEF V, L
      <3> QED BY <2>12 DEF Flat
    <2>14. DOMAIN s = 1..Len(s)
      <3> HIDE DEF V
      <3> QED BY <2>13
    <2>15. \A x, y \in DOMAIN s : x < y => s[x][1] < s[y][1]
      BY <2>13, <2>14
    <2> HIDE DEF L
    <2> DEFINE E == {<<k, m[k]>> : k \in {j \in Key : m[j] # None}}
    <2>16. ASSUME NEW x \in 1..Len(s) PROVE s[x] \in E
      <3>1. PICK i \in 1..n : \E a \in 1..Len(ss[i]) : s[x] = ss[i][a]
        BY <2>13
      <3>2. PICK a \in 1..Len(ss[i]) : s[x] = ss[i][a]
        BY <3>1
      <3>3. s[x] \in V /\ s[x][2] = m[s[x][1]]
        BY <2>8, <3>2
      <3>4. None \notin Value
        BY CowTreeAssumption DEF Value
      <3>5. PICK k \in Key, v \in Value : s[x] = <<k, v>>
        BY <3>3
      <3>6. v = m[k] /\ m[k] # None
        BY <3>3, <3>4, <3>5
      <3> QED BY <3>5, <3>6
    <2>17. ASSUME NEW k \in Key, m[k] # None PROVE \E x \in 1..Len(s) : s[x] = <<k, m[k]>>
      <3>1. PICK i \in 1..n : k \in t.rng[l[i]]
        BY <2>2 DEF Row, n
      <3>2. PICK a \in 1..Len(f[l[i]].keys) : f[l[i]].keys[a] = k
        BY <2>5, <2>17, <3>1 DEF LeafOK, Holds
      <3>3. a \in 1..Len(ss[i]) /\ ss[i][a] = <<f[l[i]].keys[a], f[l[i]].vals[a]>>
        BY <2>6, <3>2
      <3>4. f[l[i]].vals[a] = m[k]
        BY <2>5, <3>2 DEF LeafOK, Holds
      <3>5. PICK x \in 1..Len(s) : s[x] = ss[i][a]
        BY <2>13, <3>3
      <3> QED BY <3>2, <3>3, <3>4, <3>5
    <2>18. ToSet(s) = E
      <3>1. ToSet(s) = {s[x] : x \in 1..Len(s)}
        BY <2>14 DEF ToSet
      <3>2. ASSUME NEW e \in E PROVE e \in ToSet(s)
        <4>1. PICK k \in Key : m[k] # None /\ e = <<k, m[k]>>
          OBVIOUS
        <4> QED BY <2>17, <3>1, <4>1
      <3> HIDE DEF E
      <3> QED BY <2>16, <3>1, <3>2
    <2> QED BY <2>3, <2>15, <2>18 DEF Lists
  <1> QED BY <1>1, <1>2

\* scan_all (scan_rec, children in order) returns every entry of the published
\* map once, in ascending order, and no node it passes outgrows its page,
\* whatever was inserted, split and deleted and whatever crash came between.
THEOREM ScanExact == Spec => []ScanIsExact
  <1>1. TreeInv => ScanIsExact
    <2> SUFFICES ASSUME TreeInv PROVE ScanIsExact
      OBVIOUS
    <2>1. PICK t, c : Store(t, c)
      BY DEF TreeInv
    <2>2. pages \in Seq(Node) /\ map \in Maps /\ Tree(pages, t, hdr.root, map)
      BY <2>1 DEF Store
    <2>3. Lists(scan_all(pages, hdr.root), map)
      BY <2>2, ScanIs
    <2>4. ASSUME NEW p \in Reach(pages, hdr.root)
          PROVE  \/ /\ pages[p].type = "leaf" /\ Len(pages[p].keys) = Len(pages[p].vals)
                    /\ Len(pages[p].keys) <= LeafCap
                 \/ /\ pages[p].type = "internal" /\ Len(pages[p].kids) = Len(pages[p].keys) + 1
                    /\ Len(pages[p].keys) <= InternalCap
      <3>1. hdr.root # Null
        BY <2>2, <2>4, ReachNull
      <3>2. Forest(pages, t, map) /\ p \in t.T
        BY <2>2, <2>4, <3>1, ReachIs DEF Tree
      <3>3. t.lev[p] \in Nat /\ NodeOK(pages[p], t.lev[p], t.rng[p], t, map)
        BY <3>2, TypeOfPage DEF Forest
      <3>4. CASE t.lev[p] = 0
        BY <3>3, <3>4 DEF NodeOK, LeafOK, Holds
      <3>5. CASE t.lev[p] > 0
        BY <3>3, <3>5 DEF NodeOK, InnerOK, Divides
      <3> QED BY <3>3, <3>4, <3>5
    <2> QED BY <2>3, <2>4 DEF ScanIsExact, Lists
  <1> QED BY <1>1, TreeInvariant, PTL
=============================================================================
