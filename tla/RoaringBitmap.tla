--------------------------- MODULE RoaringBitmap ---------------------------
(***************************************************************************)
(* gems-bitmap: a map from the high part of a value to a container of low  *)
(* parts, a sorted array while it is small and a bit set once it has grown *)
(* past a threshold.  Two bitmaps are changed by every operation the       *)
(* engine uses, each beside the plain set it stands for.                   *)
(***************************************************************************)
EXTENDS Integers, Sequences, FiniteSets, SequencesExt

CONSTANTS
    Span,       \* values of a chunk (65536)
    Threshold,  \* ARRAY_TO_BITMAP_THRESHOLD
    Values      \* bound: the values used

VARIABLES
    bm,    \* "a", "b" -> chunks
    set,   \* reference: "a", "b" -> the set the bitmap stands for
    ret    \* what the last insert or remove returned, and what it should have

vars == <<bm, set, ret>>

split(v) == [high |-> v \div Span, low |-> v % Span]
join(high, low) == high * Span + low

Array(s) == [is |-> "array", lows |-> s]
Bits(S) == [is |-> "bitmap", bits |-> S]

-----------------------------------------------------------------------------
(* Container                                                               *)

new_array == Array(<<>>)

iter(c) == IF c.is = "array" THEN c.lows ELSE SetToSortSeq(c.bits, <)

len(c) == Len(iter(c))

\* binary_search on a sorted array: where low is, or where it belongs
Place(s, low) == Cardinality({i \in DOMAIN s : s[i] < low}) + 1
Found(s, low) == Place(s, low) <= Len(s) /\ s[Place(s, low)] = low

contains(c, low) == IF c.is = "array" THEN Found(c.lows, low) ELSE low \in c.bits

\* Mutant: the array is turned into bits before the new element is in it.
insert_PromotesFirst(c, low) ==
    IF contains(c, low) THEN c
    ELSE IF c.is = "bitmap" THEN Bits(c.bits \cup {low})
    ELSE IF Len(c.lows) >= Threshold THEN Bits(ToSet(c.lows))
    ELSE Array(InsertAt(c.lows, Place(c.lows, low), low))

insert(c, low) ==
    IF contains(c, low) THEN c
    ELSE IF c.is = "bitmap" THEN Bits(c.bits \cup {low})
    ELSE LET s == InsertAt(c.lows, Place(c.lows, low), low) IN
        IF Len(s) > Threshold THEN Bits(ToSet(s)) ELSE Array(s)

\* A bit set never becomes an array again.
remove(c, low) ==
    IF ~contains(c, low) THEN c
    ELSE IF c.is = "bitmap" THEN Bits(c.bits \ {low})
    ELSE Array(RemoveAt(c.lows, Place(c.lows, low)))

shrink_if_sparse(S) ==
    IF Cardinality(S) <= Threshold THEN Array(SetToSortSeq(S, <)) ELSE Bits(S)

\* Both sides are put into one bit set.
union(c, d) == shrink_if_sparse(ToSet(iter(c)) \cup ToSet(iter(d)))

\* The elements of one container that pass a test, one insert at a time
Filtered(c, Keep(_)) == FoldLeft(insert, new_array, SelectSeq(iter(c), Keep))

intersect(c, d) ==
    LET small == IF len(c) <= len(d) THEN c ELSE d
        large == IF len(c) <= len(d) THEN d ELSE c
    IN  Filtered(small, LAMBDA v : contains(large, v))

minus(c, d) == Filtered(c, LAMBDA v : ~contains(d, v))

-----------------------------------------------------------------------------
(* RoaringBitmap                                                           *)

NonEmpty(chunks) ==
    LET kept == {h \in DOMAIN chunks : len(chunks[h]) > 0} IN [h \in kept |-> chunks[h]]

Insert(chunks, v) ==
    LET at == split(v)  old == IF at.high \in DOMAIN chunks THEN chunks[at.high] ELSE new_array
    IN  [h \in DOMAIN chunks \cup {at.high} |-> IF h = at.high THEN insert(old, at.low) ELSE chunks[h]]

RemoveFrom(chunks, v) ==
    LET at == split(v) IN
        IF at.high \notin DOMAIN chunks THEN chunks
        ELSE NonEmpty([chunks EXCEPT ![at.high] = remove(@, at.low)])

Holds(chunks, v) ==
    LET at == split(v) IN at.high \in DOMAIN chunks /\ contains(chunks[at.high], at.low)

to_vec(chunks) ==
    FlattenSeq([i \in 1..Cardinality(DOMAIN chunks) |->
        LET h == SetToSortSeq(DOMAIN chunks, <)[i]  s == iter(chunks[h])
        IN  [j \in DOMAIN s |-> join(h, s[j])]])

Union(x, y) ==
    NonEmpty([h \in DOMAIN x \cup DOMAIN y |->
        IF h \notin DOMAIN y THEN x[h] ELSE IF h \notin DOMAIN x THEN y[h] ELSE union(x[h], y[h])])

Intersect(x, y) == NonEmpty([h \in DOMAIN x \cap DOMAIN y |-> intersect(x[h], y[h])])

AndNot(x, y) ==
    NonEmpty([h \in DOMAIN x |-> IF h \in DOMAIN y THEN minus(x[h], y[h]) ELSE x[h]])

-----------------------------------------------------------------------------

Init ==
    /\ bm = [n \in {"a", "b"} |-> <<>>] /\ set = [n \in {"a", "b"} |-> {}]
    /\ ret = [got |-> FALSE, want |-> FALSE]

\* insert and remove tell whether they changed anything.
InsertValue(n, v) ==
    /\ bm' = [bm EXCEPT ![n] = Insert(@, v)]
    /\ set' = [set EXCEPT ![n] = @ \cup {v}]
    /\ ret' = [got |-> ~Holds(bm[n], v), want |-> v \notin set[n]]

RemoveValue(n, v) ==
    /\ bm' = [bm EXCEPT ![n] = RemoveFrom(@, v)]
    /\ set' = [set EXCEPT ![n] = @ \ {v}]
    /\ ret' = [got |-> Holds(bm[n], v), want |-> v \in set[n]]

\* a becomes the result of an operation on both.
Combine ==
    /\ \/ /\ bm' = [bm EXCEPT !.a = Union(@, bm.b)]
          /\ set' = [set EXCEPT !.a = @ \cup set.b]
       \/ /\ bm' = [bm EXCEPT !.a = Intersect(@, bm.b)]
          /\ set' = [set EXCEPT !.a = @ \cap set.b]
       \/ /\ bm' = [bm EXCEPT !.a = AndNot(@, bm.b)]
          /\ set' = [set EXCEPT !.a = @ \ set.b]
    /\ UNCHANGED ret

Next ==
    \/ \E n \in {"a", "b"}, v \in Values : InsertValue(n, v) \/ RemoveValue(n, v)
    \/ Combine

Spec == Init /\ [][Next]_vars

\* Whatever the operations and whichever containers they leave behind, a
\* bitmap is the set it stands for: ordered when listed, empty exactly when
\* it has no chunk, agreeing on membership and on whether a change was one
\* (Container's promotion, shrink_if_sparse, the removal of empty chunks).
BitmapsAreSets ==
    /\ \A n \in {"a", "b"} :
        /\ to_vec(bm[n]) = SetToSortSeq(set[n], <)
        /\ DOMAIN bm[n] = {} <=> set[n] = {}
        /\ \A v \in Values : Holds(bm[n], v) <=> v \in set[n]
    /\ ret.got = ret.want
=============================================================================
