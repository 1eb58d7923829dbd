------------------------- MODULE SubscriptionProofs -------------------------
(***************************************************************************)
(* Proofs about Subscriptions, for any entities, records, watches,         *)
(* predicates and bounds: a view counts exactly the entities whose last    *)
(* record makes them match, and a subscriber has been told everything.     *)
(***************************************************************************)
EXTENDS Subscriptions, TLAPS, FiniteSetTheorems, SequenceTheorems

-----------------------------------------------------------------------------
(* The inductive invariant.                                                *)

Value == {r.attr : r \in {q \in Records : q.op = "insert"}} \cup {Unseen}

View == [pred : Predicates, members : {S \in SUBSET Entity : IsFiniteSet(S)}, from : Nat]

Knowledge == [from : Nat, told : Nat, val : Value, now : Value, shared : BOOLEAN]

\* Types; and no identifier given to a watch or a view is given again.
HubTyped ==
    /\ log \in Seq(Records)
    /\ saved \in 0..Len(log) /\ offset \in 0..Len(log) /\ pos \in 0..Len(log)
    /\ ids \in [sub : Nat, view : Nat]
    /\ cache \in [Entity -> Value]
    /\ subs \in [DOMAIN subs -> Watches] /\ DOMAIN subs \subseteq 1..ids.sub
    /\ views \in [DOMAIN views -> View] /\ DOMAIN views \subseteq 1..ids.view
    /\ know \in [DOMAIN subs -> Knowledge]
    /\ \A v \in DOMAIN views : views[v].from <= pos
    /\ \A i \in DOMAIN subs : know[i].from <= pos

\* An entity is a member of a view if the last record about it matches.
Belongs(e, from, p) ==
    \E j \in Since(from, e) :
        /\ \A k \in Since(from, e) : k <= j
        /\ log[j].op = "insert" /\ matches(p, log[j])

\* Writes and deletes are told once each.
Counted ==
    \A i \in DOMAIN subs :
        /\ subs[i].on = "any" => know[i].told = Cardinality(Since(know[i].from, subs[i].id))
        /\ subs[i].on = "deleted" =>
              know[i].told =
                 Cardinality({j \in Since(know[i].from, subs[i].id) : log[j].op = "delete"})

\* The newest value a watch has sighted is the one cached, so that the watch,
\* if it is alone, fires at the next change.
Sighted ==
    \A i \in DOMAIN subs :
        subs[i].on = "attr" =>
            /\ know[i].shared \/ know[i].val = know[i].now
            /\ know[i].val = Unseen <=> know[i].now = Unseen
            /\ know[i].now # Unseen =>
                  subs[i].id \in Entity /\ cache[subs[i].id] = know[i].now

\* A watch on a view knows its count; on one that is still to be created, the
\* count that it will start with.
ViewsTold ==
    \A i \in DOMAIN subs :
        subs[i].on = "view" =>
            /\ subs[i].id \in DOMAIN views => know[i].told = Count(subs[i].id)
            /\ subs[i].id \notin 1..ids.view => know[i].told = 0

SubInv == HubTyped /\ ViewsExact /\ Counted /\ Sighted /\ ViewsTold

-----------------------------------------------------------------------------
(* Lemmas.                                                                 *)

LEMMA SinceFinite ==
    ASSUME NEW from \in Nat, NEW id, NEW S, S \subseteq Since(from, id), HubTyped
    PROVE  IsFiniteSet(S) /\ Cardinality(S) \in Nat
  <1>1. pos \in Nat
    BY LenProperties DEF HubTyped
  <1>2. IsFiniteSet(from + 1 .. pos)
    BY <1>1, FS_Interval
  <1>3. S \subseteq from + 1 .. pos
    BY DEF Since
  <1> QED BY <1>2, <1>3, FS_Subset, FS_CardinalityType

LEMMA MembersFinite ==
    ASSUME HubTyped, NEW v \in DOMAIN views
    PROVE  /\ views[v] \in View /\ views[v].members \subseteq Entity
           /\ IsFiniteSet(views[v].members)
           /\ Cardinality(views[v].members) \in Nat
  <1>1. views[v] \in View
    BY DEF HubTyped
  <1>2. views[v].members \subseteq Entity /\ IsFiniteSet(views[v].members)
    BY <1>1 DEF View
  <1> QED BY <1>1, <1>2, FS_CardinalityType

LEMMA KnowTyped ==
    ASSUME HubTyped, NEW i \in DOMAIN subs
    PROVE  know[i] \in Knowledge
  BY DEF HubTyped

\* What a step that feeds no record and leaves the hub alone changes.
LEMMA HubUntouched ==
    ASSUME SubInv, UNCHANGED <<subs, cache, views, ids, know, log, pos>>,
           saved' \in 0..Len(log), offset' \in 0..Len(log)
    PROVE  SubInv'
  <1>1. HubTyped'
    BY DEF SubInv, HubTyped
  <1>2. \A from, id : Since(from, id)' = Since(from, id)
    BY DEF Since
  <1>3. ViewsExact'
    BY <1>2 DEF SubInv, ViewsExact
  <1>4. Counted'
    BY <1>2 DEF SubInv, Counted
  <1>5. Sighted' /\ ViewsTold'
    BY DEF SubInv, Sighted, ViewsTold, Count
  <1> QED BY <1>1, <1>3, <1>4, <1>5 DEF SubInv

\* A hub without watches and views knows all there is to know.
FreshHub ==
    /\ log \in Seq(Records) /\ saved \in 0..Len(log) /\ offset \in 0..Len(log)
    /\ pos \in 0..Len(log)
    /\ subs = << >> /\ views = << >> /\ know = << >>
    /\ cache = [e \in Entity |-> Unseen] /\ ids = [sub |-> 0, view |-> 0]

LEMMA EmptyHub == FreshHub => SubInv
  <1> SUFFICES ASSUME FreshHub PROVE SubInv
    OBVIOUS
  <1>1. DOMAIN subs = {} /\ DOMAIN views = {} /\ DOMAIN know = {}
    BY DEF FreshHub
  <1>2. HubTyped
    <2>1. subs \in [DOMAIN subs -> Watches]
      BY <1>1 DEF FreshHub
    <2>2. views \in [DOMAIN views -> View]
      BY <1>1 DEF FreshHub
    <2>3. know \in [DOMAIN subs -> Knowledge]
      BY <1>1 DEF FreshHub
    <2>4. cache \in [Entity -> Value] /\ ids \in [sub : Nat, view : Nat]
      BY DEF Value, FreshHub
    <2> QED BY <1>1, <2>1, <2>2, <2>3, <2>4 DEF HubTyped, FreshHub
  <1>3. ViewsExact /\ Counted /\ Sighted /\ ViewsTold
    BY <1>1 DEF ViewsExact, Counted, Sighted, ViewsTold
  <1> QED BY <1>2, <1>3 DEF SubInv

-----------------------------------------------------------------------------
(* The calls of NotificationHub other than process.                        *)

LEMMA SubscribeStep ==
    ASSUME SubInv, NEW w \in Watches, subscribe(w)
    PROVE  SubInv'
  <1> DEFINE n == ids.sub + 1
             k == [from |-> pos, told |-> IF w.on = "view" THEN Count(w.id) ELSE 0,
                   val |-> Unseen, now |-> Unseen, shared |-> FALSE]
  <1>1. HubTyped /\ ids \in [sub : Nat, view : Nat] /\ pos \in Nat /\ n \in Nat
    BY LenProperties DEF SubInv, HubTyped
  <1>2. /\ ids'.sub = n /\ ids'.view = ids.view /\ ids' \in [sub : Nat, view : Nat]
        /\ UNCHANGED <<log, saved, offset, pos, cache, views>>
    BY <1>1 DEF subscribe
  <1>3. /\ DOMAIN subs' = DOMAIN subs \cup {n} /\ subs'[n] = w
        /\ \A i \in DOMAIN subs : i # n => subs'[i] = subs[i]
    BY <1>2 DEF subscribe, Extend
  <1>4. n \notin DOMAIN subs
    BY <1>1 DEF HubTyped
  <1>5. DOMAIN know = DOMAIN subs
    BY <1>1 DEF HubTyped
  <1>6. /\ DOMAIN know' = DOMAIN subs' /\ know'[n] = k
        /\ \A i \in DOMAIN subs : know'[i] = know[i]
    BY <1>2, <1>3, <1>4, <1>5 DEF subscribe, Extend
  <1>7. Count(w.id) \in Nat
    BY <1>1, MembersFinite DEF Count
  <1>8. k \in Knowledge
    BY <1>1, <1>7 DEF Knowledge, Value
  <1>9. subs' \in [DOMAIN subs' -> Watches] /\ DOMAIN subs' \subseteq 1..ids'.sub
    <2>1. subs' = [x \in DOMAIN subs' |-> subs'[x]]
      BY <1>2 DEF subscribe, Extend
    <2>2. \A x \in DOMAIN subs' : subs'[x] \in Watches
      BY <1>1, <1>3, <1>4 DEF HubTyped
    <2>3. \A x \in DOMAIN subs : x \in 1..ids.sub
      BY <1>1 DEF HubTyped
    <2>4. \A x \in DOMAIN subs' : x \in 1..n
      BY <1>1, <1>3, <2>3
    <2> QED BY <1>2, <2>1, <2>2, <2>4
  <1>10. know' \in [DOMAIN subs' -> Knowledge]
    <2>1. know' = [x \in DOMAIN know' |-> know'[x]]
      BY DEF subscribe, Extend
    <2>2. \A x \in DOMAIN know' : know'[x] \in Knowledge
      BY <1>1, <1>3, <1>6, <1>8 DEF HubTyped
    <2> QED BY <1>6, <2>1, <2>2
  <1>11. HubTyped'
    <2>1. k.from = pos
      OBVIOUS
    <2>2. \A i \in DOMAIN subs' : know'[i].from <= pos'
      BY <1>1, <1>2, <1>3, <1>6, <2>1 DEF HubTyped
    <2> QED BY <1>1, <1>2, <1>9, <1>10, <2>2 DEF HubTyped
  <1>12. \A from, id : Since(from, id)' = Since(from, id)
    BY <1>2 DEF Since
  <1>13. ViewsExact'
    BY <1>2, <1>12 DEF SubInv, ViewsExact
  <1>15. Counted'
    <2> SUFFICES ASSUME NEW i \in DOMAIN subs'
                 PROVE  /\ subs'[i].on = "any" =>
                              know'[i].told = Cardinality(Since(know'[i].from, subs'[i].id))
                        /\ subs'[i].on = "deleted" =>
                              know'[i].told = Cardinality({j \in Since(know'[i].from, subs'[i].id) :
                                                             log[j].op = "delete"})
      BY <1>2 DEF Counted, Since
    <2>1. CASE i = n
      <3>1. CASE w.on = "view"
        BY <1>3, <2>1, <3>1
      <3>2. CASE w.on # "view"
        <4>1. Since(pos, w.id) = {}
          BY <1>1 DEF Since
        <4>2. know'[i].from = pos /\ know'[i].told = 0 /\ subs'[i] = w
          BY <1>3, <1>6, <2>1, <3>2
        <4>3. Since(know'[i].from, subs'[i].id) = {}
          BY <4>1, <4>2
        <4>4. {j \in Since(know'[i].from, subs'[i].id) : log[j].op = "delete"} = {}
          BY <4>3
        <4> QED BY <4>2, <4>3, <4>4, FS_EmptySet, Zenon
      <3> QED BY <3>1, <3>2
    <2>2. CASE i # n
      <3>1. i \in DOMAIN subs /\ subs'[i] = subs[i] /\ know'[i] = know[i]
        BY <1>3, <1>6, <2>2
      <3> QED BY <3>1 DEF SubInv, Counted
    <2> QED BY <2>1, <2>2
  <1>16. Sighted'
    <2>1. k.val = k.now /\ k.now = Unseen
      OBVIOUS
    <2> HIDE DEF k, n
    <2> QED BY <1>2, <1>3, <1>6, <2>1 DEF SubInv, Sighted
  <1>18. ViewsTold'
    <2> SUFFICES ASSUME NEW i \in DOMAIN subs', subs'[i].on = "view"
                 PROVE  /\ subs'[i].id \in DOMAIN views => know'[i].told = Count(subs'[i].id)
                        /\ subs'[i].id \notin 1..ids.view => know'[i].told = 0
      BY <1>2 DEF ViewsTold, Count
    <2>1. CASE i = n
      <3>1. know'[i].told = Count(w.id) /\ subs'[i] = w /\ w.on = "view"
        BY <1>3, <1>6, <2>1
      <3>2. w.id \notin 1..ids.view => Count(w.id) = 0
        BY <1>1 DEF HubTyped, Count
      <3> QED BY <3>1, <3>2
    <2>2. CASE i # n
      <3>1. i \in DOMAIN subs /\ subs'[i] = subs[i] /\ know'[i] = know[i]
        BY <1>3, <1>6, <2>2
      <3> QED BY <3>1 DEF SubInv, ViewsTold
    <2> QED BY <2>1, <2>2
  <1> QED BY <1>11, <1>13, <1>15, <1>16, <1>18 DEF SubInv

LEMMA UnsubscribeStep ==
    ASSUME SubInv, NEW i \in DOMAIN subs, unsubscribe(i)
    PROVE  SubInv'
  <1>1. HubTyped
    BY DEF SubInv
  <1>2. UNCHANGED <<log, saved, offset, pos, cache, views, ids>>
    BY DEF unsubscribe
  <1>3. /\ subs' = [x \in DOMAIN subs \ {i} |-> subs[x]]
        /\ know' = [x \in DOMAIN know \ {i} |-> know[x]]
    BY DEF unsubscribe, Without, Restrict
  <1>4. DOMAIN know = DOMAIN subs
    BY <1>1 DEF HubTyped
  <1>5. /\ DOMAIN subs' = DOMAIN subs \ {i} /\ DOMAIN know' = DOMAIN subs'
        /\ \A x \in DOMAIN subs' : /\ x \in DOMAIN subs
                                   /\ subs'[x] = subs[x] /\ know'[x] = know[x]
    BY <1>3, <1>4
  <1>6. HubTyped'
    <2>1. subs' \in [DOMAIN subs' -> Watches] /\ know' \in [DOMAIN subs' -> Knowledge]
      BY <1>1, <1>3, <1>5 DEF HubTyped
    <2> QED BY <1>1, <1>2, <1>5, <2>1 DEF HubTyped
  <1>7. \A from, id : Since(from, id)' = Since(from, id)
    BY <1>2 DEF Since
  <1>8. ViewsExact'
    BY <1>2, <1>7 DEF SubInv, ViewsExact
  <1>9. Counted'
    BY <1>2, <1>5, <1>7 DEF SubInv, Counted
  <1>10. Sighted'
    BY <1>2, <1>5 DEF SubInv, Sighted
  <1>11. ViewsTold'
    BY <1>2, <1>5 DEF SubInv, ViewsTold, Count
  <1> QED BY <1>6, <1>8, <1>9, <1>10, <1>11 DEF SubInv

\* A view starts empty, and there is nothing to say about it yet.
LEMMA CreateViewStep ==
    ASSUME SubInv, NEW p \in Predicates, create_view(p)
    PROVE  SubInv'
  <1> DEFINE n == ids.view + 1
             u == [pred |-> p, members |-> {}, from |-> pos]
  <1>1. HubTyped /\ ids \in [sub : Nat, view : Nat] /\ pos \in Nat /\ n \in Nat
    BY LenProperties DEF SubInv, HubTyped
  <1>2. /\ ids'.view = n /\ ids'.sub = ids.sub /\ ids' \in [sub : Nat, view : Nat]
        /\ UNCHANGED <<log, saved, offset, pos, subs, cache, know>>
    BY <1>1 DEF create_view
  <1>3. n \notin DOMAIN views
    BY <1>1 DEF HubTyped
  <1>4. /\ DOMAIN views' = DOMAIN views \cup {n} /\ views'[n] = u
        /\ \A v \in DOMAIN views : views'[v] = views[v]
        /\ views' = [v \in DOMAIN views' |-> views'[v]]
    BY <1>2, <1>3 DEF create_view, Extend
  <1>5. u \in View /\ u.members = {} /\ u.from = pos
    BY <1>1, FS_EmptySet DEF View
  <1> HIDE DEF u
  <1>6. HubTyped'
    <2>1. \A v \in DOMAIN views' : views'[v] \in View /\ views'[v].from <= pos
      BY <1>1, <1>4, <1>5 DEF HubTyped
    <2>2. views' \in [DOMAIN views' -> View]
      BY <1>4, <2>1
    <2>3. \A v \in DOMAIN views : v \in 1..ids.view
      BY <1>1 DEF HubTyped
    <2>4. DOMAIN views' \subseteq 1..n
      BY <1>1, <1>4, <2>3
    <2> QED BY <1>1, <1>2, <2>1, <2>2, <2>4 DEF HubTyped
  <1>7. \A from, id : Since(from, id)' = Since(from, id)
    BY <1>2 DEF Since
  <1>8. ViewsExact'
    <2> SUFFICES ASSUME NEW v \in DOMAIN views'
                 PROVE  views'[v].members =
                           {e \in Entity : Belongs(e, views'[v].from, views'[v].pred)}
      BY <1>2 DEF ViewsExact, Belongs, Since
    <2>1. CASE v = n
      <3>1. \A e : Since(pos, e) = {}
        BY <1>1 DEF Since
      <3>2. \A e : ~Belongs(e, views'[v].from, views'[v].pred)
        BY <1>4, <1>5, <2>1, <3>1 DEF Belongs
      <3> QED BY <1>4, <1>5, <2>1, <3>2
    <2>2. CASE v # n
      BY <1>4, <2>2 DEF SubInv, ViewsExact, Belongs
    <2> QED BY <2>1, <2>2
  <1>9. Counted'
    BY <1>2, <1>7 DEF SubInv, Counted
  <1>10. Sighted'
    BY <1>2 DEF SubInv, Sighted
  <1>11. ViewsTold'
    <2> SUFFICES ASSUME NEW i \in DOMAIN subs, subs[i].on = "view"
                 PROVE  /\ subs[i].id \in DOMAIN views' =>
                              know[i].told = Cardinality(views'[subs[i].id].members)
                        /\ subs[i].id \notin 1..n => know[i].told = 0
      BY <1>2 DEF ViewsTold, Count
    <2>1. subs[i].id \notin 1..ids.view => know[i].told = 0
      BY DEF SubInv, ViewsTold
    <2>2. 1..ids.view \subseteq 1..n /\ n \notin 1..ids.view
      BY <1>1
    <2>3. CASE subs[i].id = n
      <3>1. Cardinality(views'[n].members) = 0
        BY <1>4, <1>5, FS_EmptySet
      <3> QED BY <2>1, <2>2, <2>3, <3>1
    <2>4. CASE subs[i].id # n
      <3>1. subs[i].id \in DOMAIN views' =>
               /\ subs[i].id \in DOMAIN views
               /\ Cardinality(views'[subs[i].id].members) = Count(subs[i].id)
        BY <1>4, <2>4 DEF Count
      <3>2. subs[i].id \in DOMAIN views => know[i].told = Count(subs[i].id)
        BY DEF SubInv, ViewsTold
      <3> QED BY <2>1, <2>2, <3>1, <3>2
    <2> QED BY <2>3, <2>4
  <1> QED BY <1>6, <1>8, <1>9, <1>10, <1>11 DEF SubInv

LEMMA DropViewStep ==
    ASSUME SubInv, NEW w \in DOMAIN views, drop_view(w)
    PROVE  SubInv'
  <1>1. HubTyped
    BY DEF SubInv
  <1>2. UNCHANGED <<log, saved, offset, pos, subs, cache, ids, know>>
    BY DEF drop_view
  <1>3. views' = [x \in DOMAIN views \ {w} |-> views[x]]
    BY DEF drop_view, Without, Restrict
  <1>4. /\ DOMAIN views' \subseteq DOMAIN views
        /\ \A v \in DOMAIN views' : views'[v] = views[v]
    BY <1>3
  <1>5. HubTyped'
    <2>1. views' \in [DOMAIN views' -> View]
      BY <1>1, <1>3, <1>4 DEF HubTyped
    <2> QED BY <1>1, <1>2, <1>4, <2>1 DEF HubTyped
  <1>6. \A from, id : Since(from, id)' = Since(from, id)
    BY <1>2 DEF Since
  <1>7. ViewsExact'
    BY <1>2, <1>4, <1>6 DEF SubInv, ViewsExact
  <1>8. Counted'
    BY <1>2, <1>6 DEF SubInv, Counted
  <1>9. Sighted'
    BY <1>2 DEF SubInv, Sighted
  <1>10. \A v \in DOMAIN views' : v \in DOMAIN views /\ Count(v)' = Count(v)
    BY <1>4 DEF Count
  <1>11. ViewsTold'
    BY <1>2, <1>10 DEF SubInv, ViewsTold
  <1> QED BY <1>5, <1>7, <1>8, <1>9, <1>11 DEF SubInv

-----------------------------------------------------------------------------
(* Feeding a record.                                                       *)

\* Since, for any log and any number of records fed.
Upto(from, id, n, l) == {j \in from + 1 .. n : l[j].id = id}

BelongsAt(e, from, p, n, l) ==
    \E j \in Upto(from, e, n, l) :
        /\ \A k \in Upto(from, e, n, l) : k <= j
        /\ l[j].op = "insert" /\ matches(p, l[j])

\* Process feeds record r, the next of the log or one the log grows by.
Feeds(r, fired) ==
    /\ r \in Records /\ fired \in Fired(r)
    /\ log' \in Seq(Records) /\ Len(log) <= Len(log') /\ pos + 1 <= Len(log')
    /\ log'[pos + 1] = r /\ \A j \in 1..pos : log'[j] = log[j]
    /\ pos' = pos + 1
    /\ views' = [v \in DOMAIN views |->
                    [views[v] EXCEPT !.members = member_update(views[v], r)]]
    /\ cache' = [cache EXCEPT ![r.id] = Cached(r)]
    /\ know' = Tell(r, fired, views')
    /\ UNCHANGED <<saved, offset, subs, ids>>

LEMMA Feeding ==
    ASSUME HubTyped, Process
    PROVE  \E r, fired : Feeds(r, fired)
  <1>1. /\ log \in Seq(Records) /\ Len(log) \in Nat /\ pos \in 0..Len(log) /\ pos \in Nat
        /\ \A j \in 1..Len(log) : log[j] \in Records
    BY LenProperties, ElementOfSeq DEF HubTyped
  <1>2. PICK r \in IF pos < Len(log) THEN {log[pos + 1]} ELSE Records :
          \E fired \in Fired(r) :
            /\ log' = IF pos < Len(log) THEN log ELSE Append(log, r)
            /\ views' = [v \in DOMAIN views |->
                           [views[v] EXCEPT !.members = member_update(views[v], r)]]
            /\ cache' = [cache EXCEPT ![r.id] = Cached(r)]
            /\ know' = Tell(r, fired, views')
    BY DEF Process
  <1>3. PICK fired \in Fired(r) :
            /\ log' = IF pos < Len(log) THEN log ELSE Append(log, r)
            /\ views' = [v \in DOMAIN views |->
                           [views[v] EXCEPT !.members = member_update(views[v], r)]]
            /\ cache' = [cache EXCEPT ![r.id] = Cached(r)]
            /\ know' = Tell(r, fired, views')
    BY <1>2
  <1>4. pos' = pos + 1 /\ UNCHANGED <<saved, offset, subs, ids>>
    BY DEF Process
  <1>5. r \in Records
    <2>1. CASE pos < Len(log)
      <3>1. pos + 1 \in 1..Len(log) /\ r = log[pos + 1]
        BY <1>1, <1>2, <2>1
      <3> QED BY <1>1, <3>1
    <2>2. CASE ~(pos < Len(log))
      BY <1>2, <2>2
    <2> QED BY <2>1, <2>2
  <1>6. /\ log' \in Seq(Records) /\ Len(log) <= Len(log') /\ pos + 1 <= Len(log')
        /\ log'[pos + 1] = r /\ \A j \in 1..pos : log'[j] = log[j]
    <2>1. CASE pos < Len(log)
      BY <1>1, <1>2, <1>3, <2>1
    <2>2. CASE ~(pos < Len(log))
      <3>1. pos = Len(log) /\ log' = Append(log, r)
        BY <1>1, <1>3, <2>2
      <3>2. log' \in Seq(Records) /\ Len(log') = Len(log) + 1
        BY <1>1, <1>5, <3>1
      <3>3. log'[Len(log) + 1] = r /\ \A j \in 1..Len(log) : log'[j] = log[j]
        BY <1>1, <1>5, <3>1
      <3> QED BY <1>1, <3>1, <3>2, <3>3
    <2> QED BY <2>1, <2>2
  <1>7. Feeds(r, fired)
    BY <1>3, <1>4, <1>5, <1>6 DEF Feeds
  <1> QED BY <1>7

\* The records about an entity, one more fed.
LEMMA FedSet ==
    ASSUME HubTyped, NEW r, NEW fired, Feeds(r, fired), NEW from \in Nat, from <= pos, NEW id
    PROVE  /\ r.id = id => Upto(from, id, pos', log') = Upto(from, id, pos, log) \cup {pos + 1}
           /\ r.id # id => Upto(from, id, pos', log') = Upto(from, id, pos, log)
           /\ \A j \in Upto(from, id, pos, log) : log'[j] = log[j] /\ j \in 1..pos
           /\ pos + 1 \notin Upto(from, id, pos, log)
  <1>1. pos \in Nat /\ pos' = pos + 1
    BY LenProperties DEF HubTyped, Feeds
  <1>2. log'[pos + 1] = r /\ \A j \in 1..pos : log'[j] = log[j]
    BY DEF Feeds
  <1>3. \A j \in from + 1 .. pos : j \in 1..pos
    BY <1>1
  <1>4. /\ \A j : j \in from + 1 .. pos' <=> j \in from + 1 .. pos \/ j = pos + 1
        /\ pos + 1 \notin from + 1 .. pos
    BY <1>1
  <1>5. \A j : j \in Upto(from, id, pos', log') <=>
                  (j \in from + 1 .. pos /\ log[j].id = id) \/ (j = pos + 1 /\ r.id = id)
    BY <1>2, <1>3, <1>4, Zenon DEF Upto
  <1> QED BY <1>2, <1>3, <1>4, <1>5 DEF Upto

LEMMA FedTypes ==
    ASSUME HubTyped, NEW r, NEW fired, Feeds(r, fired)
    PROVE  /\ r \in Records /\ r.id \in Entity
           /\ r.op = "insert" => r.attr \in Value /\ r.attr # Unseen
           /\ Cached(r) \in Value
  <1>1. r \in Records /\ r.id \in Entity /\ (r.op = "insert" => r.attr # Unseen)
    BY SubscriptionsAssumption DEF Feeds
  <1>2. r.op = "insert" => r.attr \in Value
    BY <1>1 DEF Value
  <1>3. cache[r.id] \in Value
    BY <1>1 DEF HubTyped
  <1> QED BY <1>1, <1>2, <1>3 DEF Cached

\* A view's members after the record.
LEMMA FedView ==
    ASSUME HubTyped, NEW r, NEW fired, Feeds(r, fired), NEW v \in DOMAIN views
    PROVE  /\ DOMAIN views' = DOMAIN views
           /\ views'[v] \in View
           /\ views'[v].members = member_update(views[v], r)
           /\ views'[v].from = views[v].from /\ views'[v].pred = views[v].pred
  <1> DEFINE u == views[v]
             new == member_update(u, r)
  <1>1. u \in View /\ u.members \subseteq Entity /\ IsFiniteSet(u.members)
    BY MembersFinite
  <1>2. r.id \in Entity
    BY FedTypes
  <1>3. new \subseteq Entity /\ IsFiniteSet(new)
    <2>1. IsFiniteSet(u.members \cup {r.id}) /\ IsFiniteSet(u.members \ {r.id})
      BY <1>1, FS_AddElement, FS_RemoveElement
    <2> QED BY <1>1, <1>2, <2>1 DEF member_update
  <1>4. DOMAIN views' = DOMAIN views /\ views'[v] = [u EXCEPT !.members = new]
    BY DEF Feeds
  <1> HIDE DEF new
  <1>5. /\ [u EXCEPT !.members = new] \in View
        /\ [u EXCEPT !.members = new].members = new
        /\ [u EXCEPT !.members = new].from = u.from
        /\ [u EXCEPT !.members = new].pred = u.pred
    BY <1>1, <1>3 DEF View
  <1> QED BY <1>4, <1>5 DEF new

LEMMA FedViewsExact ==
    ASSUME SubInv, NEW r, NEW fired, Feeds(r, fired)
    PROVE  ViewsExact'
  <1> SUFFICES ASSUME NEW v \in DOMAIN views'
               PROVE  views'[v].members =
                         {e \in Entity : BelongsAt(e, views'[v].from, views'[v].pred, pos', log')}
    BY DEF ViewsExact, BelongsAt, Since, Upto
  <1>1. HubTyped
    BY DEF SubInv
  <1>2. v \in DOMAIN views
    BY DEF Feeds
  <1> DEFINE f == views[v].from
             p == views[v].pred
             M == views[v].members
  <1>3. /\ views'[v].members = member_update(views[v], r)
        /\ views'[v].from = f /\ views'[v].pred = p
    BY <1>1, <1>2, FedView
  <1>4. M = {e \in Entity : BelongsAt(e, f, p, pos, log)}
    BY <1>2 DEF SubInv, ViewsExact, BelongsAt, Since, Upto
  <1>5. views[v] \in View /\ f <= pos
    BY <1>1, <1>2 DEF HubTyped
  <1>6. f \in Nat /\ pos \in Nat /\ r.id \in Entity
    BY <1>1, <1>5, LenProperties, FedTypes DEF View, HubTyped
  <1> HIDE DEF f, p
  <1>7. ASSUME NEW e \in Entity, e # r.id
        PROVE  BelongsAt(e, f, p, pos', log') <=> BelongsAt(e, f, p, pos, log)
    <2>1. /\ Upto(f, e, pos', log') = Upto(f, e, pos, log)
          /\ \A j \in Upto(f, e, pos, log) : log'[j] = log[j]
      BY <1>1, <1>5, <1>6, <1>7, FedSet DEF f
    <2> QED BY <2>1 DEF BelongsAt
  <1>8. BelongsAt(r.id, f, p, pos', log') <=> r.op = "insert" /\ matches(p, r)
    <2> DEFINE U == Upto(f, r.id, pos', log')
    <2>0. \A id : /\ r.id = id => Upto(f, id, pos', log') = Upto(f, id, pos, log) \cup {pos + 1}
                  /\ \A j \in Upto(f, id, pos, log) : j \in 1..pos
      BY <1>1, <1>5, <1>6, FedSet
    <2>1. /\ U = Upto(f, r.id, pos, log) \cup {pos + 1}
          /\ \A j \in Upto(f, r.id, pos, log) : j \in 1..pos
      BY <2>0, Zenon
    <2>2. pos + 1 \in U /\ \A j \in U : j \in Nat /\ j <= pos + 1
      BY <1>6, <2>1
    <2>3. log'[pos + 1] = r
      BY DEF Feeds
    <2> HIDE DEF U
    <2>4. \A j \in U : (\A k \in U : k <= j) <=> j = pos + 1
      BY <1>6, <2>2
    <2>5. BelongsAt(r.id, f, p, pos', log') <=>
             \E j \in U : j = pos + 1 /\ log'[j].op = "insert" /\ matches(p, log'[j])
      BY <2>4 DEF BelongsAt, U
    <2> QED BY <2>2, <2>3, <2>5
  <1>9. \A e \in Entity : e \in M <=> BelongsAt(e, f, p, pos, log)
    BY <1>4
  <1>10. member_update(views[v], r) =
            IF r.op = "insert" /\ matches(p, r) THEN M \cup {r.id} ELSE M \ {r.id}
    BY DEF member_update, p
  <1>11. M \subseteq Entity
    BY <1>4
  <1> HIDE DEF M
  <1>12. \A e \in Entity : e \in member_update(views[v], r) <=> BelongsAt(e, f, p, pos', log')
    BY <1>6, <1>7, <1>8, <1>9, <1>10
  <1>13. member_update(views[v], r) \subseteq Entity
    BY <1>6, <1>10, <1>11
  <1> QED BY <1>3, <1>12, <1>13

\* What a subscriber is told, by what it watches.
Touches(i, r) ==
    subs[i].id = r.id /\ (subs[i].on = "any" \/ (subs[i].on = "deleted" /\ r.op = "delete"))

Sights(i, r) ==
    subs[i].on = "attr" /\ subs[i].id = r.id /\ r.op = "insert" /\ r.attr # NoAttr

Learns(i, r, fired) ==
    /\ Touches(i, r) => know'[i] = [know[i] EXCEPT !.told = @ + 1]
    /\ Sights(i, r) =>
          know'[i] = [know[i] EXCEPT !.now = r.attr,
                        !.val = IF i \in fired \/ @ = Unseen THEN r.attr ELSE @,
                        !.shared = (@ \/ Cardinality(Watching({"attr"}, r.id)) > 1)]
    /\ ~Touches(i, r) /\ ~Sights(i, r) =>
          know'[i] = IF /\ subs[i].on = "view" /\ subs[i].id \in DOMAIN views
                        /\ Cardinality(views'[subs[i].id].members)
                              # Cardinality(views[subs[i].id].members)
                     THEN [know[i] EXCEPT
                             !.told = Cardinality(views'[subs[i].id].members)]
                     ELSE know[i]

LEMMA FedKnow ==
    ASSUME HubTyped, NEW r, NEW fired, Feeds(r, fired), NEW i \in DOMAIN subs
    PROVE  DOMAIN know' = DOMAIN subs /\ Learns(i, r, fired)
  <1> DEFINE pointed == Watching(IF r.op = "delete" THEN {"deleted", "any"} ELSE {"any"}, r.id)
             sighted == IF r.op = "insert" /\ r.attr # NoAttr
                        THEN Watching({"attr"}, r.id) ELSE {}
             moved == {v \in DOMAIN views :
                         Cardinality(views'[v].members) # Cardinality(views[v].members)}
  <1>1. DOMAIN know = DOMAIN subs
    BY DEF HubTyped
  <1>2. know' = [x \in DOMAIN know |->
            IF x \in pointed THEN [know[x] EXCEPT !.told = @ + 1]
            ELSE IF x \in sighted
            THEN [know[x] EXCEPT !.now = r.attr,
                    !.val = IF x \in fired \/ @ = Unseen THEN r.attr ELSE @,
                    !.shared = (@ \/ Cardinality(sighted) > 1)]
            ELSE IF subs[x].on = "view" /\ subs[x].id \in moved
            THEN [know[x] EXCEPT !.told = Cardinality(views'[subs[x].id].members)]
            ELSE know[x]]
    BY DEF Feeds, Tell
  <1>3. i \in pointed <=> Touches(i, r)
    BY DEF Watching, Touches
  <1>4. i \in sighted <=> Sights(i, r)
    BY DEF Watching, Sights
  <1>5. Sights(i, r) => sighted = Watching({"attr"}, r.id)
    BY DEF Sights
  <1>6. Sights(i, r) => ~Touches(i, r)
    BY DEF Sights, Touches
  <1>7. subs[i].id \in moved <=>
           /\ subs[i].id \in DOMAIN views
           /\ Cardinality(views'[subs[i].id].members) # Cardinality(views[subs[i].id].members)
    OBVIOUS
  <1> HIDE DEF pointed, sighted, moved
  <1>8. /\ DOMAIN know' = DOMAIN subs
        /\ know'[i] =
              IF i \in pointed THEN [know[i] EXCEPT !.told = @ + 1]
              ELSE IF i \in sighted
              THEN [know[i] EXCEPT !.now = r.attr,
                      !.val = IF i \in fired \/ @ = Unseen THEN r.attr ELSE @,
                      !.shared = (@ \/ Cardinality(sighted) > 1)]
              ELSE IF subs[i].on = "view" /\ subs[i].id \in moved
              THEN [know[i] EXCEPT !.told = Cardinality(views'[subs[i].id].members)]
              ELSE know[i]
    BY <1>1, <1>2
  <1>9. CASE Touches(i, r)
    BY <1>3, <1>6, <1>8, <1>9 DEF Learns
  <1>10. CASE Sights(i, r)
    <2>1. i \notin pointed /\ i \in sighted /\ sighted = Watching({"attr"}, r.id)
      BY <1>3, <1>4, <1>5, <1>6, <1>10
    <2> QED BY <1>6, <1>8, <1>10, <2>1 DEF Learns
  <1>11. CASE ~Touches(i, r) /\ ~Sights(i, r)
    <2>1. i \notin pointed /\ i \notin sighted
      BY <1>3, <1>4, <1>11
    <2> QED BY <1>7, <1>8, <1>11, <2>1 DEF Learns
  <1> QED BY <1>8, <1>9, <1>10, <1>11

\* Field by field: `from' stays, `told' counts touches or follows the view,
\* the rest follows the values sighted.
LEMMA FedFields ==
    ASSUME HubTyped, NEW r, NEW fired, Feeds(r, fired), NEW i \in DOMAIN subs
    PROVE  /\ know'[i] \in Knowledge /\ know'[i].from = know[i].from
           /\ Touches(i, r) => know'[i].told = know[i].told + 1
           /\ ~Touches(i, r) /\ subs[i].on # "view" => know'[i].told = know[i].told
           /\ subs[i].on = "view" =>
                 know'[i].told =
                    IF /\ subs[i].id \in DOMAIN views
                       /\ Cardinality(views'[subs[i].id].members)
                             # Cardinality(views[subs[i].id].members)
                    THEN Cardinality(views'[subs[i].id].members) ELSE know[i].told
           /\ ~Sights(i, r) => /\ know'[i].val = know[i].val /\ know'[i].now = know[i].now
                               /\ know'[i].shared = know[i].shared
           /\ Sights(i, r) =>
                 /\ know'[i].now = r.attr
                 /\ know'[i].val = IF i \in fired \/ know[i].val = Unseen
                                   THEN r.attr ELSE know[i].val
                 /\ know'[i].shared =
                       (know[i].shared \/ Cardinality(Watching({"attr"}, r.id)) > 1)
  <1>0. /\ Touches(i, r) => know'[i] = [know[i] EXCEPT !.told = @ + 1]
        /\ Sights(i, r) =>
              know'[i] = [know[i] EXCEPT !.now = r.attr,
                            !.val = IF i \in fired \/ @ = Unseen THEN r.attr ELSE @,
                            !.shared = (@ \/ Cardinality(Watching({"attr"}, r.id)) > 1)]
        /\ ~Touches(i, r) /\ ~Sights(i, r) =>
              know'[i] = IF /\ subs[i].on = "view" /\ subs[i].id \in DOMAIN views
                            /\ Cardinality(views'[subs[i].id].members)
                                  # Cardinality(views[subs[i].id].members)
                         THEN [know[i] EXCEPT !.told = Cardinality(views'[subs[i].id].members)]
                         ELSE know[i]
    <2>1. Learns(i, r, fired)
      BY FedKnow
    <2> QED BY <2>1 DEF Learns
  <1> DEFINE k == know[i]
  <1>1. k \in Knowledge
    BY KnowTyped
  <1>2. CASE Touches(i, r)
    <2>0. ~Sights(i, r) /\ subs[i].on # "view"
      BY <1>2 DEF Touches, Sights
    <2>1. know'[i] = [k EXCEPT !.told = @ + 1] /\ ~Sights(i, r) /\ subs[i].on # "view"
      BY <1>2, <1>0, <2>0
    <2> HIDE DEF k
    <2>2. know'[i] \in Knowledge
      BY <1>1, <2>1 DEF Knowledge
    <2>3. /\ know'[i].told = k.told + 1 /\ know'[i].from = k.from /\ know'[i].val = k.val
          /\ know'[i].now = k.now /\ know'[i].shared = k.shared
      BY <1>1, <2>1 DEF Knowledge
    <2> QED BY <1>2, <2>1, <2>2, <2>3 DEF k
  <1>3. CASE Sights(i, r)
    <2> DEFINE value == IF i \in fired \/ k.val = Unseen THEN r.attr ELSE k.val
               shared == k.shared \/ Cardinality(Watching({"attr"}, r.id)) > 1
    <2>1. ~Touches(i, r) /\ subs[i].on # "view" /\ r.op = "insert"
      BY <1>3 DEF Touches, Sights
    <2>2. r.attr \in Value
      BY <2>1, FedTypes
    <2>3. know'[i] = [k EXCEPT !.now = r.attr, !.val = value, !.shared = shared]
      BY <1>3, <1>0
    <2>4. value \in Value /\ shared \in BOOLEAN
      BY <1>1, <2>2 DEF Knowledge
    <2> HIDE DEF k, value, shared
    <2>5. know'[i] \in Knowledge
      BY <1>1, <2>2, <2>3, <2>4 DEF Knowledge
    <2>6. /\ know'[i].told = k.told /\ know'[i].from = k.from /\ know'[i].val = value
          /\ know'[i].now = r.attr /\ know'[i].shared = shared
      BY <1>1, <2>3 DEF Knowledge
    <2> QED BY <1>3, <2>1, <2>5, <2>6 DEF k, value, shared
  <1>4. CASE ~Touches(i, r) /\ ~Sights(i, r)
    <2> DEFINE moves == /\ subs[i].on = "view" /\ subs[i].id \in DOMAIN views
                        /\ Cardinality(views'[subs[i].id].members)
                              # Cardinality(views[subs[i].id].members)
               c == Cardinality(views'[subs[i].id].members)
    <2>1. know'[i] = IF moves THEN [k EXCEPT !.told = c] ELSE k
      BY <1>4, <1>0
    <2>2. moves => c \in Nat
      <3> SUFFICES ASSUME moves PROVE c \in Nat
        OBVIOUS
      <3>1. views'[subs[i].id] \in View
        BY FedView
      <3> QED BY <3>1, FS_CardinalityType DEF View
    <2>3. moves => subs[i].on = "view"
      OBVIOUS
    <2>4. moves <=> /\ subs[i].on = "view" /\ subs[i].id \in DOMAIN views
                    /\ Cardinality(views'[subs[i].id].members)
                          # Cardinality(views[subs[i].id].members)
      OBVIOUS
    <2> HIDE DEF k, moves, c
    <2>5. know'[i] \in Knowledge
      BY <1>1, <2>1, <2>2 DEF Knowledge
    <2>6. /\ know'[i].told = (IF moves THEN c ELSE k.told) /\ know'[i].from = k.from
          /\ know'[i].val = k.val /\ know'[i].now = k.now /\ know'[i].shared = k.shared
      BY <1>1, <2>1 DEF Knowledge
    <2> QED BY <1>4, <2>3, <2>4, <2>5, <2>6 DEF k, c
  <1> QED BY <1>2, <1>3, <1>4

LEMMA FedTyped ==
    ASSUME HubTyped, NEW r, NEW fired, Feeds(r, fired)
    PROVE  HubTyped'
  <1>1. log' \in Seq(Records) /\ Len(log') \in Nat /\ Len(log) \in Nat /\ pos \in Nat
    BY LenProperties DEF HubTyped, Feeds
  <1>2. saved' \in 0..Len(log') /\ offset' \in 0..Len(log') /\ pos' \in 0..Len(log')
    BY <1>1 DEF HubTyped, Feeds
  <1>3. cache' \in [Entity -> Value]
    BY FedTypes DEF HubTyped, Feeds
  <1>4. DOMAIN views' = DOMAIN views /\ \A v \in DOMAIN views : views'[v] \in View
    BY FedView DEF Feeds
  <1>5. views' \in [DOMAIN views' -> View]
    <2>1. views' = [v \in DOMAIN views |-> views'[v]]
      BY DEF Feeds
    <2> QED BY <1>4, <2>1
  <1>6. know' \in [DOMAIN subs -> Knowledge]
    <2>1. \A i \in DOMAIN subs : know'[i] \in Knowledge
      BY FedFields
    <2>2. DOMAIN know = DOMAIN subs /\ know' = Tell(r, fired, views')
      BY DEF Feeds, HubTyped
    <2>3. DOMAIN know' = DOMAIN know /\ know' = [x \in DOMAIN know' |-> know'[x]]
      BY <2>2, Zenon DEF Tell
    <2> QED BY <2>1, <2>2, <2>3
  <1>7. subs' = subs /\ ids' = ids /\ pos' = pos + 1
    BY DEF Feeds
  <1>8. \A v \in DOMAIN views' : views'[v].from <= pos'
    <2> SUFFICES ASSUME NEW v \in DOMAIN views PROVE views'[v].from <= pos'
      BY <1>4
    <2>1. views'[v].from = views[v].from /\ views[v].from <= pos /\ views[v] \in View
      BY FedView DEF HubTyped
    <2> QED BY <1>1, <1>7, <2>1 DEF View
  <1>9. \A i \in DOMAIN subs' : know'[i].from <= pos'
    <2> SUFFICES ASSUME NEW i \in DOMAIN subs PROVE know'[i].from <= pos'
      BY <1>7
    <2>1. know'[i].from = know[i].from /\ know[i].from <= pos /\ know[i] \in Knowledge
      BY FedFields DEF HubTyped
    <2> QED BY <1>1, <1>7, <2>1 DEF Knowledge
  <1> QED BY <1>2, <1>1, <1>3, <1>4, <1>5, <1>6, <1>7, <1>8, <1>9 DEF HubTyped

LEMMA FedCounted ==
    ASSUME SubInv, NEW r, NEW fired, Feeds(r, fired)
    PROVE  Counted'
  <1>0. HubTyped
    BY DEF SubInv
  <1> SUFFICES ASSUME NEW i \in DOMAIN subs
               PROVE  /\ subs[i].on = "any" =>
                            know'[i].told =
                               Cardinality(Upto(know'[i].from, subs[i].id, pos', log'))
                      /\ subs[i].on = "deleted" =>
                            know'[i].told =
                               Cardinality({j \in Upto(know'[i].from, subs[i].id, pos', log') :
                                              log'[j].op = "delete"})
    <2>1. subs' = subs
      BY DEF Feeds
    <2> QED BY <2>1 DEF Counted, Since, Upto
  <1> DEFINE f == know[i].from
             id == subs[i].id
             S == Upto(f, id, pos, log)
             D == {j \in S : log[j].op = "delete"}
             N == Upto(f, id, pos', log')
             E == {j \in N : log'[j].op = "delete"}
  <1>1. know[i] \in Knowledge /\ f <= pos /\ know'[i].from = f
    BY <1>0, FedFields DEF HubTyped
  <1>2. f \in Nat /\ know[i].told \in Nat
    BY <1>1 DEF Knowledge
  <1>3. /\ subs[i].on = "any" => know[i].told = Cardinality(S)
        /\ subs[i].on = "deleted" => know[i].told = Cardinality(D)
    BY DEF SubInv, Counted, Since, Upto
  <1>4. S \subseteq Since(f, id) /\ D \subseteq Since(f, id)
    BY DEF Since, Upto
  <1> HIDE DEF f, id
  <1>5. IsFiniteSet(S) /\ Cardinality(S) \in Nat /\ IsFiniteSet(D) /\ Cardinality(D) \in Nat
    BY <1>0, <1>2, <1>4, SinceFinite
  <1>6. /\ r.id = id => N = S \cup {pos + 1}
        /\ r.id # id => N = S
        /\ \A j \in S : log'[j] = log[j]
        /\ pos + 1 \notin S
    BY <1>0, <1>1, <1>2, FedSet
  <1>7. log'[pos + 1] = r
    BY DEF Feeds
  <1> HIDE DEF S, N
  <1>8. /\ r.id = id /\ r.op = "delete" => E = D \cup {pos + 1}
        /\ ~(r.id = id /\ r.op = "delete") => E = D
        /\ pos + 1 \notin D
    BY <1>6, <1>7
  <1>9. /\ Cardinality(S \cup {pos + 1}) = Cardinality(S) + 1
        /\ Cardinality(D \cup {pos + 1}) = Cardinality(D) + 1
    BY <1>5, <1>6, <1>8, FS_AddElement
  <1> HIDE DEF D, E
  <1>10. /\ Touches(i, r) => know'[i].told = know[i].told + 1
         /\ ~Touches(i, r) /\ subs[i].on # "view" => know'[i].told = know[i].told
    BY <1>0, FedFields
  <1>11. subs[i].on = "any" => (Touches(i, r) <=> r.id = id)
    BY DEF Touches, id
  <1>12. subs[i].on = "deleted" => (Touches(i, r) <=> r.id = id /\ r.op = "delete")
    BY DEF Touches, id
  <1>13. subs[i].on = "any" => know'[i].told = Cardinality(N)
    BY <1>3, <1>6, <1>9, <1>10, <1>11
  <1>14. subs[i].on = "deleted" => know'[i].told = Cardinality(E)
    BY <1>3, <1>8, <1>9, <1>10, <1>12
  <1> QED BY <1>1, <1>13, <1>14 DEF f, id, N, E

LEMMA FedSighted ==
    ASSUME SubInv, NEW r, NEW fired, Feeds(r, fired)
    PROVE  Sighted'
  <1>0. HubTyped
    BY DEF SubInv
  <1>1. /\ subs' = subs /\ cache' = [cache EXCEPT ![r.id] = Cached(r)]
        /\ fired \in Fired(r)
    BY DEF Feeds
  <1>2. r.id \in Entity /\ DOMAIN cache = Entity /\ (r.op = "insert" => r.attr # Unseen)
    BY <1>0, FedTypes DEF HubTyped
  <1> SUFFICES ASSUME NEW i \in DOMAIN subs, subs[i].on = "attr"
               PROVE  /\ know'[i].shared \/ know'[i].val = know'[i].now
                      /\ know'[i].val = Unseen <=> know'[i].now = Unseen
                      /\ know'[i].now # Unseen =>
                            subs[i].id \in Entity /\ cache'[subs[i].id] = know'[i].now
    BY <1>1 DEF Sighted
  <1> DEFINE id == subs[i].id
             W == Watching({"attr"}, r.id)
  <1>3. /\ know[i].shared \/ know[i].val = know[i].now
        /\ know[i].val = Unseen <=> know[i].now = Unseen
        /\ know[i].now # Unseen => id \in Entity /\ cache[id] = know[i].now
    BY DEF SubInv, Sighted
  <1>4. /\ ~Sights(i, r) => /\ know'[i].val = know[i].val /\ know'[i].now = know[i].now
                            /\ know'[i].shared = know[i].shared
        /\ Sights(i, r) =>
              /\ know'[i].now = r.attr
              /\ know'[i].val = IF i \in fired \/ know[i].val = Unseen
                                THEN r.attr ELSE know[i].val
              /\ know'[i].shared = (know[i].shared \/ Cardinality(W) > 1)
    BY <1>0, FedFields
  <1>5. id = r.id => i \in W
    BY DEF Watching
  <1>6. IsFiniteSet(W)
    <2>1. W \subseteq 1..ids.sub /\ ids.sub \in Nat
      BY <1>0 DEF HubTyped, Watching
    <2>2. IsFiniteSet(1..ids.sub)
      BY <2>1, FS_Interval
    <2> HIDE DEF W
    <2> QED BY <2>1, <2>2, FS_Subset
  <1>7. CASE Sights(i, r)
    <2>1. id = r.id /\ r.op = "insert" /\ r.attr # NoAttr /\ r.attr # Unseen /\ i \in W
      BY <1>2, <1>5, <1>7 DEF Sights
    <2>2. Cached(r) = r.attr
      BY <2>1 DEF Cached
    <2>3. cache'[id] = r.attr /\ id \in Entity
      BY <1>1, <1>2, <2>1, <2>2
    <2>4. ASSUME ~know'[i].shared, know'[i].val # r.attr
          PROVE  FALSE
      <3>1. /\ ~know[i].shared /\ ~(Cardinality(W) > 1)
            /\ i \notin fired /\ know[i].val # Unseen /\ know[i].val # r.attr
        BY <1>4, <1>7, <2>4
      <3>2. cache[r.id] = know[i].val
        BY <1>3, <2>1, <3>1
      <3>3. W = {i}
        <4>1. SUFFICES ASSUME NEW x \in W, x # i PROVE FALSE
          BY <2>1
        <4>4. IsFiniteSet({x}) /\ Cardinality({x}) = 1 /\ i \notin {x}
          BY <4>1, FS_Singleton
        <4>5. {x, i} = {x} \cup {i} /\ Cardinality({x} \cup {i}) = 1 + 1
          BY <4>4, FS_AddElement
        <4>2. {x, i} \subseteq W /\ Cardinality({x, i}) = 2
          BY <2>1, <4>1, <4>5
        <4>3. /\ IsFiniteSet({x, i}) /\ Cardinality({x, i}) <= Cardinality(W)
              /\ Cardinality(W) \in Nat
          BY <1>6, <4>2, FS_Subset, FS_CardinalityType
        <4> QED BY <3>1, <4>2, <4>3
      <3>4. Fired(r) = {{i}}
        BY <2>1, <3>1, <3>2, <3>3 DEF Fired
      <3> QED BY <1>1, <3>1, <3>4
    <2>5. know'[i].val # Unseen
      BY <1>4, <1>7, <2>1
    <2> QED BY <1>4, <1>7, <2>1, <2>3, <2>4, <2>5
  <1>8. CASE ~Sights(i, r)
    <2>1. id = r.id => Cached(r) = cache[r.id]
      BY <1>8 DEF Cached, Sights
    <2>2. id \in Entity => cache'[id] = cache[id]
      BY <1>1, <1>2, <2>1
    <2> QED BY <1>3, <1>4, <1>8, <2>2
  <1> QED BY <1>7, <1>8

LEMMA FedViewsTold ==
    ASSUME SubInv, NEW r, NEW fired, Feeds(r, fired)
    PROVE  ViewsTold'
  <1>0. HubTyped
    BY DEF SubInv
  <1>1. subs' = subs /\ ids' = ids /\ DOMAIN views' = DOMAIN views
    BY DEF Feeds
  <1> SUFFICES ASSUME NEW i \in DOMAIN subs, subs[i].on = "view"
               PROVE  /\ subs[i].id \in DOMAIN views =>
                            know'[i].told = Cardinality(views'[subs[i].id].members)
                      /\ subs[i].id \notin 1..ids.view => know'[i].told = 0
    BY <1>1 DEF ViewsTold, Count
  <1>2. /\ subs[i].id \in DOMAIN views =>
               know[i].told = Cardinality(views[subs[i].id].members)
        /\ subs[i].id \notin 1..ids.view => know[i].told = 0
    BY DEF SubInv, ViewsTold, Count
  <1>3. know'[i].told =
            IF /\ subs[i].id \in DOMAIN views
               /\ Cardinality(views'[subs[i].id].members)
                     # Cardinality(views[subs[i].id].members)
            THEN Cardinality(views'[subs[i].id].members) ELSE know[i].told
    BY <1>0, FedFields
  <1>4. subs[i].id \notin 1..ids.view => subs[i].id \notin DOMAIN views
    BY <1>0 DEF HubTyped
  <1> QED BY <1>2, <1>3, <1>4

LEMMA ProcessStep ==
    ASSUME SubInv, Process
    PROVE  SubInv'
  <1>1. HubTyped
    BY DEF SubInv
  <1>2. PICK r, fired : Feeds(r, fired)
    BY <1>1, Feeding
  <1>3. HubTyped'
    BY <1>1, <1>2, FedTyped
  <1>4. ViewsExact' /\ Counted' /\ Sighted' /\ ViewsTold'
    BY <1>2, FedViewsExact, FedCounted, FedSighted, FedViewsTold
  <1> QED BY <1>3, <1>4 DEF SubInv

-----------------------------------------------------------------------------
(* The theorems.                                                           *)

LEMMA SubNext ==
    ASSUME SubInv, [Next]_vars
    PROVE  SubInv'
  <1>0. HubTyped /\ Len(log) \in Nat
    BY LenProperties DEF SubInv, HubTyped
  <1>1. CASE EndPoll
    <2>1. saved' \in 0..Len(log) /\ offset' \in 0..Len(log)
      BY <1>0, <1>1 DEF EndPoll, HubTyped
    <2> QED BY <1>1, <2>1, HubUntouched DEF EndPoll, hub
  <1>2. CASE SaveFails
    <2>1. saved' \in 0..Len(log) /\ offset' \in 0..Len(log)
      BY <1>0, <1>2 DEF SaveFails, HubTyped
    <2> QED BY <1>2, <2>1, HubUntouched DEF SaveFails, hub
  <1>3. CASE Restart
    <2>1. saved' \in 0..Len(log)
      BY <1>0, <1>3 DEF Restart, HubTyped
    <2>2. /\ log' \in Seq(Records) /\ saved' \in 0..Len(log') /\ offset' \in 0..Len(log')
          /\ pos' \in 0..Len(log')
      BY <1>0, <1>3, <2>1 DEF Restart, HubTyped
    <2>3. /\ subs' = << >> /\ views' = << >> /\ know' = << >>
          /\ cache' = [e \in Entity |-> Unseen] /\ ids' = [sub |-> 0, view |-> 0]
      BY <1>3 DEF Restart, NewHub
    <2>4. FreshHub'
      BY <2>2, <2>3 DEF FreshHub
    <2> QED BY <2>4, EmptyHub, PTL
  <1>4. CASE UNCHANGED vars
    <2>1. saved' \in 0..Len(log) /\ offset' \in 0..Len(log)
      BY <1>0, <1>4 DEF vars, HubTyped
    <2> QED BY <1>4, <2>1, HubUntouched DEF vars, hub
  <1> QED
    BY <1>1, <1>2, <1>3, <1>4, SubscribeStep, UnsubscribeStep, CreateViewStep, DropViewStep,
       ProcessStep DEF Next

\* The invariant holds in every state of every run.
THEOREM HubInvariant == Spec => []SubInv
  <1>1. Init => SubInv
    <2> SUFFICES ASSUME Init PROVE SubInv
      OBVIOUS
    <2>1. log = << >> /\ saved = 0 /\ offset = 0 /\ pos = 0
      BY DEF Init
    <2>2. /\ log \in Seq(Records) /\ saved \in 0..Len(log) /\ offset \in 0..Len(log)
          /\ pos \in 0..Len(log)
      BY <2>1
    <2> QED BY <2>2, EmptyHub DEF Init, FreshHub
  <1>2. SubInv /\ [Next]_vars => SubInv'
    BY SubNext
  <1> QED BY <1>1, <1>2, PTL DEF Spec

\* A view's members are the entities whose last record since the view was
\* created makes them match (ViewEngine::process).
THEOREM ViewsCountExactly == Spec => []ViewsExact
  <1>1. SubInv => ViewsExact
    BY DEF SubInv
  <1> QED BY <1>1, HubInvariant, PTL

\* Subscribers have been told everything since they subscribed, each write
\* once and each change of a value that is watched alone
\* (SubscriptionEngine::process, ViewEngine::process).
THEOREM SubscribersAreTold == Spec => []SubscribersKnow
  <1>1. SubInv => SubscribersKnow
    <2> SUFFICES ASSUME SubInv, NEW i \in DOMAIN subs
                 PROVE  LET k == know[i] IN
                        CASE subs[i].on = "any" ->
                                k.told = Cardinality(Since(k.from, subs[i].id))
                          [] subs[i].on = "deleted" ->
                                k.told = Cardinality({j \in Since(k.from, subs[i].id) :
                                                        log[j].op = "delete"})
                          [] subs[i].on = "attr" -> k.shared \/ k.val = k.now
                          [] subs[i].on = "view" ->
                                subs[i].id \in DOMAIN views => k.told = Count(subs[i].id)
      BY DEF SubscribersKnow
    <2>1. subs[i].on \in {"any", "deleted", "attr", "view"}
      BY SubscriptionsAssumption DEF SubInv, HubTyped
    <2>2. /\ subs[i].on = "any" =>
                know[i].told = Cardinality(Since(know[i].from, subs[i].id))
          /\ subs[i].on = "deleted" =>
                know[i].told = Cardinality({j \in Since(know[i].from, subs[i].id) :
                                              log[j].op = "delete"})
      BY DEF SubInv, Counted
    <2>3. subs[i].on = "attr" => know[i].shared \/ know[i].val = know[i].now
      BY DEF SubInv, Sighted
    <2>4. subs[i].on = "view" =>
             (subs[i].id \in DOMAIN views => know[i].told = Count(subs[i].id))
      BY DEF SubInv, ViewsTold
    <2>5. CASE subs[i].on = "any"
      BY <2>2, <2>5
    <2>6. CASE subs[i].on = "deleted"
      BY <2>2, <2>6
    <2>7. CASE subs[i].on = "attr"
      BY <2>3, <2>7
    <2>8. CASE subs[i].on = "view"
      BY <2>4, <2>8
    <2> QED BY <2>1, <2>5, <2>6, <2>7, <2>8
  <1> QED BY <1>1, HubInvariant, PTL

=============================================================================
