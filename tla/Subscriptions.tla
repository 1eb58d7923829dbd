--------------------------- MODULE Subscriptions ---------------------------
(***************************************************************************)
(* gems-subscribe: a LogTailer that feeds a replication log to a           *)
(* NotificationHub, which is a SubscriptionEngine and a ViewEngine.        *)
(*                                                                         *)
(* Offsets count records.  A body is the value of the one attribute that   *)
(* watches and predicates name, NoAttr when the body has none or does not  *)
(* decode; a header is the one field a predicate compares (entity_kind and *)
(* schema_ref are compared alike).  The hub lives in memory; only the      *)
(* offset is on disk.  A poll reads all there is and feeds it record by    *)
(* record, so the log is drawn as it is fed: a poll ends wherever the log  *)
(* ended when it was read.                                                 *)
(***************************************************************************)
EXTENDS Integers, Sequences, FiniteSets, Functions

CONSTANTS
    Entity,
    NoAttr,       \* a body without the attribute
    Unseen,       \* no cached value
    Records,      \* bound: of [op, id] for a delete, [op, id, kind, attr] for an insert
    Watches,      \* bound: of [on : {"deleted", "attr", "any", "view"}, id]
    Predicates,   \* bound: of [field : {"kind", "attr"}, is]
    MaxLog,       \* bound: records of the log
    MaxSubs,      \* bound: subscriptions of one life of the hub
    MaxViews,     \* bound: views of one life of the hub
    MaxFaults     \* bound: crashes and failed saves

\* Records are about entities, the absence of a cached value is not a value,
\* and a watch is on an attribute, on any write, on the delete of an entity, or
\* on a view.
ASSUME SubscriptionsAssumption ==
    /\ \A r \in Records : r.id \in Entity /\ (r.op = "insert" => r.attr # Unseen)
    /\ \A w \in Watches : w.on \in {"any", "deleted", "attr", "view"}

VARIABLES
    log,      \* the records of the primary's log a poll has read so far
    saved,    \* the offset file
    offset,   \* LogTailer.offset
    pos,      \* records fed to the hub; beyond offset inside a poll
    subs,     \* SubscriptionEngine.watches
    cache,    \* field_cache of the one attribute
    views,    \* ViewEngine.views
    ids,      \* the two next_id counters
    know,     \* history: what each subscriber has been told
    lost,     \* history: a poll failed after the hub had produced its output
    faults

hub == <<subs, cache, views, ids, know>>
vars == <<log, saved, offset, pos, hub, lost, faults>>

matches(p, r) == r[p.field] = p.is

NewHub ==
    /\ subs' = <<>> /\ views' = <<>> /\ know' = <<>>
    /\ cache' = [e \in Entity |-> Unseen] /\ ids' = [sub |-> 0, view |-> 0]

Init ==
    /\ log = <<>> /\ saved = 0 /\ offset = 0 /\ pos = 0
    /\ subs = <<>> /\ views = <<>> /\ know = <<>>
    /\ cache = [e \in Entity |-> Unseen] /\ ids = [sub |-> 0, view |-> 0]
    /\ lost = FALSE /\ faults = 0

\* No poll is running: the hub is lent to it for its duration.
Between == pos = offset

-----------------------------------------------------------------------------
(* NotificationHub's other calls                                           *)

Extend(f, k, v) == [x \in DOMAIN f \cup {k} |-> IF x = k THEN v ELSE f[x]]
Without(f, k) == Restrict(f, DOMAIN f \ {k})
Count(v) == IF v \in DOMAIN views THEN Cardinality(views[v].members) ELSE 0

subscribe(w) ==
    /\ Between /\ ids.sub < MaxSubs
    /\ ids' = [ids EXCEPT !.sub = @ + 1]
    /\ subs' = Extend(subs, ids'.sub, w)
    /\ know' = Extend(know, ids'.sub,
            [from |-> pos, told |-> IF w.on = "view" THEN Count(w.id) ELSE 0,
             val |-> Unseen, now |-> Unseen, shared |-> FALSE])
    /\ UNCHANGED <<log, saved, offset, pos, cache, views, lost, faults>>

\* The cached value stays.
unsubscribe(i) ==
    /\ Between
    /\ subs' = Without(subs, i) /\ know' = Without(know, i)
    /\ UNCHANGED <<log, saved, offset, pos, cache, views, ids, lost, faults>>

\* A view starts empty, whatever has been read before.
create_view(p) ==
    /\ Between /\ ids.view < MaxViews
    /\ ids' = [ids EXCEPT !.view = @ + 1]
    /\ views' = Extend(views, ids'.view, [pred |-> p, members |-> {}, from |-> pos])
    /\ UNCHANGED <<log, saved, offset, pos, subs, cache, know, lost, faults>>

drop_view(v) ==
    /\ Between /\ views' = Without(views, v)
    /\ UNCHANGED <<log, saved, offset, pos, subs, cache, ids, know, lost, faults>>

-----------------------------------------------------------------------------
(* Feeding a record                                                        *)

Watching(kinds, id) == {i \in DOMAIN subs : subs[i].on \in kinds /\ subs[i].id = id}

\* ViewEngine::process: the members of a view after r
\* Mutant: an entity that stops matching stays a member.
member_update_NeverLeaves(view, r) ==
    IF r.op = "insert" /\ matches(view.pred, r) THEN view.members \cup {r.id}
    ELSE IF r.op = "delete" THEN view.members \ {r.id} ELSE view.members

member_update(view, r) ==
    IF r.op = "insert" /\ matches(view.pred, r) THEN view.members \cup {r.id}
    ELSE view.members \ {r.id}

\* The watches on one attribute share its cached value, which the first of
\* them to be visited replaces: no more than one of them fires, and which one
\* is up to the order of a HashMap.
Fired(r) ==
    LET watchers == Watching({"attr"}, r.id) IN
        IF r.op = "delete" \/ watchers = {} THEN {{}}
        ELSE IF r.attr = NoAttr \/ cache[r.id] \in {Unseen, r.attr} THEN {{}}
        ELSE {{i} : i \in watchers}

\* Mutant: the value is cached only when the watch fires.
Cached_OnlyIfFired(r) ==
    IF r.op = "insert" /\ r.attr # NoAttr /\ Fired(r) # {{}} THEN r.attr ELSE cache[r.id]

Cached(r) ==
    IF r.op = "insert" /\ r.attr # NoAttr /\ Watching({"attr"}, r.id) # {}
    THEN r.attr ELSE cache[r.id]

\* What the subscribers know after the output for r: touched or deleted, a
\* new value, a new count.
Tell(r, fired, newviews) ==
    LET pointed == Watching(IF r.op = "delete" THEN {"deleted", "any"} ELSE {"any"}, r.id)
        sighted == IF r.op = "insert" /\ r.attr # NoAttr THEN Watching({"attr"}, r.id) ELSE {}
        moved == {v \in DOMAIN views :
                    Cardinality(newviews[v].members) # Cardinality(views[v].members)}
    IN  [i \in DOMAIN know |->
            IF i \in pointed THEN [know[i] EXCEPT !.told = @ + 1]
            ELSE IF i \in sighted
            THEN [know[i] EXCEPT !.now = r.attr,
                    !.val = IF i \in fired \/ @ = Unseen THEN r.attr ELSE @,
                    !.shared = @ \/ Cardinality(sighted) > 1]
            ELSE IF subs[i].on = "view" /\ subs[i].id \in moved
            THEN [know[i] EXCEPT !.told = Cardinality(newviews[subs[i].id].members)]
            ELSE know[i]]

\* Inside poll: NotificationHub::process on the next record read
Process ==
    /\ \E r \in IF pos < Len(log) THEN {log[pos + 1]} ELSE Records : \E fired \in Fired(r) :
        \E nv \in {[v \in DOMAIN views |->
                      [views[v] EXCEPT !.members = member_update(views[v], r)]]} :
            /\ log' = IF pos < Len(log) THEN log ELSE Append(log, r)
            /\ views' = nv
            /\ cache' = [cache EXCEPT ![r.id] = Cached(r)]
            /\ know' = Tell(r, fired, nv)
    /\ pos < MaxLog /\ pos' = pos + 1
    /\ UNCHANGED <<saved, offset, subs, ids, lost, faults>>

\* The end of a poll that has read something: the new offset and save_offset
EndPoll ==
    /\ pos > offset
    /\ offset' = pos /\ saved' = pos
    /\ UNCHANGED <<log, pos, hub, lost, faults>>

\* save_offset fails, before or after it has truncated the file: poll returns
\* the error and drops the notifications.
SaveFails ==
    /\ pos > offset /\ faults < MaxFaults
    /\ offset' = pos /\ saved' \in {saved, 0}
    /\ lost' = TRUE /\ faults' = faults + 1
    /\ UNCHANGED <<log, pos, hub>>

\* The process dies, in poll before, while or after it saves, or between
\* polls; open reads the offset, the hub is new.
Restart ==
    /\ faults < MaxFaults
    /\ saved' \in IF pos > offset THEN {saved, 0, pos} ELSE {saved}
    /\ offset' = saved' /\ pos' = saved'
    /\ NewHub
    /\ lost' = FALSE /\ faults' = faults + 1
    /\ UNCHANGED log

Next ==
    \/ \E w \in Watches : subscribe(w)
    \/ \E i \in DOMAIN subs : unsubscribe(i)
    \/ \E p \in Predicates : create_view(p)
    \/ \E v \in DOMAIN views : drop_view(v)
    \/ Process \/ EndPoll \/ SaveFails \/ Restart

Spec == Init /\ [][Next]_vars

-----------------------------------------------------------------------------
(* Properties                                                              *)

\* The records about an entity among those fed since a position
Since(from, id) == {j \in from + 1 .. pos : log[j].id = id}

\* A view's members are the entities whose last record since the view was
\* created makes them match: neither an update that moves one out nor a
\* delete leaves it counted (ViewEngine::process, CountView.members).
ViewsExact ==
    \A v \in DOMAIN views : views[v].members =
        {e \in Entity : \E j \in Since(views[v].from, e) :
            /\ \A k \in Since(views[v].from, e) : k <= j
            /\ log[j].op = "insert" /\ matches(views[v].pred, log[j])}

\* Every subscriber has been told everything since it subscribed: each write
\* or delete once, the newest value of its attribute once that has changed
\* from the one first sighted, the current count of its view; unless a failed
\* save dropped a poll's output, or another watch shared the cached value.
SubscribersKnow ==
    lost \/ \A i \in DOMAIN subs : LET k == know[i] IN
        CASE subs[i].on = "any" -> k.told = Cardinality(Since(k.from, subs[i].id))
          [] subs[i].on = "deleted" ->
                k.told = Cardinality({j \in Since(k.from, subs[i].id) : log[j].op = "delete"})
          [] subs[i].on = "attr" -> k.shared \/ k.val = k.now
          [] subs[i].on = "view" -> subs[i].id \in DOMAIN views => k.told = Count(subs[i].id)
=============================================================================
